-------------------------- MODULE GenerationProofs --------------------------
(***************************************************************************)
(* Theorems about Generation and the rows of Timings, for every set of     *)
(* deployments, jobs and faults.  TracksAreWhole needs to know whose task  *)
(* the worker waits for and what it has written; PaidOnce, that a          *)
(* provider's job in a list is not paid for.  EachRowOnce is inductive;    *)
(* LaterCommitsAreNewer needs two facts more: nothing that is still on its *)
(* way is older than a stored row, and a commit follows only on an empty   *)
(* list.                                                                   *)
(***************************************************************************)
EXTENDS Generation, TLAPS

-----------------------------------------------------------------------------
(* The rows of timing *)

Rows == ToSet(stats)
OnTheWay == Rows \union hand \union open

StoredIsOldest == \A m \in Stored : \A n \in OnTheWay : m < n
CommitIsComplete == reaper = "commit" => hand = {} /\ \A m \in open : \A n \in Rows : m < n

TimingsInv ==
  TimingsType /\ EachRowOnce /\ LaterCommitsAreNewer /\ StoredIsOldest /\ CommitIsComplete

-----------------------------------------------------------------------------
(* Lists *)

LEMMA AppendShape ==
  ASSUME NEW S, NEW s \in Seq(S), NEW e \in S
  PROVE  /\ Append(s, e) \in Seq(S)
         /\ DOMAIN s = 1..Len(s) /\ Len(s) \in Nat
         /\ DOMAIN Append(s, e) = 1..(Len(s) + 1)
         /\ \A i \in 1..Len(s) : Append(s, e)[i] = s[i]
         /\ Append(s, e)[Len(s) + 1] = e
         /\ ToSet(Append(s, e)) = ToSet(s) \union {e}
<1>1. Append(s, e) \in Seq(S) /\ Len(s) \in Nat /\ DOMAIN s = 1..Len(s)
  OBVIOUS
<1>2. DOMAIN Append(s, e) = 1..(Len(s) + 1)
  OBVIOUS
<1>3. /\ \A i \in 1..Len(s) : Append(s, e)[i] = s[i]
      /\ Append(s, e)[Len(s) + 1] = e
  OBVIOUS
<1>4. 1..(Len(s) + 1) = (1..Len(s)) \union {Len(s) + 1}
  BY <1>1
<1>5. ToSet(Append(s, e)) = ToSet(s) \union {e}
  BY <1>1, <1>2, <1>3, <1>4, Zenon DEF ToSet
<1> QED  BY <1>1, <1>2, <1>3, <1>5

LEMMA FrontShape ==
  ASSUME NEW S, NEW s \in Seq(S), s # <<>>
  PROVE  /\ Front(s) \in Seq(S) /\ Last(s) \in S
         /\ DOMAIN s = 1..Len(s) /\ Len(s) \in Nat \ {0}
         /\ DOMAIN Front(s) = 1..(Len(s) - 1)
         /\ \A i \in 1..(Len(s) - 1) : Front(s)[i] = s[i]
         /\ Last(s) = s[Len(s)]
         /\ ToSet(s) = ToSet(Front(s)) \union {Last(s)}
<1>1. DOMAIN s = 1..Len(s) /\ Len(s) \in Nat \ {0}
  OBVIOUS
<1>2. Front(s) \in Seq(S) /\ DOMAIN Front(s) = 1..(Len(s) - 1)
  BY <1>1 DEF Front
<1>3. \A i \in 1..(Len(s) - 1) : Front(s)[i] = s[i]
  BY <1>1 DEF Front
<1>4. Last(s) = s[Len(s)] /\ Last(s) \in S
  BY <1>1 DEF Last
<1>5. 1..Len(s) = (1..(Len(s) - 1)) \union {Len(s)}
  BY <1>1
<1>6. ToSet(s) = ToSet(Front(s)) \union {Last(s)}
  BY <1>1, <1>2, <1>3, <1>4, <1>5, Zenon DEF ToSet
<1> QED  BY <1>1, <1>2, <1>3, <1>4, <1>6

\* A list without repetition loses its last row when that is taken from it.
LEMMA LastIsTaken ==
  ASSUME NEW s \in Seq(Nat), s # <<>>,
         \A i, k \in DOMAIN s : s[i] = s[k] => i = k
  PROVE  /\ Last(s) \notin ToSet(Front(s))
         /\ \A i, k \in DOMAIN Front(s) : Front(s)[i] = Front(s)[k] => i = k
<1>1. /\ DOMAIN s = 1..Len(s) /\ Len(s) \in Nat \ {0}
      /\ DOMAIN Front(s) = 1..(Len(s) - 1)
      /\ \A i \in 1..(Len(s) - 1) : Front(s)[i] = s[i]
      /\ Last(s) = s[Len(s)]
  BY FrontShape
<1>a. \A n \in Nat \ {0} : \A i \in 1..(n - 1) : i \in 1..n /\ i # n /\ n \in 1..n
  OBVIOUS
<1>2. \A i \in 1..(Len(s) - 1) : i \in DOMAIN s /\ i # Len(s) /\ Len(s) \in DOMAIN s
  BY <1>1, <1>a
<1>3. \A i \in 1..(Len(s) - 1) : Front(s)[i] # Last(s)
  BY <1>1, <1>2
<1>4. Last(s) \notin ToSet(Front(s))
  BY <1>1, <1>3 DEF ToSet
<1>5. \A i, k \in DOMAIN Front(s) : Front(s)[i] = Front(s)[k] => i = k
  BY <1>1, <1>2
<1> QED  BY <1>4, <1>5

-----------------------------------------------------------------------------
(* The invariant *)

\* Every row in a store is one that was pushed.
LEMMA RowsWerePushed ==
  ASSUME TimingsType, EachRowOnce
  PROVE  /\ Rows \subseteq 1..pushed /\ hand \subseteq 1..pushed /\ open \subseteq 1..pushed
         /\ Stored \subseteq 1..pushed /\ lost \subseteq 1..pushed
BY DEF EachRowOnce, Rows

LEMMA InitInv == TimingsInit => TimingsInv
<1> SUFFICES ASSUME TimingsInit PROVE TimingsInv
  OBVIOUS
<1>1. Rows = {} /\ Stored = {} /\ 1..pushed = {}
  BY DEF TimingsInit, Rows, Stored, ToSet
<1>2. TimingsType
  BY DEF TimingsInit, TimingsType
<1>3. EachRowOnce
  BY <1>1 DEF TimingsInit, EachRowOnce, Rows
<1> QED  BY <1>1, <1>2, <1>3 DEF TimingsInit, TimingsInv, LaterCommitsAreNewer, StoredIsOldest,
                                  CommitIsComplete

LEMMA PushInv == TimingsInv /\ Push => TimingsInv'
<1> SUFFICES ASSUME TimingsInv, Push PROVE TimingsInv'
  OBVIOUS
<1> USE DEF TimingsInv
<1>1. pushed \in Nat /\ stats \in Seq(Nat) /\ pushed + 1 \in Nat
  BY DEF TimingsType
<1>2. /\ stats' \in Seq(Nat) /\ DOMAIN stats = 1..Len(stats) /\ Len(stats) \in Nat
      /\ DOMAIN stats' = 1..(Len(stats) + 1)
      /\ \A i \in 1..Len(stats) : stats'[i] = stats[i]
      /\ stats'[Len(stats) + 1] = pushed + 1
      /\ Rows' = Rows \union {pushed + 1}
  BY <1>1, AppendShape DEF Push, Rows
<1>3. /\ Rows \subseteq 1..pushed /\ hand \subseteq 1..pushed /\ open \subseteq 1..pushed
      /\ Stored \subseteq 1..pushed /\ lost \subseteq 1..pushed
  BY RowsWerePushed
<1>4. UNCHANGED <<hand, open, table, lost, reaper>> /\ Stored' = Stored /\ pushed' = pushed + 1
  BY DEF Push, Stored
<1>5. pushed + 1 \notin 1..pushed /\ 1..pushed' = (1..pushed) \union {pushed + 1}
      /\ \A m \in 1..pushed : m < pushed + 1
  BY <1>1, <1>4
<1>6. TimingsType'
  BY <1>1, <1>2, <1>4 DEF TimingsType
<1>7. \A i, k \in DOMAIN stats' : stats'[i] = stats'[k] => i = k
  <2>1. \A i \in 1..Len(stats) : stats[i] \in Rows /\ stats[i] # pushed + 1
    BY <1>2, <1>3, <1>5 DEF Rows, ToSet
  <2>2. \A i \in 1..(Len(stats) + 1) : i \in 1..Len(stats) \/ i = Len(stats) + 1
    BY <1>2
  <2> QED  BY <1>2, <2>1, <2>2 DEF EachRowOnce
<1>8. EachRowOnce'
  <2>1. /\ ToSet(stats') \intersect (hand' \union open' \union Stored' \union lost') = {}
        /\ ToSet(stats') \union hand' \union open' \union Stored' \union lost' = 1..pushed'
    BY <1>2, <1>3, <1>4, <1>5 DEF EachRowOnce, Rows
  <2> QED  BY <1>4, <1>7, <2>1 DEF EachRowOnce
<1>9. LaterCommitsAreNewer'
  BY <1>4 DEF LaterCommitsAreNewer
<1>10. StoredIsOldest' /\ CommitIsComplete'
  BY <1>2, <1>3, <1>4, <1>5 DEF StoredIsOldest, CommitIsComplete, OnTheWay
<1> QED  BY <1>6, <1>8, <1>9, <1>10

\* Rows that only move between the hand, the transaction and the lost ones.
LEMMA MovesInv ==
  ASSUME TimingsInv, UNCHANGED <<pushed, stats, table>>,
         hand' \union open' \union lost' = hand \union open \union lost,
         hand' \union open' \subseteq hand \union open,
         hand' \intersect (open' \union lost') = {}, open' \intersect lost' = {},
         reaper' \in {"sleep", "drain", "commit", "reap"},
         reaper' = "commit" => hand' = {} /\ \A m \in open' : \A n \in Rows : m < n
  PROVE  TimingsInv'
<1> USE DEF TimingsInv
<1>1. Rows' = Rows /\ Stored' = Stored
  BY DEF Rows, Stored
<1>2. TimingsType'
  BY DEF TimingsType
<1>3. EachRowOnce'
  <2>1. /\ ToSet(stats') \intersect (hand' \union open' \union Stored' \union lost') = {}
        /\ hand' \intersect (open' \union Stored' \union lost') = {}
        /\ open' \intersect (Stored' \union lost') = {}
        /\ Stored' \intersect lost' = {}
        /\ ToSet(stats') \union hand' \union open' \union Stored' \union lost' = 1..pushed'
    BY <1>1 DEF EachRowOnce
  <2> QED  BY <2>1 DEF EachRowOnce
<1>4. LaterCommitsAreNewer'
  BY DEF LaterCommitsAreNewer
<1>5. StoredIsOldest' /\ CommitIsComplete'
  BY <1>1 DEF StoredIsOldest, CommitIsComplete, OnTheWay
<1> QED  BY <1>2, <1>3, <1>4, <1>5

\* The last row leaves the list for the hand or is lost.
LEMMA TakesInv ==
  ASSUME TimingsInv, stats # <<>>, stats' = Front(stats), UNCHANGED <<pushed, open, table>>,
         \/ hand' = hand \union {Last(stats)} /\ lost' = lost
         \/ hand' = hand /\ lost' = lost \union {Last(stats)},
         reaper' \in {"sleep", "drain"}
  PROVE  TimingsInv'
<1> USE DEF TimingsInv
<1>1. stats \in Seq(Nat) /\ \A i, k \in DOMAIN stats : stats[i] = stats[k] => i = k
  BY DEF TimingsType, EachRowOnce
<1>2. /\ stats' \in Seq(Nat) /\ Last(stats) \in Nat
      /\ Rows = Rows' \union {Last(stats)}
  BY <1>1, FrontShape DEF Rows
<1>3. /\ Last(stats) \notin Rows'
      /\ \A i, k \in DOMAIN stats' : stats'[i] = stats'[k] => i = k
  BY <1>1, LastIsTaken DEF Rows
<1>4. Stored' = Stored
  BY DEF Stored
<1>5. TimingsType'
  BY <1>2 DEF TimingsType
<1>6. EachRowOnce'
  <2>1. /\ ToSet(stats') \intersect (hand' \union open' \union Stored' \union lost') = {}
        /\ hand' \intersect (open' \union Stored' \union lost') = {}
        /\ open' \intersect (Stored' \union lost') = {}
        /\ Stored' \intersect lost' = {}
        /\ ToSet(stats') \union hand' \union open' \union Stored' \union lost' = 1..pushed'
    BY <1>2, <1>3, <1>4 DEF EachRowOnce, Rows
  <2> QED  BY <1>3, <2>1 DEF EachRowOnce
<1>7. LaterCommitsAreNewer'
  BY DEF LaterCommitsAreNewer
<1>8. OnTheWay' \subseteq OnTheWay
  BY <1>2 DEF OnTheWay
<1>9. StoredIsOldest' /\ CommitIsComplete'
  BY <1>4, <1>8 DEF StoredIsOldest, CommitIsComplete
<1> QED  BY <1>5, <1>6, <1>7, <1>9

LEMMA CommitInv == TimingsInv /\ Commit => TimingsInv'
<1> SUFFICES ASSUME TimingsInv, Commit PROVE TimingsInv'
  OBVIOUS
<1> USE DEF TimingsInv
<1>1. /\ reaper = "commit" /\ reaper' = "reap" /\ open' = {}
      /\ UNCHANGED <<pushed, stats, hand, lost>> /\ Rows' = Rows
  BY DEF Commit, Passes, Rows
<1>2. hand = {} /\ \A m \in open : \A n \in Rows : m < n
  BY <1>1 DEF CommitIsComplete
<1>3. table \in Seq(SUBSET Nat) /\ open \in SUBSET Nat
  BY DEF TimingsType
<1>4. /\ table' \in Seq(SUBSET Nat)
      /\ Stored' = Stored \union open
      /\ \A i, k \in DOMAIN table' : table'[i] \intersect table'[k] # {} => i = k
      /\ LaterCommitsAreNewer'
  <2>1. CASE open = {}
    BY <1>3, <2>1 DEF Commit, Stored, EachRowOnce, LaterCommitsAreNewer
  <2>2. CASE open # {}
    <3>1. table' = Append(table, open)
      BY <2>2 DEF Commit
    <3>2. /\ table' \in Seq(SUBSET Nat)
          /\ DOMAIN table = 1..Len(table) /\ Len(table) \in Nat
          /\ DOMAIN table' = 1..(Len(table) + 1)
          /\ \A i \in 1..Len(table) : table'[i] = table[i]
          /\ table'[Len(table) + 1] = open
          /\ ToSet(table') = ToSet(table) \union {open}
      <4> HIDE DEF TimingsInv
      <4> DEFINE S == SUBSET Nat
      <4>1. table \in Seq(S) /\ open \in S
        BY <1>3
      <4> HIDE DEF S
      <4>2. /\ Append(table, open) \in Seq(S)
            /\ DOMAIN table = 1..Len(table) /\ Len(table) \in Nat
            /\ DOMAIN Append(table, open) = 1..(Len(table) + 1)
            /\ \A i \in 1..Len(table) : Append(table, open)[i] = table[i]
            /\ Append(table, open)[Len(table) + 1] = open
            /\ ToSet(Append(table, open)) = ToSet(table) \union {open}
        BY <4>1, AppendShape
      <4> QED  BY <3>1, <4>2 DEF S
    <3>3. \A i \in 1..Len(table) : table[i] \subseteq Stored
      BY <3>2 DEF Stored, ToSet
    <3>4. /\ \A i \in 1..Len(table) : table[i] \intersect open = {}
          /\ \A i \in 1..Len(table) : \A m \in table[i] : \A n \in open : m < n
      BY <3>3 DEF EachRowOnce, StoredIsOldest, OnTheWay
    <3>5. \A i \in 1..(Len(table) + 1) : i \in 1..Len(table) \/ i = Len(table) + 1
      BY <3>2
    <3>6. \A i, k \in DOMAIN table' : table'[i] \intersect table'[k] # {} => i = k
      BY <3>2, <3>4, <3>5, Zenon DEF EachRowOnce
    <3>7. LaterCommitsAreNewer'
      <4> SUFFICES ASSUME NEW i \in DOMAIN table', NEW k \in DOMAIN table', i < k,
                          NEW m \in table'[i], NEW n \in table'[k]
                   PROVE  m < n
        BY DEF LaterCommitsAreNewer
      <4>1. i \in 1..Len(table)
        BY <3>2
      <4>2. CASE k = Len(table) + 1
        BY <3>2, <3>4, <4>1, <4>2
      <4>3. CASE k \in 1..Len(table)
        BY <3>2, <4>1, <4>3 DEF LaterCommitsAreNewer
      <4> QED  BY <3>2, <3>5, <4>2, <4>3
    <3>8. Stored' = Stored \union open
      BY <3>2 DEF Stored
    <3> QED  BY <3>2, <3>6, <3>7, <3>8
  <2> QED  BY <2>1, <2>2
<1>5. TimingsType'
  BY <1>1, <1>4 DEF TimingsType
<1>6. EachRowOnce'
  <2>1. /\ ToSet(stats') \intersect (hand' \union open' \union Stored' \union lost') = {}
        /\ hand' \intersect (open' \union Stored' \union lost') = {}
        /\ open' \intersect (Stored' \union lost') = {}
        /\ Stored' \intersect lost' = {}
        /\ ToSet(stats') \union hand' \union open' \union Stored' \union lost' = 1..pushed'
    BY <1>1, <1>4 DEF EachRowOnce
  <2> QED  BY <1>1, <1>4, <2>1 DEF EachRowOnce
<1>7. StoredIsOldest' /\ CommitIsComplete'
  BY <1>1, <1>2, <1>4 DEF StoredIsOldest, CommitIsComplete, OnTheWay
<1> QED  BY <1>4, <1>5, <1>6, <1>7

LEMMA StepInv == TimingsInv /\ [TimingsNext]_timingVars => TimingsInv'
<1> SUFFICES ASSUME TimingsInv, [TimingsNext]_timingVars PROVE TimingsInv'
  OBVIOUS
<1> USE DEF TimingsInv
<1>0. /\ hand \intersect (open \union lost) = {} /\ open \intersect lost = {}
      /\ reaper \in {"sleep", "drain", "commit", "reap"}
      /\ reaper = "commit" => hand = {} /\ \A m \in open : \A n \in Rows : m < n
  BY DEF EachRowOnce, TimingsType, CommitIsComplete
<1>1. CASE Push
  BY <1>1, PushInv
<1>2. CASE Wake
  BY <1>0, <1>2, MovesInv DEF Wake, Passes
<1>3. CASE Pop
  <2>1. hand = {}
    BY <1>3 DEF Pop, Popping
  <2> QED  BY <1>3, <2>1, TakesInv DEF Pop, Popping
<1>4. CASE Insert
  BY <1>0, <1>4, MovesInv DEF Insert
<1>5. CASE Drained
  <2>1. Rows = {}
    BY <1>5 DEF Drained, Rows, ToSet
  <2> QED  BY <1>0, <1>5, <2>1, MovesInv DEF Drained, Passes
<1>6. CASE Commit
  BY <1>6, CommitInv
<1>7. CASE ReapEnds
  BY <1>0, <1>7, MovesInv DEF ReapEnds, Passes
<1>8. CASE PopBreaks
  <2>1. CASE UNCHANGED <<stats, lost>>
    BY <1>0, <1>8, <2>1, MovesInv DEF PopBreaks
  <2>2. CASE stats' = Front(stats) /\ lost' = lost \union {Last(stats)}
    BY <1>8, <2>2, TakesInv DEF PopBreaks, Popping
  <2> QED  BY <1>8, <2>1, <2>2 DEF PopBreaks
<1>9. CASE StatementBreaks
  BY <1>0, <1>9, MovesInv DEF StatementBreaks
<1>10. CASE ReaperDies
  BY <1>0, <1>10, MovesInv DEF ReaperDies
<1>11. CASE UNCHANGED timingVars
  BY <1>0, <1>11, MovesInv DEF timingVars
<1> QED
  BY <1>1, <1>2, <1>3, <1>4, <1>5, <1>6, <1>7, <1>8, <1>9, <1>10, <1>11
  DEF TimingsNext, ReaperStep, ReaperBreaks

\* Every row of timing is in exactly one place, whatever breaks the reaper's
\* passes (drain_stats): no row is stored twice, and none is gone unless lost.
THEOREM NoRowTwice == TimingsSpec => [](TimingsType /\ EachRowOnce)
<1>1. TimingsInv => TimingsType /\ EachRowOnce
  BY DEF TimingsInv
<1> QED  BY <1>1, InitInv, StepInv, PTL DEF TimingsSpec

\* A commit holds only newer rows than the commits before it, whatever breaks
\* the reaper's passes: what load_latency takes as the newest rows.
THEOREM CommitsAreInOrder == TimingsSpec => []LaterCommitsAreNewer
<1>1. TimingsInv => LaterCommitsAreNewer
  BY DEF TimingsInv
<1> QED  BY <1>1, InitInv, StepInv, PTL DEF TimingsSpec

-----------------------------------------------------------------------------
(* The worker's run *)

Tasks == [job : env.jobs, state : {"working", "done", "failed", "gone"}]

\* TypeOK but for the rows of timing.
StateOK ==
  /\ env \in Deployments /\ pending \subseteq env.jobs /\ inProgress \subseteq env.jobs
  /\ pc \in Places /\ job \in env.jobs \union {NoJob}
  /\ job = NoJob <=> pc \in {"down", "idle"}
  /\ tasks \in Seq(Tasks)
  /\ task \in Nat /\ serverUp \in BOOLEAN
  /\ engaged \in BOOLEAN /\ disabled \in BOOLEAN /\ paid \in [Jobs -> Nat]
  /\ tmp \in [Jobs -> Files] /\ tracks \in [Jobs -> Files]
  /\ reports \subseteq [job : env.jobs, ok : BOOLEAN] /\ faults \in Nat

Generating == {"waiting", "finished", "writing", "written"}

\* Only a local worker waits for a task, which is its own job's, and only a
\* provider's call is answered.
OwnTask ==
  /\ Local /\ pc \in Generating => task \in DOMAIN tasks /\ tasks[task].job = job
  /\ pc = "waiting" => Local
  /\ pc \in {"called", "exhausted"} => ~Local

WrittenIsWhole == pc = "written" => tmp[job] = Whole(job)
MadeIsThere == pc \in {"made", "acked", "counted"} => tracks[job] = Whole(job)

\* What nobody has paid for.
UnpaidWaits ==
  /\ Local => \A j \in Jobs : paid[j] = 0
  /\ ~Local => /\ job \notin pending
               /\ \A j \in pending : paid[j] = 0
               /\ pc \in {"claimed", "begun"} => paid[job] = 0

GenerationInv ==
  /\ StateOK /\ OwnTask /\ WrittenIsWhole /\ MadeIsThere /\ UnpaidWaits
  /\ TracksAreWhole /\ PaidOnce /\ FreeBetweenJobs

-----------------------------------------------------------------------------
(* Shapes *)

LEMMA SettingTyped ==
  ASSUME env \in Deployments
  PROVE  /\ env.host \in Locals \union Providers /\ env.jobs \subseteq Jobs /\ env.faults \in Nat
         /\ NoJob \notin env.jobs
BY GenerationSettings

LEMMA FilesTyped ==
  ASSUME NEW j \in Jobs
  PROVE  /\ NoFile \in Files /\ Torn(j) \in Files /\ Whole(j) \in Files
         /\ Whole(j) # NoFile
BY DEF NoFile, Torn, Whole, Files

\* A file put under the name of j is under no other name.
LEMMA FilePut ==
  ASSUME NEW f \in [Jobs -> Files], NEW j \in Jobs, NEW x \in Files,
         NEW g, g = [f EXCEPT ![j] = x]
  PROVE  /\ g \in [Jobs -> Files] /\ g[j] = x
         /\ \A i \in Jobs : i # j => g[i] = f[i]
OBVIOUS

\* Accepting a task, and the end of tasks, keep whose they are.
LEMMA TaskAccepted ==
  ASSUME tasks \in Seq(Tasks), job \in env.jobs
  PROVE  /\ Accepts \in Seq(Tasks) /\ Len(tasks) + 1 \in DOMAIN Accepts
         /\ Accepts[Len(tasks) + 1].job = job
         /\ Len(tasks) \in Nat
         /\ \A t \in DOMAIN tasks : t \in DOMAIN Accepts /\ Accepts[t] = tasks[t]
<1>1. [job |-> job, state |-> "working"] \in Tasks
  BY DEF Tasks
<1>2. /\ Accepts \in Seq(Tasks) /\ Len(tasks) \in Nat /\ DOMAIN tasks = 1..Len(tasks)
      /\ DOMAIN Accepts = 1..(Len(tasks) + 1)
      /\ \A t \in 1..Len(tasks) : Accepts[t] = tasks[t]
      /\ Accepts[Len(tasks) + 1] = [job |-> job, state |-> "working"]
  BY <1>1, AppendShape DEF Accepts
<1> QED  BY <1>2

LEMMA TaskEnded ==
  ASSUME tasks \in Seq(Tasks), NEW t \in DOMAIN tasks,
         NEW state \in {"working", "done", "failed", "gone"},
         tasks' = [tasks EXCEPT ![t] = [@ EXCEPT !.state = state]]
  PROVE  /\ tasks' \in Seq(Tasks) /\ DOMAIN tasks' = DOMAIN tasks
         /\ \A u \in DOMAIN tasks : tasks'[u].job = tasks[u].job
<1>1. tasks[t] \in Tasks
  OBVIOUS
<1>2. [tasks[t] EXCEPT !.state = state] \in Tasks
      /\ [tasks[t] EXCEPT !.state = state].job = tasks[t].job
  BY <1>1 DEF Tasks
<1> QED  BY <1>2

LEMMA TasksForgotten ==
  ASSUME tasks \in Seq(Tasks),
         tasks' = [t \in DOMAIN tasks |-> [tasks[t] EXCEPT !.state = "gone"]]
  PROVE  /\ tasks' \in Seq(Tasks) /\ DOMAIN tasks' = DOMAIN tasks
         /\ \A u \in DOMAIN tasks : tasks'[u].job = tasks[u].job
<1>1. Len(tasks) \in Nat /\ DOMAIN tasks = 1..Len(tasks)
  OBVIOUS
<1>2. \A t \in DOMAIN tasks : /\ [tasks[t] EXCEPT !.state = "gone"] \in Tasks
                             /\ [tasks[t] EXCEPT !.state = "gone"].job = tasks[t].job
  <2> TAKE t \in DOMAIN tasks
  <2>1. tasks[t] \in Tasks
    OBVIOUS
  <2> QED  BY <2>1 DEF Tasks
<1>3. DOMAIN tasks' = 1..Len(tasks) /\ \A t \in 1..Len(tasks) : tasks'[t] \in Tasks
  BY <1>1, <1>2
<1>4. tasks' \in [1..Len(tasks) -> Tasks]
  BY <1>1, <1>2
<1>5. tasks' \in Seq(Tasks)
  BY <1>1, <1>4
<1> QED  BY <1>1, <1>2, <1>3, <1>5

-----------------------------------------------------------------------------
(* Types *)

LEMMA InitOK == Init => StateOK
<1> SUFFICES ASSUME Init PROVE StateOK
  OBVIOUS
<1>1. env.jobs \subseteq Jobs /\ NoJob \notin env.jobs
  BY SettingTyped DEF Init
<1>2. NoFile \in Files
  BY DEF NoFile, Files
<1>3. <<>> \in Seq(Tasks)
  OBVIOUS
<1> QED  BY <1>1, <1>2, <1>3 DEF Init, StateOK, Places

\* The queue, the flags and the calls of the worker stay in their ranges.
LEMMA WorkerTyped ==
  ASSUME StateOK, [Next]_vars
  PROVE  /\ env' = env
         /\ pending' \subseteq env.jobs /\ inProgress' \subseteq env.jobs
         /\ pc' \in Places /\ job' \in env.jobs \union {NoJob}
         /\ job' = NoJob <=> pc' \in {"down", "idle"}
<1> USE DEF StateOK
<1>1. env.jobs \subseteq Jobs /\ NoJob \notin env.jobs
  BY SettingTyped
<1>2. CASE Start
  BY <1>1, <1>2 DEF Start, Goes, queueVars, Places
<1>3. CASE SkipCancelled
  BY <1>1, <1>3 DEF SkipCancelled, Goes, Leaves, queueVars, Places
<1>4. CASE Begin
  BY <1>1, <1>4 DEF Begin, Goes, queueVars, Places
<1>5. CASE Refuse
  BY <1>1, <1>5 DEF Refuse, Goes, queueVars, Places
<1>6. CASE Submit
  BY <1>1, <1>6 DEF Submit, Goes, queueVars, Places
<1>7. CASE NotAccepted
  BY <1>1, <1>7 DEF NotAccepted, Goes, Fails, queueVars, Places
<1>8. CASE Succeeds
  BY <1>1, <1>8 DEF Succeeds, Goes, queueVars, Places
<1>9. CASE TaskFailed
  BY <1>1, <1>9 DEF TaskFailed, Goes, Fails, queueVars, Places
<1>10. CASE TimedOut
  BY <1>1, <1>10 DEF TimedOut, Goes, Fails, queueVars, Places
<1>11. CASE Call
  BY <1>1, <1>11 DEF Call, Goes, queueVars, Places
<1>12. CASE Escapes
  BY <1>1, <1>12 DEF Escapes, Goes, Leaves, queueVars, Places
<1>13. CASE \E r \in Responses : Answered(r)
  BY <1>1, <1>13 DEF Answered, queueVars, Places
<1>14. CASE OpenTmp
  BY <1>1, <1>14 DEF OpenTmp, Goes, queueVars, Places
<1>15. CASE Written
  BY <1>1, <1>15 DEF Written, Goes, queueVars, Places
<1>16. CASE Replace
  BY <1>1, <1>16 DEF Replace, Goes, queueVars, Places
<1>17. CASE Acknowledge
  BY <1>1, <1>17 DEF Acknowledge, Goes, Answer, Leaves, queueVars, Places
<1>18. CASE PushStats
  BY <1>1, <1>18 DEF PushStats, Goes, Answer, Leaves, queueVars, Places
<1>19. CASE PushCompleted
  BY <1>1, <1>19 DEF PushCompleted, Goes, Done, Leaves, queueVars, Places
<1>20. CASE Fail
  BY <1>1, <1>20 DEF Fail, Goes, Answer, Leaves, queueVars, Places
<1>21. CASE Exhausted
  BY <1>1, <1>21 DEF Exhausted, Goes, Answer, Leaves, queueVars, Places
<1>22. CASE PushFailed
  BY <1>1, <1>22 DEF PushFailed, Goes, Done, Leaves, queueVars, Places
<1>23. CASE HttpError
  BY <1>1, <1>23 DEF HttpError, Goes, Fails, queueVars, Places
<1>24. CASE WriteFails
  BY <1>1, <1>24 DEF WriteFails, Goes, Fails, queueVars, Places
<1>25. CASE CommandFails
  BY <1>1, <1>25 DEF CommandFails, Goes, Leaves, queueVars, Places
<1>26. CASE Dies
  BY <1>1, <1>26 DEF Dies, queueVars, Places
<1>27. CASE ServerStep
  BY <1>1, <1>27 DEF ServerStep, ServerStops, ServerStarts, TaskEnds, queueVars, Places
<1>28. CASE ReaperWorks
  BY <1>1, <1>28 DEF ReaperWorks, queueVars, Places
<1>29. CASE \E j \in Jobs : Claim(j)
  BY <1>1, <1>29 DEF Claim, queueVars, Places
<1>30. CASE \E j \in Jobs : Requeue(j)
  BY <1>1, <1>30 DEF Requeue, PendingWith, queueVars, Places
<1>31. CASE UNCHANGED vars
  BY <1>1, <1>31 DEF vars, queueVars, Places
<1> QED
  BY <1>2, <1>3, <1>4, <1>5, <1>6, <1>7, <1>8, <1>9, <1>10, <1>11, <1>12, <1>13, <1>14, <1>15, <1>16, <1>17, <1>18, <1>19, <1>20, <1>21, <1>22, <1>23, <1>24, <1>25, <1>26, <1>27, <1>28, <1>29, <1>30, <1>31
  DEF Next, RunStep, WorkerBreaks

-----------------------------------------------------------------------------
(* Which step changes what *)

LEMMA Control ==
  ASSUME [Next]_vars
  PROVE  \/ UNCHANGED <<pc, job>>
         \/ pc' \in {"down", "idle"}
         \/ pc' \in {"failing", "telling"} /\ job' = job
         \/ \E j \in Jobs : Claim(j)
         \/ \E r \in Responses : Answered(r)
         \/ Begin \/ Submit \/ Succeeds \/ Call \/ OpenTmp \/ Written \/ Replace
         \/ Acknowledge \/ PushStats
<1>1. CASE Start
  BY <1>1 DEF Start, Goes
<1>2. CASE SkipCancelled
  BY <1>2 DEF SkipCancelled, Goes, Leaves
<1>3. CASE Refuse
  BY <1>3 DEF Refuse, Goes
<1>4. CASE NotAccepted
  BY <1>4 DEF NotAccepted, Goes, Fails
<1>5. CASE TaskFailed
  BY <1>5 DEF TaskFailed, Goes, Fails
<1>6. CASE TimedOut
  BY <1>6 DEF TimedOut, Goes, Fails
<1>7. CASE Escapes
  BY <1>7 DEF Escapes, Goes, Leaves
<1>8. CASE PushCompleted
  BY <1>8 DEF PushCompleted, Goes, Done, Leaves
<1>9. CASE Fail
  BY <1>9 DEF Fail, Goes, Answer, Leaves
<1>10. CASE Exhausted
  BY <1>10 DEF Exhausted, Goes, Answer, Leaves
<1>11. CASE PushFailed
  BY <1>11 DEF PushFailed, Goes, Done, Leaves
<1>12. CASE HttpError
  BY <1>12 DEF HttpError, Goes, Fails
<1>13. CASE WriteFails
  BY <1>13 DEF WriteFails, Goes, Fails
<1>14. CASE CommandFails
  BY <1>14 DEF CommandFails, Goes, Leaves
<1>15. CASE Dies
  BY <1>15 DEF Dies
<1>16. CASE ServerStep
  BY <1>16 DEF ServerStep, ServerStops, ServerStarts, TaskEnds
<1>17. CASE ReaperWorks
  BY <1>17 DEF ReaperWorks
<1>18. CASE \E j \in Jobs : Requeue(j)
  BY <1>18 DEF Requeue, PendingWith
<1>19. CASE UNCHANGED vars
  BY <1>19 DEF vars
<1> QED
  BY <1>1, <1>2, <1>3, <1>4, <1>5, <1>6, <1>7, <1>8, <1>9, <1>10, <1>11, <1>12, <1>13, <1>14, <1>15, <1>16, <1>17, <1>18, <1>19
  DEF Next, RunStep, WorkerBreaks

LEMMA Frames ==
  ASSUME [Next]_vars
  PROVE  /\ UNCHANGED env
         /\ UNCHANGED pending \/ \E j \in Jobs : Claim(j) \/ Requeue(j)
         /\ UNCHANGED <<tasks, task>> \/ Submit \/ HttpError \/ ServerStep
         /\ UNCHANGED paid \/ Call
         /\ UNCHANGED tmp \/ OpenTmp \/ Written \/ Replace \/ Fail \/ CommandFails
         /\ UNCHANGED tracks \/ Replace
         /\ UNCHANGED reports \/ PushCompleted \/ PushFailed
         /\ UNCHANGED serverUp \/ ServerStep
         /\ UNCHANGED disabled \/ Exhausted \/ Dies
<1>1. CASE Start
  BY <1>1 DEF Start, queueVars, serverVars, fileVars
<1>2. CASE SkipCancelled
  BY <1>2 DEF SkipCancelled, queueVars, serverVars, fileVars
<1>3. CASE Begin
  BY <1>3 DEF Begin, queueVars, serverVars, fileVars
<1>4. CASE Refuse
  BY <1>4 DEF Refuse, queueVars, serverVars, fileVars
<1>5. CASE Submit
  BY <1>5 DEF Submit, queueVars, serverVars, fileVars
<1>6. CASE NotAccepted
  BY <1>6 DEF NotAccepted, queueVars, serverVars, fileVars
<1>7. CASE Succeeds
  BY <1>7 DEF Succeeds, queueVars, serverVars, fileVars
<1>8. CASE TaskFailed
  BY <1>8 DEF TaskFailed, queueVars, serverVars, fileVars
<1>9. CASE TimedOut
  BY <1>9 DEF TimedOut, queueVars, serverVars, fileVars
<1>10. CASE Call
  BY <1>10 DEF Call, queueVars, serverVars, fileVars
<1>11. CASE Escapes
  BY <1>11 DEF Escapes, queueVars, serverVars, fileVars
<1>12. CASE \E r \in Responses : Answered(r)
  BY <1>12 DEF Answered, queueVars, serverVars, fileVars
<1>13. CASE OpenTmp
  BY <1>13 DEF OpenTmp, queueVars, serverVars, fileVars
<1>14. CASE Written
  BY <1>14 DEF Written, queueVars, serverVars, fileVars
<1>15. CASE Replace
  BY <1>15 DEF Replace, queueVars, serverVars, fileVars
<1>16. CASE Acknowledge
  BY <1>16 DEF Acknowledge, queueVars, serverVars, fileVars
<1>17. CASE PushStats
  BY <1>17 DEF PushStats, queueVars, serverVars, fileVars
<1>18. CASE PushCompleted
  BY <1>18 DEF PushCompleted, queueVars, serverVars, fileVars
<1>19. CASE Fail
  BY <1>19 DEF Fail, queueVars, serverVars, fileVars
<1>20. CASE Exhausted
  BY <1>20 DEF Exhausted, queueVars, serverVars, fileVars
<1>21. CASE PushFailed
  BY <1>21 DEF PushFailed, queueVars, serverVars, fileVars
<1>22. CASE HttpError
  BY <1>22 DEF HttpError, queueVars, serverVars, fileVars
<1>23. CASE WriteFails
  BY <1>23 DEF WriteFails, queueVars, serverVars, fileVars
<1>24. CASE CommandFails
  BY <1>24 DEF CommandFails, queueVars, serverVars, fileVars
<1>25. CASE Dies
  BY <1>25 DEF Dies, queueVars, serverVars, fileVars
<1>26. CASE ServerStep
  BY <1>26 DEF ServerStep, ServerStops, ServerStarts, TaskEnds, queueVars, serverVars, fileVars
<1>27. CASE ReaperWorks
  BY <1>27 DEF ReaperWorks, queueVars, serverVars, fileVars
<1>28. CASE \E j \in Jobs : Claim(j)
  BY <1>28 DEF Claim, queueVars, serverVars, fileVars
<1>29. CASE \E j \in Jobs : Requeue(j)
  BY <1>29 DEF Requeue, queueVars, serverVars, fileVars
<1>30. CASE UNCHANGED vars
  BY <1>30 DEF vars, queueVars, serverVars, fileVars
<1> QED
  BY <1>1, <1>2, <1>3, <1>4, <1>5, <1>6, <1>7, <1>8, <1>9, <1>10, <1>11, <1>12, <1>13, <1>14, <1>15, <1>16, <1>17, <1>18, <1>19, <1>20, <1>21, <1>22, <1>23, <1>24, <1>25, <1>26, <1>27, <1>28, <1>29, <1>30
  DEF Next, RunStep, WorkerBreaks

-----------------------------------------------------------------------------
(* The tasks of the model server *)

\* No step changes whose a task is.
LEMMA TasksKept ==
  ASSUME StateOK, [Next]_vars
  PROVE  /\ tasks' \in Seq(Tasks) /\ task' \in Nat
         /\ \A t \in DOMAIN tasks : t \in DOMAIN tasks' /\ tasks'[t].job = tasks[t].job
         /\ Submit => task' \in DOMAIN tasks' /\ tasks'[task'].job = job
         /\ task' = task \/ Submit
<1>1. tasks \in Seq(Tasks) /\ task \in Nat
  BY DEF StateOK
<1>2. CASE Submit
  <2>1. job \in env.jobs
    BY <1>2 DEF StateOK, Submit, Goes
  <2> QED  BY <1>1, <1>2, <2>1, TaskAccepted DEF Submit
<1>3. CASE HttpError
  <2>1. task' = task /\ (tasks' = tasks \/ (tasks' = Accepts /\ pc = "begun"))
    BY <1>3 DEF HttpError, Fails, Goes
  <2>2. pc = "begun" => job \in env.jobs
    BY DEF StateOK
  <2>3. ~Submit
    BY <1>3 DEF HttpError, Fails, Goes, Submit
  <2> QED  BY <1>1, <2>1, <2>2, <2>3, TaskAccepted
<1>4. CASE ServerStep
  <2>0. task' = task /\ ~Submit
    BY <1>4 DEF ServerStep, ServerStops, ServerStarts, TaskEnds, Submit, Goes
  <2>1. CASE ServerStops
    BY <1>1, <2>0, <2>1, TasksForgotten DEF ServerStops
  <2>2. CASE ServerStarts
    BY <1>1, <2>0, <2>2 DEF ServerStarts
  <2>3. CASE \E t \in DOMAIN tasks : TaskEnds(t, "done") \/ TaskEnds(t, "failed")
    <3>1. PICK t \in DOMAIN tasks : TaskEnds(t, "done") \/ TaskEnds(t, "failed")
      BY <2>3
    <3>2. CASE TaskEnds(t, "done")
      BY <1>1, <2>0, <3>2, TaskEnded DEF TaskEnds
    <3>3. CASE TaskEnds(t, "failed")
      BY <1>1, <2>0, <3>3, TaskEnded DEF TaskEnds
    <3> QED  BY <3>1, <3>2, <3>3
  <2> QED  BY <1>4, <2>1, <2>2, <2>3 DEF ServerStep
<1>5. CASE UNCHANGED <<tasks, task>>
  <2>1. ~Submit
    BY <1>1, <1>5, TaskAccepted DEF Submit, Accepts
  <2> QED  BY <1>1, <1>5, <2>1
<1> QED  BY <1>2, <1>3, <1>4, <1>5, Frames

LEMMA OwnTaskStep ==
  ASSUME StateOK, OwnTask, [Next]_vars
  PROVE  OwnTask'
<1>0. /\ Local' <=> Local
      /\ task' \in Nat
      /\ \A t \in DOMAIN tasks : t \in DOMAIN tasks' /\ tasks'[t].job = tasks[t].job
      /\ Submit => task' \in DOMAIN tasks' /\ tasks'[task'].job = job
      /\ task' = task \/ Submit
  BY Frames, TasksKept DEF Local
<1> USE DEF OwnTask, Generating
<1>1. CASE UNCHANGED <<pc, job>>
  <2>1. ~Submit
    BY <1>1 DEF Submit, Goes
  <2> QED  BY <1>0, <1>1, <2>1
<1>2. CASE pc' \in {"down", "idle", "failing", "telling"}
  BY <1>2
<1>3. CASE \E j \in Jobs : Claim(j)
  <2>1. pc' = "claimed" \/ UNCHANGED <<pc, job>>
    BY <1>3 DEF Claim
  <2> QED  BY <1>1, <2>1
<1>4. CASE \E r \in Responses : Answered(r)
  <2>1. ~Local /\ ~Local' /\ pc' \in {"finished", "exhausted", "failing"}
    BY <1>0, <1>4 DEF Answered
  <2> QED  BY <2>1
<1>5. CASE Begin \/ Replace \/ Acknowledge \/ PushStats
  <2>1. pc' \in {"begun", "made", "acked", "counted", "idle"}
    BY <1>5 DEF Begin, Replace, Acknowledge, PushStats, Answer, Leaves, Goes
  <2> QED  BY <2>1
<1>6. CASE Submit
  <2>1. pc' = "waiting" /\ Local /\ job' = job
    BY <1>6 DEF Submit, Goes
  <2> QED  BY <1>0, <1>6, <2>1
<1>7. CASE Call
  <2>1. pc' = "called" /\ ~Local
    BY <1>7 DEF Call, Goes
  <2> QED  BY <1>0, <2>1
<1>8. CASE Succeeds \/ OpenTmp \/ Written
  <2>1. pc \in Generating /\ pc' \in {"finished", "writing", "written"} /\ UNCHANGED <<job, task>>
    BY <1>8 DEF Succeeds, OpenTmp, Written, Goes
  <2> QED  BY <1>0, <2>1
<1> QED  BY <1>1, <1>2, <1>3, <1>4, <1>5, <1>6, <1>7, <1>8, Control

-----------------------------------------------------------------------------
(* The files *)

\* The audio of a run is its own job's.
LEMMA AudioIsOwn ==
  ASSUME OwnTask, pc \in {"finished", "writing"}
  PROVE  Audio = job
BY DEF OwnTask, Audio, Generating

LEMMA FilesStep ==
  ASSUME StateOK, OwnTask, WrittenIsWhole, MadeIsThere, TracksAreWhole, [Next]_vars
  PROVE  /\ tmp' \in [Jobs -> Files] /\ tracks' \in [Jobs -> Files]
         /\ WrittenIsWhole' /\ MadeIsThere' /\ TracksAreWhole'
<1>0. /\ tmp \in [Jobs -> Files] /\ tracks \in [Jobs -> Files] /\ NoFile \in Files
      /\ pc \notin {"down", "idle"} => job \in Jobs
  BY SettingTyped DEF StateOK, NoFile, Files
<1>1. CASE OpenTmp
  <2>1. Audio = job /\ job \in Jobs /\ Torn(job) \in Files
    BY <1>0, <1>1, AudioIsOwn, FilesTyped DEF OpenTmp, Goes
  <2>2. tmp' \in [Jobs -> Files]
    BY <1>0, <1>1, <2>1, FilePut DEF OpenTmp
  <2> QED  BY <1>0, <1>1, <2>2 DEF OpenTmp, Goes, WrittenIsWhole, MadeIsThere, TracksAreWhole
<1>2. CASE Written
  <2>1. Audio = job /\ job \in Jobs /\ Whole(job) \in Files
    BY <1>0, <1>2, AudioIsOwn, FilesTyped DEF Written, Goes
  <2>2. tmp' \in [Jobs -> Files] /\ tmp'[job] = Whole(job) /\ job' = job
    BY <1>0, <1>2, <2>1, FilePut DEF Written
  <2> QED  BY <1>0, <1>2, <2>2 DEF Written, Goes, WrittenIsWhole, MadeIsThere, TracksAreWhole
<1>3. CASE Replace
  <2>1. tmp[job] = Whole(job) /\ job \in Jobs /\ Whole(job) \in Files
    BY <1>0, <1>3, FilesTyped DEF Replace, Goes, WrittenIsWhole
  <2>2. /\ tracks' \in [Jobs -> Files] /\ tracks'[job] = Whole(job)
        /\ \A i \in Jobs : i # job => tracks'[i] = tracks[i]
    BY <1>0, <1>3, <2>1, FilePut DEF Replace
  <2>3. tmp' \in [Jobs -> Files]
    BY <1>0, <1>3, <2>1, FilePut DEF Replace
  <2>4. TracksAreWhole'
    BY <2>2 DEF TracksAreWhole
  <2> QED  BY <1>3, <2>2, <2>3, <2>4 DEF Replace, Goes, WrittenIsWhole, MadeIsThere
<1>4. CASE Fail \/ CommandFails
  <2>1. /\ pc' \notin {"written", "made", "acked", "counted"} /\ tracks' = tracks
        /\ tmp' = tmp \/ (tmp' = [tmp EXCEPT ![job] = NoFile] /\ pc \notin {"down", "idle"})
    BY <1>4 DEF Fail, CommandFails, Answer, Goes, Leaves, Discarded, fileVars
  <2>2. tmp' \in [Jobs -> Files]
    BY <1>0, <2>1, FilePut
  <2> QED  BY <1>0, <2>1, <2>2 DEF WrittenIsWhole, MadeIsThere, TracksAreWhole
<1>5. CASE UNCHANGED <<tmp, tracks>>
  <2>1. \/ UNCHANGED <<pc, job>>
        \/ pc' \notin {"written", "made", "acked", "counted"}
        \/ Written \/ Replace
        \/ pc \in {"made", "acked"} /\ pc' \in {"acked", "counted"} /\ job' = job
    BY Control DEF Claim, Answered, Begin, Submit, Succeeds, Call, OpenTmp, Acknowledge, PushStats,
                   Answer, Leaves, Goes
  <2> QED  BY <1>0, <1>2, <1>3, <1>5, <2>1 DEF WrittenIsWhole, MadeIsThere, TracksAreWhole
<1> QED  BY <1>1, <1>2, <1>3, <1>4, <1>5, Frames

-----------------------------------------------------------------------------
(* The calls that are paid for *)

LEMMA UnpaidStep ==
  ASSUME StateOK, OwnTask, UnpaidWaits, PaidOnce, [Next]_vars
  PROVE  paid' \in [Jobs -> Nat] /\ UnpaidWaits' /\ PaidOnce'
<1>0. /\ paid \in [Jobs -> Nat] /\ pending \subseteq Jobs
      /\ pc \notin {"down", "idle"} => job \in Jobs
      /\ NoJob \notin pending
      /\ pc \in {"down", "idle"} => job = NoJob
      /\ Local' <=> Local
  BY SettingTyped, Frames DEF StateOK, Local
<1>1. CASE Call
  <2>1. /\ pc = "begun" /\ pc' = "called" /\ ~Local /\ job' = job /\ pending' = pending
        /\ paid' = [paid EXCEPT ![job] = @ + 1] /\ job \in Jobs
    BY <1>0, <1>1 DEF Call, Goes, queueVars
  <2>2. paid[job] = 0 /\ job \notin pending
    BY <2>1 DEF UnpaidWaits
  <2>3. /\ paid' \in [Jobs -> Nat] /\ paid'[job] = 1
        /\ \A j \in Jobs : j # job => paid'[j] = paid[j]
    BY <1>0, <2>1, <2>2
  <2> QED  BY <1>0, <2>1, <2>2, <2>3 DEF UnpaidWaits, PaidOnce
<1>2. CASE \E j \in Jobs : Claim(j)
  <2>1. PICK j \in Jobs : Claim(j)
    BY <1>2
  <2>2. /\ j \in pending /\ pc = "idle" /\ pending' = pending \ {j} /\ paid' = paid
        /\ (pc' = "claimed" /\ job' = j) \/ (pc' = pc /\ job' = job)
    BY <2>1 DEF Claim
  <2> QED  BY <1>0, <2>2 DEF UnpaidWaits, PaidOnce
<1>3. CASE \E j \in Jobs : Requeue(j)
  <2>1. /\ paid' = paid /\ pc' = pc /\ job' = job
        /\ ~Local => pending' = pending
    BY <1>3 DEF Requeue, PendingWith
  <2> QED  BY <1>0, <2>1 DEF UnpaidWaits, PaidOnce
<1>4. CASE UNCHANGED <<pending, paid>>
  <2>1. \/ UNCHANGED <<pc, job>>
        \/ pc' \notin {"claimed", "begun"} /\ job' \in {job, NoJob}
        \/ Begin \/ \E j \in Jobs : Claim(j)
    <3>1. CASE pc' \in {"down", "idle"}
      <4>1. job' = NoJob
        BY <3>1, WorkerTyped
      <4> QED  BY <3>1, <4>1
    <3> QED  BY <3>1, Control DEF Answered, Submit, Succeeds, Call, OpenTmp, Written, Replace, Acknowledge,
                         PushStats, Answer, Leaves, Goes
  <2>2. CASE Begin
    <3>1. pc = "claimed" /\ job' = job
      BY <2>2 DEF Begin, Goes
    <3> QED  BY <1>0, <1>4, <3>1 DEF UnpaidWaits, PaidOnce
  <2>3. CASE UNCHANGED <<pc, job>>
    BY <1>0, <1>4, <2>3 DEF UnpaidWaits, PaidOnce
  <2>4. CASE pc' \notin {"claimed", "begun"} /\ job' \in {job, NoJob}
    <3>1. NoJob \notin pending
      BY <1>0
    <3>2. ~Local => job \notin pending
      BY DEF UnpaidWaits
    <3>3. ~Local' => job' \notin pending'
      BY <1>0, <1>4, <2>4, <3>1, <3>2
    <3>4. paid' \in [Jobs -> Nat] /\ PaidOnce'
      BY <1>0, <1>4 DEF PaidOnce
    <3> QED  BY <1>0, <1>4, <2>4, <3>3, <3>4 DEF UnpaidWaits
  <2> QED  BY <1>2, <2>1, <2>2, <2>3, <2>4
<1> QED  BY <1>1, <1>2, <1>3, <1>4, Frames

-----------------------------------------------------------------------------
(* Whether the Mac worker is engaged *)

LEMMA EngagedStep ==
  ASSUME StateOK, OwnTask, FreeBetweenJobs, [Next]_vars
  PROVE  engaged' \in BOOLEAN /\ FreeBetweenJobs'
<1>0. engaged \in BOOLEAN /\ (Mac' <=> Mac) /\ (Mac => Local)
  BY Frames DEF StateOK, Mac, Local, Locals
<1> USE DEF FreeBetweenJobs
<1>1. CASE Start
  BY <1>0, <1>1 DEF Start, Goes
<1>2. CASE SkipCancelled
  BY <1>0, <1>2 DEF SkipCancelled, Goes, Leaves
<1>3. CASE Begin
  BY <1>0, <1>3 DEF Begin, Goes, Mac
<1>4. CASE Refuse
  BY <1>0, <1>4 DEF Refuse, Goes
<1>5. CASE Submit
  BY <1>0, <1>5 DEF Submit, Goes
<1>6. CASE NotAccepted
  BY <1>0, <1>6 DEF NotAccepted, Goes, Fails
<1>7. CASE Succeeds
  BY <1>0, <1>7 DEF Succeeds, Goes
<1>8. CASE TaskFailed
  BY <1>0, <1>8 DEF TaskFailed, Goes, Fails
<1>9. CASE TimedOut
  BY <1>0, <1>9 DEF TimedOut, Goes, Fails
<1>10. CASE Call
  BY <1>0, <1>10 DEF Call, Goes
<1>11. CASE Escapes
  BY <1>0, <1>11 DEF Escapes, Goes, Leaves
<1>12. CASE \E r \in Responses : Answered(r)
  BY <1>0, <1>12 DEF Answered, OwnTask
<1>13. CASE OpenTmp
  BY <1>0, <1>13 DEF OpenTmp, Goes
<1>14. CASE Written
  BY <1>0, <1>14 DEF Written, Goes
<1>15. CASE Replace
  BY <1>0, <1>15 DEF Replace, Goes
<1>16. CASE Acknowledge
  BY <1>0, <1>16 DEF Acknowledge, Goes, Answer, Leaves
<1>17. CASE PushStats
  BY <1>0, <1>17 DEF PushStats, Goes, Answer, Leaves
<1>18. CASE PushCompleted
  BY <1>0, <1>18 DEF PushCompleted, Goes, Done, Leaves
<1>19. CASE Fail
  BY <1>0, <1>19 DEF Fail, Goes, Answer, Leaves
<1>20. CASE Exhausted
  BY <1>0, <1>20 DEF Exhausted, Goes, Answer, Leaves
<1>21. CASE PushFailed
  BY <1>0, <1>21 DEF PushFailed, Goes, Done, Leaves
<1>22. CASE HttpError
  BY <1>0, <1>22 DEF HttpError, Goes, Fails
<1>23. CASE WriteFails
  BY <1>0, <1>23 DEF WriteFails, Goes, Fails
<1>24. CASE CommandFails
  BY <1>0, <1>24 DEF CommandFails, Goes, Leaves
<1>25. CASE Dies
  BY <1>0, <1>25 DEF Dies
<1>26. CASE ServerStep
  BY <1>0, <1>26 DEF ServerStep, ServerStops, ServerStarts, TaskEnds
<1>27. CASE ReaperWorks
  BY <1>0, <1>27 DEF ReaperWorks
<1>28. CASE \E j \in Jobs : Claim(j)
  BY <1>0, <1>28 DEF Claim
<1>29. CASE \E j \in Jobs : Requeue(j)
  BY <1>0, <1>29 DEF Requeue, PendingWith
<1>30. CASE UNCHANGED vars
  BY <1>0, <1>30 DEF vars
<1> QED
  BY <1>1, <1>2, <1>3, <1>4, <1>5, <1>6, <1>7, <1>8, <1>9, <1>10, <1>11, <1>12, <1>13, <1>14, <1>15, <1>16, <1>17, <1>18, <1>19, <1>20, <1>21, <1>22, <1>23, <1>24, <1>25, <1>26, <1>27, <1>28, <1>29, <1>30
  DEF Next, RunStep, WorkerBreaks

-----------------------------------------------------------------------------
(* The flags and the reports *)

LEMMA FlagsTyped ==
  ASSUME StateOK, [Next]_vars
  PROVE  serverUp' \in BOOLEAN /\ disabled' \in BOOLEAN
<1>0. serverUp \in BOOLEAN /\ disabled \in BOOLEAN
  BY DEF StateOK
<1>1. serverUp' \in BOOLEAN
  <2>1. CASE ServerStep
    BY <1>0, <2>1 DEF ServerStep, ServerStops, ServerStarts, TaskEnds
  <2> QED  BY <1>0, <2>1, Frames
<1>2. disabled' \in BOOLEAN
  <2>1. CASE Exhausted
    <3>1. disabled' = (pc' = "telling")
      BY <2>1 DEF Exhausted
    <3> QED  BY <3>1
  <2>2. CASE Dies
    <3>1. disabled' = FALSE
      BY <2>2 DEF Dies
    <3> QED  BY <3>1
  <2> QED  BY <1>0, <2>1, <2>2, Frames
<1> QED  BY <1>1, <1>2

LEMMA ReportsTyped ==
  ASSUME StateOK, [Next]_vars
  PROVE  reports' \subseteq [job : env.jobs, ok : BOOLEAN]
<1>1. CASE PushCompleted \/ PushFailed
  <2>1. job \in env.jobs
    BY <1>1 DEF StateOK, PushCompleted, PushFailed
  <2>2. PICK ok \in BOOLEAN : Tells(ok)
    BY <1>1 DEF PushCompleted, PushFailed
  <2>3. reports' = reports \union {[job |-> job, ok |-> ok]}
    BY <2>2 DEF Tells
  <2>4. [job |-> job, ok |-> ok] \in [job : env.jobs, ok : BOOLEAN]
    BY <2>1, <2>2
  <2> QED  BY <2>3, <2>4, Zenon DEF StateOK
<1> QED  BY <1>1, Frames DEF StateOK

LEMMA FaultsTyped ==
  ASSUME StateOK, [Next]_vars
  PROVE  faults' \in Nat
<1>0. faults \in Nat
  BY DEF StateOK
<1>1. CASE Start
  BY <1>0, <1>1 DEF Start
<1>2. CASE SkipCancelled
  BY <1>0, <1>2 DEF SkipCancelled
<1>3. CASE Begin
  BY <1>0, <1>3 DEF Begin
<1>4. CASE Refuse
  BY <1>0, <1>4 DEF Refuse
<1>5. CASE Submit
  BY <1>0, <1>5 DEF Submit
<1>6. CASE NotAccepted
  BY <1>0, <1>6 DEF NotAccepted
<1>7. CASE Succeeds
  BY <1>0, <1>7 DEF Succeeds
<1>8. CASE TaskFailed
  BY <1>0, <1>8 DEF TaskFailed
<1>9. CASE TimedOut
  BY <1>0, <1>9 DEF TimedOut
<1>10. CASE Call
  BY <1>0, <1>10 DEF Call
<1>11. CASE Escapes
  BY <1>0, <1>11 DEF Escapes
<1>12. CASE \E r \in Responses : Answered(r)
  BY <1>0, <1>12 DEF Answered
<1>13. CASE OpenTmp
  BY <1>0, <1>13 DEF OpenTmp
<1>14. CASE Written
  BY <1>0, <1>14 DEF Written
<1>15. CASE Replace
  BY <1>0, <1>15 DEF Replace
<1>16. CASE Acknowledge
  BY <1>0, <1>16 DEF Acknowledge, Answer, Fault
<1>17. CASE PushStats
  BY <1>0, <1>17 DEF PushStats, Answer, Fault
<1>18. CASE PushCompleted
  BY <1>0, <1>18 DEF PushCompleted, Done, Fault
<1>19. CASE Fail
  BY <1>0, <1>19 DEF Fail, Answer, Fault
<1>20. CASE Exhausted
  BY <1>0, <1>20 DEF Exhausted, Answer, Fault
<1>21. CASE PushFailed
  BY <1>0, <1>21 DEF PushFailed, Done, Fault
<1>22. CASE HttpError
  BY <1>0, <1>22 DEF HttpError, Fault
<1>23. CASE WriteFails
  BY <1>0, <1>23 DEF WriteFails, Fault
<1>24. CASE CommandFails
  BY <1>0, <1>24 DEF CommandFails, Fault
<1>25. CASE Dies
  BY <1>0, <1>25 DEF Dies, Fault
<1>26. CASE ServerStep
  BY <1>0, <1>26 DEF ServerStep, ServerStops, ServerStarts, TaskEnds, Fault
<1>27. CASE ReaperWorks
  BY <1>0, <1>27 DEF ReaperWorks, Fault
<1>28. CASE \E j \in Jobs : Claim(j)
  BY <1>0, <1>28 DEF Claim, Fault
<1>29. CASE \E j \in Jobs : Requeue(j)
  BY <1>0, <1>29 DEF Requeue, Fault
<1>30. CASE UNCHANGED vars
  BY <1>0, <1>30 DEF vars
<1> QED
  BY <1>1, <1>2, <1>3, <1>4, <1>5, <1>6, <1>7, <1>8, <1>9, <1>10, <1>11, <1>12, <1>13, <1>14, <1>15, <1>16, <1>17, <1>18, <1>19, <1>20, <1>21, <1>22, <1>23, <1>24, <1>25, <1>26, <1>27, <1>28, <1>29, <1>30
  DEF Next, RunStep, WorkerBreaks

-----------------------------------------------------------------------------
(* The invariant *)

LEMMA InitHolds == Init => GenerationInv
<1> SUFFICES ASSUME Init PROVE GenerationInv
  OBVIOUS
<1>1. StateOK
  BY InitOK
<1>2. OwnTask /\ WrittenIsWhole /\ MadeIsThere
  BY DEF Init, OwnTask, WrittenIsWhole, MadeIsThere, Generating
<1>3. UnpaidWaits /\ PaidOnce
  BY <1>1, SettingTyped DEF Init, UnpaidWaits, PaidOnce
<1>4. TracksAreWhole /\ FreeBetweenJobs
  BY DEF Init, TracksAreWhole, FreeBetweenJobs
<1> QED  BY <1>1, <1>2, <1>3, <1>4 DEF GenerationInv

LEMMA StepHolds == GenerationInv /\ [Next]_vars => GenerationInv'
<1> SUFFICES ASSUME GenerationInv, [Next]_vars PROVE GenerationInv'
  OBVIOUS
<1> USE DEF GenerationInv
<1>1. OwnTask'
  BY OwnTaskStep
<1>2. /\ tmp' \in [Jobs -> Files] /\ tracks' \in [Jobs -> Files]
      /\ WrittenIsWhole' /\ MadeIsThere' /\ TracksAreWhole'
  BY FilesStep
<1>3. paid' \in [Jobs -> Nat] /\ UnpaidWaits' /\ PaidOnce'
  BY UnpaidStep
<1>4. engaged' \in BOOLEAN /\ FreeBetweenJobs'
  BY EngagedStep
<1>5. StateOK'
  <2>1. env' = env /\ Tasks' = Tasks
    BY WorkerTyped DEF Tasks
  <2>2. env' \in Deployments
    BY <2>1 DEF StateOK
  <2>3. /\ pending' \subseteq env'.jobs /\ inProgress' \subseteq env'.jobs
        /\ pc' \in Places /\ job' \in env'.jobs \union {NoJob}
        /\ job' = NoJob <=> pc' \in {"down", "idle"}
    BY <2>1, WorkerTyped
  <2>4. tasks' \in Seq(Tasks') /\ task' \in Nat
    BY <2>1, TasksKept
  <2>5. serverUp' \in BOOLEAN /\ disabled' \in BOOLEAN
    BY FlagsTyped
  <2>6. reports' \subseteq [job : env'.jobs, ok : BOOLEAN] /\ faults' \in Nat
    BY <2>1, ReportsTyped, FaultsTyped
  <2> QED  BY <1>2, <1>3, <1>4, <2>2, <2>3, <2>4, <2>5, <2>6, Zenon DEF StateOK
<1> QED  BY <1>1, <1>2, <1>3, <1>4, <1>5

LEMMA InvHolds == Spec => []GenerationInv
BY InitHolds, StepHolds, PTL DEF Spec

\* A worker and the reaper beside it move the rows of timing as Timings says.
THEOREM TimingsAreMoved == Spec => TimingsSpec
<1>1. Init => TimingsInit
  BY DEF Init
<1>2. [Next]_vars => [TimingsNext]_timingVars
  <2> SUFFICES ASSUME [Next]_vars PROVE [TimingsNext]_timingVars
    OBVIOUS
  <2>1. CASE Start
    BY <2>1 DEF Start
  <2>2. CASE SkipCancelled
    BY <2>2 DEF SkipCancelled
  <2>3. CASE Begin
    BY <2>3 DEF Begin
  <2>4. CASE Refuse
    BY <2>4 DEF Refuse
  <2>5. CASE Submit
    BY <2>5 DEF Submit
  <2>6. CASE NotAccepted
    BY <2>6 DEF NotAccepted
  <2>7. CASE Succeeds
    BY <2>7 DEF Succeeds
  <2>8. CASE TaskFailed
    BY <2>8 DEF TaskFailed
  <2>9. CASE TimedOut
    BY <2>9 DEF TimedOut
  <2>10. CASE Call
    BY <2>10 DEF Call
  <2>11. CASE Escapes
    BY <2>11 DEF Escapes
  <2>12. CASE \E r \in Responses : Answered(r)
    BY <2>12 DEF Answered
  <2>13. CASE OpenTmp
    BY <2>13 DEF OpenTmp
  <2>14. CASE Written
    BY <2>14 DEF Written
  <2>15. CASE Replace
    BY <2>15 DEF Replace
  <2>16. CASE Acknowledge
    BY <2>16 DEF Acknowledge
  <2>17. CASE PushStats
    BY <2>17 DEF PushStats, TimingsNext
  <2>18. CASE PushCompleted
    BY <2>18 DEF PushCompleted
  <2>19. CASE Fail
    BY <2>19 DEF Fail
  <2>20. CASE Exhausted
    BY <2>20 DEF Exhausted
  <2>21. CASE PushFailed
    BY <2>21 DEF PushFailed
  <2>22. CASE HttpError
    BY <2>22 DEF HttpError
  <2>23. CASE WriteFails
    BY <2>23 DEF WriteFails
  <2>24. CASE CommandFails
    BY <2>24 DEF CommandFails
  <2>25. CASE Dies
    BY <2>25 DEF Dies
  <2>26. CASE ServerStep
    BY <2>26 DEF ServerStep, ServerStops, ServerStarts, TaskEnds
  <2>27. CASE ReaperWorks
    BY <2>27 DEF ReaperWorks, TimingsNext
  <2>28. CASE \E j \in Jobs : Claim(j)
    BY <2>28 DEF Claim
  <2>29. CASE \E j \in Jobs : Requeue(j)
    BY <2>29 DEF Requeue
  <2>30. CASE UNCHANGED vars
    BY <2>30 DEF vars
  <2> QED
    BY <2>1, <2>2, <2>3, <2>4, <2>5, <2>6, <2>7, <2>8, <2>9, <2>10, <2>11, <2>12, <2>13, <2>14, <2>15, <2>16, <2>17, <2>18, <2>19, <2>20, <2>21, <2>22, <2>23, <2>24, <2>25, <2>26, <2>27, <2>28, <2>29, <2>30
    DEF Next, RunStep, WorkerBreaks
<1> QED  BY <1>1, <1>2, PTL DEF Spec, TimingsSpec

\* The types, for any deployments.
THEOREM TypesHold == Spec => []TypeOK
<1>1. GenerationInv /\ TimingsType => TypeOK
  BY DEF GenerationInv, StateOK, TypeOK, Tasks
<1> QED  BY <1>1, InvHolds, TimingsAreMoved, NoRowTwice, PTL

\* No row of timing is stored twice or gone unless lost (drain_stats).
THEOREM RowsOnce == Spec => []EachRowOnce
BY TimingsAreMoved, NoRowTwice, PTL

\* Later commits hold newer rows (drain_stats, read by load_latency).
THEOREM RowsInOrder == Spec => []LaterCommitsAreNewer
BY TimingsAreMoved, CommitsAreInOrder, PTL

\* The encoder never finds a part of a track, or another job's, under a final
\* name (generate and fetch_track), whatever fails and however often a job runs.
THEOREM NoTornTracks == Spec => []TracksAreWhole
<1>1. GenerationInv => TracksAreWhole
  BY DEF GenerationInv
<1> QED  BY <1>1, InvHolds, PTL

\* No job is paid for twice (provider_worker.py and pending_list_for).
THEOREM NoSecondCall == Spec => []PaidOnce
<1>1. GenerationInv => PaidOnce
  BY DEF GenerationInv
<1> QED  BY <1>1, InvHolds, PTL

\* MacWorker is free again after every generation (mac_worker.py).
THEOREM NoStuckFlag == Spec => []FreeBetweenJobs
<1>1. GenerationInv => FreeBetweenJobs
  BY DEF GenerationInv
<1> QED  BY <1>1, InvHolds, PTL

-----------------------------------------------------------------------------
(* A worker does what WorkerRun says *)

Made == {j \in Jobs : tracks[j] = Whole(j)}

LEMMA RunStepHolds ==
  ASSUME GenerationInv, [Next]_vars
  PROVE  Run!Next \/ UNCHANGED Run!vars
<1> USE DEF Run!Next, Run!vars, Run!Begin, Run!Make, Run!Report, Run!Stop
<1>0. /\ pc \notin {"down", "idle"} => job # NoJob
      /\ pc \in {"down", "idle"} => job = NoJob
      /\ pc' \in {"down", "idle"} => job' = NoJob
      /\ pc \notin {"down", "idle"} => job \in Jobs
  BY WorkerTyped, SettingTyped DEF GenerationInv, StateOK
<1>1. CASE Replace
  <2>1. /\ pc = "written" /\ job' = job /\ job \in Jobs /\ job # NoJob
        /\ tracks' = [tracks EXCEPT ![job] = Whole(job)] /\ reports' = reports
    BY <1>0, <1>1 DEF Replace, Goes, GenerationInv, WrittenIsWhole
  <2>2. Made' = Made \union {job}
    BY <2>1 DEF Made, GenerationInv, StateOK
  <2> QED  BY <2>1, <2>2 DEF Made
<1>2. CASE PushCompleted
  <2>1. /\ pc = "counted" /\ job' = NoJob /\ job # NoJob /\ job \in Jobs /\ tracks' = tracks
        /\ reports' = reports \union {[job |-> job, ok |-> TRUE]}
    BY <1>0, <1>2 DEF PushCompleted, Tells, Done, Leaves, fileVars
  <2>2. job \in Made /\ Made' = Made
    BY <2>1 DEF Made, GenerationInv, MadeIsThere
  <2> QED  BY <2>1, <2>2 DEF Made
<1>3. CASE PushFailed
  <2>1. /\ job' = NoJob /\ job # NoJob /\ tracks' = tracks
        /\ reports' = reports \union {[job |-> job, ok |-> FALSE]}
    BY <1>0, <1>3 DEF PushFailed, Tells, Done, Leaves, fileVars
  <2>2. Made' = Made
    BY <2>1 DEF Made
  <2> QED  BY <2>1, <2>2 DEF Made
<1>4. CASE UNCHANGED <<tracks, reports>>
  <2>1. Made' = Made
    BY <1>4 DEF Made
  <2>2. CASE job' = job
    BY <1>4, <2>1, <2>2 DEF Made
  <2>3. CASE pc' \in {"down", "idle"} /\ job # NoJob
    BY <1>0, <1>4, <2>1, <2>3 DEF Made
  <2>4. CASE pc' \in {"down", "idle"} /\ job = NoJob
    BY <1>0, <2>2, <2>4
  <2>5. CASE \E j \in Jobs : Claim(j)
    <3>1. PICK j \in Jobs : Claim(j)
      BY <2>5
    <3>2. job = NoJob /\ (job' = j \/ job' = job)
      BY <1>0, <3>1 DEF Claim
    <3> QED  BY <1>4, <2>1, <2>2, <3>1, <3>2 DEF Made
  <2>6. \/ job' = job
        \/ pc' \in {"down", "idle"}
        \/ \E j \in Jobs : Claim(j)
    BY Control DEF Answered, Begin, Submit, Succeeds, Call, OpenTmp, Written, Replace,
                   Acknowledge, PushStats, Answer, Leaves, Goes
  <2> QED  BY <2>2, <2>3, <2>4, <2>5, <2>6
<1> QED  BY <1>1, <1>2, <1>3, <1>4, Frames

\* A worker implements what the rest of the system relies on: one job at a time,
\* tracks that appear whole and stay, at most one report of a run, and success
\* only for a track that is there.
THEOREM WorkerImplementsRun == Spec => ImplementsRun
<1>1. Init => Run!Init
  <2> SUFFICES ASSUME Init PROVE Run!Init
    OBVIOUS
  <2>1. \A j \in Jobs : tracks[j] # Whole(j)
    BY FilesTyped DEF Init
  <2> QED  BY <2>1 DEF Init, Run!Init
<1>2. GenerationInv /\ [Next]_vars => [Run!Next]_(Run!vars)
  BY RunStepHolds
<1> QED  BY <1>1, <1>2, InvHolds, PTL DEF Spec, ImplementsRun, Run!Spec

=============================================================================
