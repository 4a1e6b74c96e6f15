----------------------------- MODULE Submission -----------------------------
(***************************************************************************)
(* submit_prompt (queue/submit.py), the one way from a prompt to a row of  *)
(* queue_items, as run by two processes side by side: the operator form    *)
(* (queue/intake.py) and the chat bot (queue/chat_intake.py).  The limit   *)
(* comes first and fails open, moderation (queue/moderation.py) fails      *)
(* closed, enqueue (queue/store.py) reads the last position in one         *)
(* statement and inserts in another.                                       *)
(*                                                                         *)
(* Abstracted: a prompt is what the pipeline finds out about it (Texts);   *)
(* the clock (a cooldown ends at any time); rows of `prompts', which are   *)
(* read only together with their item; wording of the answers.             *)
(***************************************************************************)
EXTENDS Naturals, FiniteSets, Sequences

CONSTANTS
  Keys,           \* the limiter's buckets: yt:<channel>, ip:<address>
  LlmConfigured,  \* the optional copyright check is set up
  Faults,         \* which of AllFaults may happen
  MaxFaults       \* bound: faults in one behaviour

AllTexts == {"clean",
             "invalid",   \* empty, or too long
             "name",      \* names an artist, a song or a reproduction
             "harmful",   \* the moderation service flags it
             "cover",     \* only the copyright check would see through it
             "chatter"}   \* a chat message that is no command
AllFaults == {"crash",    \* a process dies, or an exception nobody catches
              "redis",    \* the limiter's Redis call fails
              "postgres", \* a statement fails
              "ended",    \* YouTube reports the chat gone
              "token"}    \* a page comes without nextPageToken

Form == "form"
Bot  == "bot"
Processes == {Form, Bot}

ASSUME SubmissionSettings ==
  /\ LlmConfigured \in BOOLEAN
  /\ Faults \subseteq AllFaults /\ MaxFaults \in Nat

VARIABLES
  rows,     \* queue_items in the order of their inserts
  windows,  \* keys with a live ratelimit:<key>
  sub,      \* the submission each process is carrying out
  linked,   \* processes whose Postgres connection is alive
  faults    \* faults so far

subVars == <<rows, windows, sub, linked, faults>>

Steps == {"idle", "limit", "screen", "record", "read", "insert"}
Rows  == [msg : Nat, text : AllTexts, position : Nat, behind : Nat,
          status : {"queued", "taken"}]
Subs  == [pc : Steps, msg : Nat, key : Keys, text : AllTexts, pos : Nat, behind : Nat]

\* A submission: msg is the chat message it stems from (0 for the form), pos
\* the position it has read, behind the number of rows there were at that time.
NoSub == [pc |-> "idle", msg |-> 0, key |-> CHOOSE k \in Keys : TRUE,
          text |-> "chatter", pos |-> 0, behind |-> 0]
Submitting(p, step) == sub[p].pc = step
GoOn(p, step) == sub' = [sub EXCEPT ![p].pc = step]
Return(p)     == sub' = [sub EXCEPT ![p] = NoSub]

Fault(kind) == kind \in Faults /\ faults < MaxFaults /\ faults' = faults + 1

Submit(p, m, k, t) ==
  /\ Submitting(p, "idle")
  /\ sub' = [sub EXCEPT ![p] = [pc |-> "limit", msg |-> m, key |-> k, text |-> t,
                                pos |-> 0, behind |-> 0]]

-----------------------------------------------------------------------------
(* The limit: RateLimiter.allow over check_rate, one SET NX EX *)

Open(k)    == windows' = windows \union {k}
Expire(k)  ==
  /\ k \in windows /\ windows' = windows \ {k}
  /\ UNCHANGED <<rows, sub, linked, faults>>

Admit(p) ==
  /\ Submitting(p, "limit") /\ sub[p].key \notin windows
  /\ Open(sub[p].key) /\ GoOn(p, "screen")
  /\ UNCHANGED <<rows, linked, faults>>

Refuse(p) ==
  /\ Submitting(p, "limit") /\ sub[p].key \in windows
  /\ Return(p)
  /\ UNCHANGED <<rows, windows, linked, faults>>

\* A failed call allows, whether or not the SET was carried out.
FailOpen(p) ==
  /\ Submitting(p, "limit") /\ Fault("redis")
  /\ Open(sub[p].key) \/ UNCHANGED windows
  /\ GoOn(p, "screen")
  /\ UNCHANGED <<rows, linked>>

-----------------------------------------------------------------------------
(* Moderation: what each check may answer *)

ClassifyKeyword(t) == IF t = "name" THEN "reject" ELSE "allow"

\* Fails closed.
LenientHarmful(t) == {"allow", IF t = "harmful" THEN "reject" ELSE "allow"}  \* (a variant)
CheckHarmful(t) == {"unavailable", IF t = "harmful" THEN "reject" ELSE "allow"}

\* Fails open.
CheckCopyrightLlm(t) ==
  IF LlmConfigured THEN {"allow", IF t = "cover" THEN "reject" ELSE "allow"} ELSE {"allow"}

ModeratePrompt(t) ==
  IF ClassifyKeyword(t) = "reject" THEN {"reject"}
  ELSE UNION {IF harm = "allow" THEN CheckCopyrightLlm(t) ELSE {harm} : harm \in CheckHarmful(t)}

PromptError(t) == t = "invalid"

Screen(p) ==
  /\ Submitting(p, "screen")
  /\ \/ PromptError(sub[p].text) /\ Return(p)
     \/ /\ ~PromptError(sub[p].text)
        /\ \E verdict \in ModeratePrompt(sub[p].text) :
             \/ verdict = "unavailable" /\ Return(p)
             \/ verdict = "reject" /\ GoOn(p, "record")
             \/ verdict = "allow" /\ GoOn(p, "read")
  /\ UNCHANGED <<rows, windows, linked, faults>>

-----------------------------------------------------------------------------
(* The store *)

\* record_rejected_prompt: no row of queue_items.
RecordRejected(p) ==
  /\ Submitting(p, "record") /\ p \in linked
  /\ Return(p)
  /\ UNCHANGED <<rows, windows, linked, faults>>

Queued == {i \in DOMAIN rows : rows[i].status = "queued"}
Highest(n, ids) == /\ \A i \in ids : rows[i].position <= n
                   /\ n = 0 \/ \E i \in ids : rows[i].position = n

\* n is what SELECT COALESCE(MAX(queue_position), 0) returns.
HowManyWait(n)  == n = Cardinality(Queued)                                  \* (a variant)
LastPosition(n) == Highest(n, DOMAIN rows)

ReadPosition(p) ==
  /\ Submitting(p, "read") /\ p \in linked
  /\ \E n \in 0..Len(rows) :
       /\ LastPosition(n)
       /\ sub' = [sub EXCEPT ![p] = [@ EXCEPT !.pc = "insert", !.pos = n + 1, !.behind = Len(rows)]]
  /\ UNCHANGED <<rows, windows, linked, faults>>

NewRow(s) == [msg |-> s.msg, text |-> s.text, position |-> s.pos, behind |-> s.behind,
              status |-> "queued"]

InsertItem(p) ==
  /\ Submitting(p, "insert") /\ p \in linked
  /\ rows' = Append(rows, NewRow(sub[p]))
  /\ Return(p)
  /\ UNCHANGED <<windows, linked, faults>>

\* A statement raises: it meets a fault, or a connection that broke before.
StatementRaises(p) ==
  /\ sub[p].pc \in {"record", "read", "insert"}
  /\ IF p \in linked THEN Fault("postgres") ELSE UNCHANGED faults

\* The manager takes the row next_queued returns; created_at, which decides
\* between equal positions, may order them either way.
IsNext(i) == i \in Queued /\ \A j \in Queued : rows[i].position <= rows[j].position

TakeNext(i) ==
  /\ IsNext(i)
  /\ rows' = [rows EXCEPT ![i].status = "taken"]
  /\ UNCHANGED <<windows, sub, linked, faults>>

=============================================================================
