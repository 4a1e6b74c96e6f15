-------------------------- MODULE ChatIntakeProofs --------------------------
(***************************************************************************)
(* Theorems about ChatIntake, for any chat, any page size and limit of the *)
(* seen ids, any clients and any faults.                                   *)
(***************************************************************************)
EXTENDS ChatIntake, TLAPS

-----------------------------------------------------------------------------
(* What a step does to the table and the submissions *)

\* A row is added, or one is taken, or the table stays; and a submission goes
\* on, returns or begins, or all stay as they are.
FrameStep == rows' = rows /\ sub' = sub
ReturnStep(p) == rows' = rows /\ Return(p)
BeginStep(p) ==
  /\ rows' = rows
  /\ \E m \in Messages \union {0}, k \in Keys, t \in AllTexts \ {"chatter"} : Submit(p, m, k, t)
GoOnStep(p) ==
  /\ rows' = rows
  /\ \/ Submitting(p, "limit") /\ GoOn(p, "screen")
     \/ Submitting(p, "screen") /\ GoOn(p, "record")
     \/ Submitting(p, "screen") /\ sub[p].text \in {"clean", "cover", "chatter"} /\ GoOn(p, "read")

LEMMA ElementTyped ==
  ASSUME NEW S, NEW s \in Seq(S), NEW i \in 1..Len(s)
  PROVE  s[i] \in S
  OBVIOUS

\* The keyword block and the moderation service let nothing else pass.
LEMMA Moderated ==
  ASSUME NEW t \in AllTexts, "allow" \in ModeratePrompt(t), ~PromptError(t)
  PROVE  t \in {"clean", "cover", "chatter"}
<1>1. t # "invalid"
  BY DEF PromptError
<1>2. t # "name"
  BY DEF ModeratePrompt, ClassifyKeyword
<1>3. t # "harmful"
  BY DEF ModeratePrompt, ClassifyKeyword, CheckHarmful
<1> QED
  BY <1>1, <1>2, <1>3 DEF AllTexts

LEMMA PipelineShape ==
  ASSUME TypeOK, NEW p \in Processes, Pipeline(p)
  PROVE  GoOnStep(p) \/ ReturnStep(p) \/ ReadPosition(p) \/ InsertItem(p)
<1>1. CASE Admit(p)
  BY <1>1 DEF Admit, GoOnStep
<1>2. CASE Refuse(p)
  BY <1>2 DEF Refuse, ReturnStep
<1>3. CASE FailOpen(p)
  BY <1>3 DEF FailOpen, GoOnStep
<1>4. CASE Screen(p)
  <2>1. sub[p].text \in AllTexts
    BY DEF TypeOK, Subs
  <2>2. rows' = rows /\ Submitting(p, "screen")
    BY <1>4 DEF Screen
  <2>3. Return(p) \/ GoOn(p, "record")
          \/ (GoOn(p, "read") /\ sub[p].text \in {"clean", "cover", "chatter"})
    BY <1>4, <2>1, Moderated DEF Screen
  <2> QED
    BY <2>2, <2>3 DEF ReturnStep, GoOnStep
<1>5. CASE RecordRejected(p)
  BY <1>5 DEF RecordRejected, ReturnStep
<1> QED
  BY <1>1, <1>2, <1>3, <1>4, <1>5 DEF Pipeline

LEMMA StepShape ==
  ASSUME TypeOK, [Next]_vars
  PROVE  \/ FrameStep
         \/ \E i \in DOMAIN rows : TakeNext(i)
         \/ \E p \in Processes : \/ GoOnStep(p) \/ ReturnStep(p) \/ BeginStep(p)
                                 \/ ReadPosition(p) \/ InsertItem(p)
<1>0. Bot \in Processes /\ Form \in Processes
  BY DEF Processes
<1>1. CASE \E k \in ChatKeys, t \in ChatTexts : Say(k, t)
  BY <1>1 DEF Say, FrameStep, subVars
<1>2. CASE \E k \in FormKeys, t \in FormTexts : Post(k, t)
  <2>1. PICK k \in FormKeys, t \in FormTexts : Post(k, t)
    BY <1>2
  <2>2. BeginStep(Form)
    BY <2>1, IntakeSettings DEF Post, BeginStep
  <2> QED
    BY <1>0, <2>2
<1>3. CASE \E k \in Keys : CooldownEnds(k)
  BY <1>3 DEF CooldownEnds, Expire, FrameStep
<1>4. CASE \E i \in DOMAIN rows : ManagerTakes(i)
  BY <1>4 DEF ManagerTakes
<1>5. CASE \/ EnsureChatId \/ PollOnce \/ SkipHistory \/ PassOver \/ EndPage \/ BotStart \/ ChatGone
  BY <1>5 DEF EnsureChatId, PollOnce, SkipHistory, PassOver, EndPage, BotStart, ChatGone,
     FrameStep, subVars
<1>6. CASE TakeUp
  <2>1. rows' = rows /\ page.next \in Messages
    BY <1>6 DEF TakeUp, TypeOK, Messages
  <2>2. chat[page.next].key \in Keys /\ chat[page.next].text \in AllTexts
    <3>1. chat \in Seq([key : ChatKeys, text : AllTexts])
      BY DEF TypeOK
    <3>2. chat[page.next] \in [key : ChatKeys, text : AllTexts]
      BY <2>1, <3>1, ElementTyped DEF Messages
    <3> QED
      BY <3>2, IntakeSettings
  <2>3. CASE chat[page.next].text = "chatter"
    BY <1>6, <2>1, <2>3 DEF TakeUp, FrameStep
  <2>4. CASE chat[page.next].text # "chatter"
    <3>1. Submit(Bot, page.next, chat[page.next].key, chat[page.next].text)
      BY <1>6, <2>4 DEF TakeUp
    <3> QED
      BY <1>0, <2>1, <2>2, <2>4, <3>1 DEF BeginStep
  <2> QED
    BY <2>3, <2>4
<1>7. CASE \/ BotCrash \/ BotStatementRaises \/ FormStatementRaises \/ FormRestart
  BY <1>0, <1>7 DEF BotCrash, BotStatementRaises, Exit, FormStatementRaises, FormRestart, ReturnStep
<1>8. CASE \E p \in Processes : Pipeline(p)
  BY <1>8, PipelineShape
<1>9. CASE UNCHANGED vars
  BY <1>9 DEF vars, FrameStep
<1> QED
  BY <1>0, <1>1, <1>2, <1>3, <1>4, <1>5, <1>6, <1>7, <1>8, <1>9 DEF Next, BotStep

-----------------------------------------------------------------------------
(* Types *)

\* The part of TypeOK about the table and the submissions, and the rest.
SubTypeOK ==
  /\ rows \in Seq(Rows) /\ sub \in [Processes -> Subs]
  /\ \A i \in DOMAIN rows : rows[i].position \in 1..i /\ rows[i].behind < i
  /\ \A p \in Processes :
       /\ sub[p].behind <= Len(rows) /\ sub[p].pos <= sub[p].behind + 1
       /\ Submitting(p, "insert") => sub[p].pos # 0
BotTypeOK ==
  /\ windows \subseteq Keys /\ linked \subseteq Processes /\ faults \in 0..MaxFaults
  /\ chat \in Seq([key : ChatKeys, text : AllTexts])
  /\ bot \in {"down", "resolve", "poll", "page"} /\ firstDone \in BOOLEAN
  /\ token \in 0..Len(chat) /\ started \in 0..Len(chat)
  /\ page \in [next : Nat \ {0}, last : 0..Len(chat)]
  /\ seen \subseteq Messages /\ heard \subseteq Messages /\ forgotten \subseteq Messages
  /\ posts \in 0..MaxPosts

LEMMA TypeParts == TypeOK <=> SubTypeOK /\ BotTypeOK
  BY DEF TypeOK, SubTypeOK, BotTypeOK

LEMMA NoSubTyped == NoSub \in Subs /\ NoSub.behind = 0 /\ NoSub.pos = 0 /\ NoSub.pc = "idle"
  BY IntakeSettings DEF NoSub, Subs, Steps, AllTexts

\* A submission replaced by a well-typed one, over a table that stays.
LEMMA SubReplaced ==
  ASSUME SubTypeOK, rows' = rows, NEW p \in Processes, NEW s \in Subs,
         s.behind <= Len(rows), s.pos <= s.behind + 1, s.pc = "insert" => s.pos # 0,
         sub' = [sub EXCEPT ![p] = s]
  PROVE  SubTypeOK'
<1>1. sub' \in [Processes -> Subs]
  BY DEF SubTypeOK
<1>2. \A q \in Processes : sub'[q] = IF q = p THEN s ELSE sub[q]
  BY DEF SubTypeOK
<1> QED
  BY <1>1, <1>2 DEF SubTypeOK, Submitting

LEMMA SubTypeStep ==
  ASSUME TypeOK, [Next]_vars
  PROVE  SubTypeOK'
<1>0. /\ SubTypeOK /\ (\A p \in Processes : sub[p] \in Subs)
      /\ Len(rows) \in Nat /\ Len(chat) \in Nat
  BY TypeParts DEF SubTypeOK, BotTypeOK
<1>1. CASE FrameStep
  BY <1>0, <1>1 DEF FrameStep, SubTypeOK, Submitting
<1>2. CASE \E i \in DOMAIN rows : TakeNext(i)
  <2>1. PICK i \in DOMAIN rows : TakeNext(i)
    BY <1>2
  <2>2. rows' \in Seq(Rows) /\ Len(rows') = Len(rows) /\ sub' = sub
    <3>1. rows[i] \in Rows
      BY <1>0, ElementTyped DEF SubTypeOK
    <3>2. [rows[i] EXCEPT !.status = "taken"] \in Rows
      BY <3>1 DEF Rows
    <3>3. rows' = [rows EXCEPT ![i] = [rows[i] EXCEPT !.status = "taken"]] /\ sub' = sub
      BY <2>1 DEF TakeNext
    <3> QED
      BY <1>0, <3>2, <3>3 DEF SubTypeOK
  <2>3. \A j \in DOMAIN rows : rows'[j].position = rows[j].position /\ rows'[j].behind = rows[j].behind
    BY <1>0, <2>1 DEF TakeNext, SubTypeOK, Rows
  <2>4. DOMAIN rows' = DOMAIN rows
    BY <1>0, <2>1 DEF TakeNext, SubTypeOK
  <2> QED
    BY <1>0, <2>2, <2>3, <2>4 DEF SubTypeOK, Submitting
<1>3. ASSUME NEW p \in Processes, GoOnStep(p) PROVE SubTypeOK'
  <2>1. PICK step \in Steps \ {"insert"} : GoOn(p, step)
    BY <1>3 DEF GoOnStep, Steps
  <2> DEFINE s == [sub[p] EXCEPT !.pc = step]
  <2>2. s \in Subs /\ s.behind = sub[p].behind /\ s.pos = sub[p].pos /\ s.pc # "insert"
    BY <1>0 DEF Subs
  <2>3. sub' = [sub EXCEPT ![p] = s] /\ rows' = rows
    BY <1>3, <2>1 DEF GoOn, GoOnStep
  <2>4. sub[p].behind <= Len(rows) /\ sub[p].pos <= sub[p].behind + 1
    BY <1>0 DEF SubTypeOK
  <2> HIDE DEF s
  <2> QED
    BY <1>0, <2>2, <2>3, <2>4, SubReplaced
<1>4. ASSUME NEW p \in Processes, ReturnStep(p) PROVE SubTypeOK'
  <2>1. rows' = rows /\ sub' = [sub EXCEPT ![p] = NoSub]
    BY <1>4 DEF ReturnStep, Return
  <2>2. NoSub.behind <= Len(rows) /\ NoSub.pos <= NoSub.behind + 1 /\ NoSub.pc # "insert"
    BY <1>0, NoSubTyped
  <2> QED
    BY <1>0, <2>1, <2>2, NoSubTyped, SubReplaced
<1>5. ASSUME NEW p \in Processes, BeginStep(p) PROVE SubTypeOK'
  <2>1. PICK m \in Messages \union {0}, k \in Keys, t \in AllTexts : Submit(p, m, k, t)
    BY <1>5 DEF BeginStep
  <2> DEFINE s == [pc |-> "limit", msg |-> m, key |-> k, text |-> t, pos |-> 0, behind |-> 0]
  <2>2. s \in Subs
    BY <1>0 DEF Messages, Subs, Steps
  <2>3. s.behind <= Len(rows) /\ s.pos <= s.behind + 1 /\ s.pc # "insert"
    BY <1>0
  <2>4. sub' = [sub EXCEPT ![p] = s] /\ rows' = rows
    BY <1>5, <2>1 DEF Submit, BeginStep
  <2> HIDE DEF s
  <2> QED
    BY <1>0, <2>2, <2>3, <2>4, SubReplaced
<1>6. ASSUME NEW p \in Processes, ReadPosition(p) PROVE SubTypeOK'
  <2>1. PICK n \in 0..Len(rows) :
          sub' = [sub EXCEPT ![p] = [@ EXCEPT !.pc = "insert", !.pos = n + 1,
                                              !.behind = Len(rows)]]
    BY <1>6 DEF ReadPosition
  <2> DEFINE s == [sub[p] EXCEPT !.pc = "insert", !.pos = n + 1, !.behind = Len(rows)]
  <2>2. s \in Subs /\ s.behind = Len(rows) /\ s.pos = n + 1
    <3>1. sub[p] \in Subs /\ n + 1 \in Nat /\ Len(rows) \in Nat
      BY <1>0
    <3> QED
      BY <3>1 DEF Subs, Steps
  <2>3. sub' = [sub EXCEPT ![p] = s]
    BY <2>1
  <2>4. s.behind <= Len(rows) /\ s.pos <= s.behind + 1 /\ s.pos # 0
    BY <1>0, <2>2
  <2>5. rows' = rows
    BY <1>6 DEF ReadPosition
  <2> HIDE DEF s
  <2> QED
    BY <1>0, <2>2, <2>3, <2>4, <2>5, SubReplaced
<1>7. ASSUME NEW p \in Processes, InsertItem(p) PROVE SubTypeOK'
  <2>1. NewRow(sub[p]) \in Rows /\ NewRow(sub[p]).position = sub[p].pos
          /\ NewRow(sub[p]).behind = sub[p].behind
    BY <1>0 DEF NewRow, Rows, Subs
  <2>2. rows' = Append(rows, NewRow(sub[p])) /\ sub' = [sub EXCEPT ![p] = NoSub]
    BY <1>7 DEF InsertItem, Return
  <2>3. rows' \in Seq(Rows) /\ Len(rows') = Len(rows) + 1 /\ DOMAIN rows' = 1..Len(rows) + 1
    BY <1>0, <2>1, <2>2 DEF SubTypeOK
  <2>4. \A i \in DOMAIN rows' : rows'[i].position \in 1..i /\ rows'[i].behind < i
    <3>1. sub[p].pos \in 1..Len(rows) + 1 /\ sub[p].behind <= Len(rows)
      <4>1. sub[p].pos \in Nat /\ sub[p].behind \in Nat
        BY <1>0 DEF Subs
      <4>2. sub[p].behind <= Len(rows) /\ sub[p].pos <= sub[p].behind + 1 /\ sub[p].pos # 0
        BY <1>0, <1>7 DEF InsertItem, SubTypeOK
      <4> QED
        BY <1>0, <4>1, <4>2
    <3>2. \A i \in DOMAIN rows : rows'[i] = rows[i]
      BY <1>0, <2>1, <2>2 DEF SubTypeOK
    <3>3. rows'[Len(rows) + 1] = NewRow(sub[p])
      BY <1>0, <2>1, <2>2 DEF SubTypeOK
    <3>4. sub[p].behind \in Nat
      BY <1>0 DEF Subs
    <3> QED
      BY <1>0, <2>1, <2>3, <3>1, <3>2, <3>3, <3>4 DEF SubTypeOK
  <2>5. sub' \in [Processes -> Subs]
          /\ \A q \in Processes : sub'[q] = IF q = p THEN NoSub ELSE sub[q]
    BY <1>0, <2>2, NoSubTyped DEF SubTypeOK
  <2>6. ASSUME NEW q \in Processes
        PROVE  /\ sub'[q].behind <= Len(rows') /\ sub'[q].pos <= sub'[q].behind + 1
               /\ sub'[q].pc = "insert" => sub'[q].pos # 0
    <3>1. CASE q = p
      BY <1>0, <2>3, <2>5, <3>1, NoSubTyped
    <3>2. CASE q # p
      BY <1>0, <2>3, <2>5, <3>2 DEF SubTypeOK, Subs, Submitting
    <3> QED
      BY <3>1, <3>2
  <2> QED
    BY <2>3, <2>4, <2>5, <2>6 DEF SubTypeOK, Submitting
<1> QED
  BY <1>1, <1>2, <1>3, <1>4, <1>5, <1>6, <1>7, StepShape

LEMMA BotTypeStep ==
  ASSUME TypeOK, [Next]_vars
  PROVE  BotTypeOK'
<1>0. BotTypeOK /\ Len(chat) \in Nat
  BY TypeParts DEF BotTypeOK
<1>a. ASSUME NEW kind, Fault(kind) PROVE faults' \in 0..MaxFaults
  BY <1>0, <1>a, SubmissionSettings DEF Fault, BotTypeOK
<1>b. ASSUME UNCHANGED <<chat, bot, token, firstDone, started, seen, page, heard, forgotten, posts>>,
             windows' \subseteq Keys, linked' \subseteq Processes, faults' \in 0..MaxFaults
      PROVE  BotTypeOK'
  BY <1>0, <1>b DEF BotTypeOK, Messages
<1>1. CASE \E k \in ChatKeys, t \in ChatTexts : Say(k, t)
  <2>1. PICK k \in ChatKeys, t \in ChatTexts : Say(k, t)
    BY <1>1
  <2>2. chat' \in Seq([key : ChatKeys, text : AllTexts]) /\ Len(chat') = Len(chat) + 1
    BY <1>0, <2>1, IntakeSettings DEF Say, BotTypeOK
  <2>3. Messages \subseteq Messages' /\ 0..Len(chat) \subseteq 0..Len(chat')
    BY <1>0, <2>2 DEF Messages
  <2>4. UNCHANGED <<windows, linked, faults, bot, token, firstDone, started, seen, page, heard,
                    forgotten, posts>>
    BY <2>1 DEF Say, subVars, botVars
  <2> QED
    BY <1>0, <2>2, <2>3, <2>4 DEF BotTypeOK
<1>2. CASE \E k \in FormKeys, t \in FormTexts : Post(k, t)
  BY <1>0, <1>2, IntakeSettings DEF Post, BotTypeOK, Messages, botVars
<1>3. CASE \E k \in Keys : CooldownEnds(k)
  BY <1>0, <1>3, <1>b DEF CooldownEnds, Expire, BotTypeOK, botVars
<1>4. CASE \E i \in DOMAIN rows : ManagerTakes(i)
  BY <1>0, <1>4, <1>b DEF ManagerTakes, TakeNext, BotTypeOK, botVars
<1>5. CASE EnsureChatId
  <2>1. token' \in 0..Len(chat) /\ bot' = "poll"
    BY <1>0, <1>5 DEF EnsureChatId
  <2>2. firstDone' \in BOOLEAN
    BY <1>5 DEF EnsureChatId
  <2> QED
    BY <1>0, <1>5, <2>1, <2>2 DEF EnsureChatId, BotTypeOK, Messages, subVars
<1>6. CASE PollOnce
  <2>1. LastOnPage(token) \in 0..Len(chat) /\ token + 1 \in Nat \ {0}
    BY <1>0, IntakeSettings DEF LastOnPage, BotTypeOK
  <2>2. token' \in 0..Len(chat) /\ faults' \in 0..MaxFaults
    BY <1>0, <1>a, <1>6, <2>1 DEF PollOnce, NextToken, BotTypeOK
  <2>3. page' \in [next : Nat \ {0}, last : 0..Len(chat)]
    BY <1>6, <2>1 DEF PollOnce
  <2> QED
    BY <1>0, <1>6, <2>2, <2>3 DEF PollOnce, BotTypeOK, Messages
<1>7. CASE SkipHistory
  <2>1. LastOnPage(token) \in 0..Len(chat) /\ token \in 0..Len(chat)
    BY <1>0, IntakeSettings DEF LastOnPage, BotTypeOK
  <2>2. token' \in 0..Len(chat) /\ faults' \in 0..MaxFaults
    BY <1>0, <1>a, <1>7, <2>1 DEF SkipHistory, NextToken, BotTypeOK
  <2>3. seen' \subseteq Messages
    <3>1. token + 1 .. LastOnPage(token) \subseteq 1..Len(chat)
      BY <1>0, <2>1
    <3> QED
      BY <1>0, <1>7, <3>1 DEF SkipHistory, BotTypeOK, Messages
  <2>4. firstDone' \in BOOLEAN
    BY <1>7 DEF SkipHistory
  <2> QED
    BY <1>0, <1>7, <2>2, <2>3, <2>4 DEF SkipHistory, BotTypeOK, Messages
<1>8. CASE ChatGone
  BY <1>0, <1>a, <1>8 DEF ChatGone, BotTypeOK, Messages
<1>9. CASE TakeUp
  <2>1. page.next \in Messages /\ page.next + 1 \in Nat \ {0}
    BY <1>0, <1>9 DEF TakeUp, BotTypeOK, Messages
  <2>2. page' \in [next : Nat \ {0}, last : 0..Len(chat)]
    BY <1>0, <1>9, <2>1 DEF TakeUp, BotTypeOK
  <2>3. seen' \subseteq Messages /\ heard' \subseteq Messages
    BY <1>0, <1>9, <2>1 DEF TakeUp, BotTypeOK
  <2> QED
    BY <1>0, <1>9, <2>2, <2>3 DEF TakeUp, BotTypeOK, Messages
<1>10. CASE PassOver
  BY <1>0, <1>10 DEF PassOver, BotTypeOK, Messages, subVars
<1>11. CASE EndPage
  <2>1. seen' \subseteq seen
    BY <1>11 DEF EndPage, Trimmed
  <2>2. page' \in [next : Nat \ {0}, last : 0..Len(chat)]
    BY <1>0, <1>11 DEF EndPage, NoPage
  <2> QED
    BY <1>0, <1>11, <2>1, <2>2 DEF EndPage, BotTypeOK, Messages, subVars
<1>12. CASE BotCrash \/ BotStatementRaises
  <2>1. faults' \in 0..MaxFaults /\ linked' = linked /\ Exit
    BY <1>0, <1>a, <1>12 DEF BotCrash, BotStatementRaises, StatementRaises, BotTypeOK
  <2>2. page' \in [next : Nat \ {0}, last : 0..Len(chat)]
    BY <1>0, <2>1 DEF Exit, NoPage
  <2>3. token' \in 0..Len(chat) /\ seen' \subseteq Messages /\ bot' = "down"
    BY <1>0, <2>1 DEF Exit
  <2>4. firstDone' \in BOOLEAN
    BY <2>1 DEF Exit
  <2> QED
    BY <1>0, <2>1, <2>2, <2>3, <2>4 DEF Exit, BotTypeOK, Messages
<1>13. CASE BotStart
  BY <1>0, <1>13 DEF BotStart, BotTypeOK, Messages, subVars
<1>14. CASE FormStatementRaises \/ FormRestart
  <2>1. faults' \in 0..MaxFaults /\ linked' \subseteq Processes /\ windows' = windows
    BY <1>0, <1>a, <1>14 DEF FormStatementRaises, FormRestart, StatementRaises, BotTypeOK, Processes
  <2> QED
    BY <1>0, <1>b, <1>14, <2>1 DEF FormStatementRaises, FormRestart, botVars, BotTypeOK
<1>15. ASSUME NEW p \in Processes, Pipeline(p) PROVE BotTypeOK'
  <2>1. sub[p].key \in Keys
    BY TypeParts DEF SubTypeOK, Subs
  <2>2. windows' \subseteq Keys /\ faults' \in 0..MaxFaults /\ linked' = linked
    BY <1>0, <1>a, <1>15, <2>1 DEF Pipeline, Admit, Refuse, FailOpen, Open, Screen, RecordRejected,
       ReadPosition, InsertItem, BotTypeOK
  <2> QED
    BY <1>0, <1>b, <1>15, <2>2 DEF Pipeline, botVars, BotTypeOK
<1>16. CASE UNCHANGED vars
  BY <1>0, <1>16 DEF vars, BotTypeOK, Messages
<1> QED
  BY <1>1, <1>2, <1>3, <1>4, <1>5, <1>6, <1>7, <1>8, <1>9, <1>10, <1>11, <1>12, <1>13, <1>14,
     <1>15, <1>16 DEF Next, BotStep, Processes

\* Spec => []TypeOK: the bot never acts on a message that was not written.
THEOREM IntakeTypeCorrect == Spec => []TypeOK
<1>1. Init => TypeOK
  <2> SUFFICES ASSUME Init PROVE TypeOK
    OBVIOUS
  <2>1. SubTypeOK
    BY NoSubTyped DEF Init, SubTypeOK, Submitting
  <2>2. BotTypeOK
    <3>1. chat \in Seq([key : ChatKeys, text : AllTexts]) /\ Len(chat) = 0
      BY DEF Init
    <3>2. page \in [next : Nat \ {0}, last : 0..Len(chat)]
      BY <3>1 DEF Init, NoPage
    <3>3. token \in 0..Len(chat) /\ started \in 0..Len(chat)
      BY <3>1 DEF Init
    <3>5. firstDone \in BOOLEAN
      BY DEF Init
    <3>4. faults \in 0..MaxFaults /\ posts \in 0..MaxPosts
      BY SubmissionSettings, IntakeSettings DEF Init
    <3> QED
      BY <3>1, <3>2, <3>3, <3>4, <3>5 DEF Init, BotTypeOK
  <2> QED
    BY <2>1, <2>2, TypeParts
<1>2. TypeOK /\ [Next]_vars => TypeOK'
  BY SubTypeStep, BotTypeStep DEF TypeOK, SubTypeOK, BotTypeOK
<1> QED
  BY <1>1, <1>2, PTL DEF Spec

-----------------------------------------------------------------------------
(* The table, one step at a time *)

\* What a step makes of a row: the same, but for its status; or a new one.
LEMMA RowsStep ==
  ASSUME TypeOK, [Next]_vars
  PROVE  \/ /\ DOMAIN rows' = DOMAIN rows
            /\ \A i \in DOMAIN rows : /\ rows'[i].msg = rows[i].msg
                                     /\ rows'[i].text = rows[i].text
                                     /\ rows'[i].position = rows[i].position
                                     /\ rows'[i].behind = rows[i].behind
         \/ /\ DOMAIN rows' = DOMAIN rows \union {Len(rows) + 1}
            /\ Len(rows) + 1 \notin DOMAIN rows
            /\ \A i \in DOMAIN rows : rows'[i] = rows[i]
            /\ \E p \in Processes : InsertItem(p) /\ rows'[Len(rows) + 1] = NewRow(sub[p])
<1>0. rows \in Seq(Rows) /\ Len(rows) \in Nat
  BY TypeParts DEF SubTypeOK
<1>1. CASE rows' = rows
  BY <1>1
<1>2. ASSUME NEW i \in DOMAIN rows, TakeNext(i)
      PROVE  /\ DOMAIN rows' = DOMAIN rows
             /\ \A j \in DOMAIN rows : /\ rows'[j].msg = rows[j].msg
                                      /\ rows'[j].text = rows[j].text
                                      /\ rows'[j].position = rows[j].position
                                      /\ rows'[j].behind = rows[j].behind
  <2>1. rows' = [rows EXCEPT ![i] = [rows[i] EXCEPT !.status = "taken"]]
    BY <1>2 DEF TakeNext
  <2>2. rows[i] \in Rows
    BY <1>0, ElementTyped
  <2>3. \A j \in DOMAIN rows :
          rows'[j] = IF j = i THEN [rows[i] EXCEPT !.status = "taken"] ELSE rows[j]
    BY <1>0, <2>1
  <2> QED
    BY <1>0, <2>1, <2>2, <2>3 DEF Rows
<1>3. ASSUME NEW p \in Processes, InsertItem(p)
      PROVE  /\ DOMAIN rows' = DOMAIN rows \union {Len(rows) + 1}
             /\ Len(rows) + 1 \notin DOMAIN rows
             /\ \A i \in DOMAIN rows : rows'[i] = rows[i]
             /\ rows'[Len(rows) + 1] = NewRow(sub[p])
  <2>1. rows' = Append(rows, NewRow(sub[p])) /\ NewRow(sub[p]) \in Rows
    <3>1. sub[p] \in Subs
      BY TypeParts DEF SubTypeOK
    <3> QED
      BY <1>3, <3>1 DEF InsertItem, NewRow, Rows, Subs
  <2> QED
    BY <1>0, <2>1
<1> QED
  BY <1>1, <1>2, <1>3, StepShape DEF FrameStep, GoOnStep, ReturnStep, BeginStep, ReadPosition

-----------------------------------------------------------------------------
(* Only what was screened is queued *)

ScreenInv ==
  /\ OnlyScreenedEnqueued
  /\ \A p \in Processes :
       /\ sub[p].pc \in {"read", "insert"} => sub[p].text \in {"clean", "cover"}
       /\ sub[p].pc \in {"limit", "screen"} => sub[p].text # "chatter"

LEMMA ScreenStep ==
  ASSUME TypeOK, ScreenInv, [Next]_vars
  PROVE  ScreenInv'
<1>0. sub \in [Processes -> Subs] /\ NoSub.pc = "idle"
  BY TypeParts, NoSubTyped DEF SubTypeOK
<1>1. OnlyScreenedEnqueued'
  <2>1. \A p \in Processes : InsertItem(p) => NewRow(sub[p]).text \in {"clean", "cover"}
    BY DEF InsertItem, Submitting, ScreenInv, NewRow
  <2> QED
    BY <2>1, RowsStep DEF ScreenInv, OnlyScreenedEnqueued
<1> DEFINE Fine(s) == /\ s.pc \in {"read", "insert"} => s.text \in {"clean", "cover"}
                      /\ s.pc \in {"limit", "screen"} => s.text # "chatter"
<1>2. ASSUME NEW p \in Processes, NEW s, Fine(s), sub' = [sub EXCEPT ![p] = s]
      PROVE  \A q \in Processes : Fine(sub'[q])
  BY <1>0, <1>2 DEF ScreenInv
<1>3. CASE FrameStep \/ \E i \in DOMAIN rows : TakeNext(i)
  BY <1>1, <1>3 DEF FrameStep, TakeNext, ScreenInv
<1>4. ASSUME NEW p \in Processes, GoOnStep(p) PROVE \A q \in Processes : Fine(sub'[q])
  <2>0. sub[p] \in Subs
    BY <1>0
  <2>1. PICK step : /\ GoOn(p, step)
                    /\ \/ step = "screen" /\ sub[p].pc = "limit"
                       \/ step = "record"
                       \/ /\ step = "read" /\ sub[p].pc = "screen"
                          /\ sub[p].text \in {"clean", "cover", "chatter"}
    BY <1>4 DEF GoOnStep, Submitting
  <2>2. Fine([sub[p] EXCEPT !.pc = step])
    BY <2>0, <2>1 DEF ScreenInv, Subs
  <2>3. sub' = [sub EXCEPT ![p] = [sub[p] EXCEPT !.pc = step]]
    BY <2>1 DEF GoOn
  <2> QED
    BY <1>2, <2>2, <2>3
<1>5. ASSUME NEW p \in Processes, ReturnStep(p) \/ InsertItem(p)
      PROVE  \A q \in Processes : Fine(sub'[q])
  BY <1>0, <1>2, <1>5 DEF ReturnStep, InsertItem, Return
<1>6. ASSUME NEW p \in Processes, BeginStep(p) PROVE \A q \in Processes : Fine(sub'[q])
  <2>1. PICK m \in Messages \union {0}, k \in Keys, t \in AllTexts \ {"chatter"} :
          Submit(p, m, k, t)
    BY <1>6 DEF BeginStep
  <2> QED
    BY <1>2, <2>1 DEF Submit
<1>7. ASSUME NEW p \in Processes, ReadPosition(p) PROVE \A q \in Processes : Fine(sub'[q])
  <2>0. sub[p] \in Subs
    BY <1>0
  <2>1. PICK n : sub' = [sub EXCEPT ![p] = [sub[p] EXCEPT !.pc = "insert", !.pos = n + 1,
                                                           !.behind = Len(rows)]]
    BY <1>7 DEF ReadPosition
  <2>2. Fine([sub[p] EXCEPT !.pc = "insert", !.pos = n + 1, !.behind = Len(rows)])
    BY <1>7, <2>0 DEF ReadPosition, Submitting, ScreenInv, Subs
  <2> QED
    BY <1>2, <2>1, <2>2
<1> QED
  BY <1>1, <1>3, <1>4, <1>5, <1>6, <1>7, StepShape DEF ScreenInv

\* Spec => []OnlyScreenedEnqueued: moderation fails closed on every path.
THEOREM ScreenedOnly == Spec => []OnlyScreenedEnqueued
<1>1. Init => ScreenInv
  BY NoSubTyped DEF Init, ScreenInv, OnlyScreenedEnqueued
<1>2. TypeOK /\ ScreenInv /\ [Next]_vars => ScreenInv'
  BY ScreenStep
<1>3. ScreenInv => OnlyScreenedEnqueued
  BY DEF ScreenInv
<1> QED
  BY <1>1, <1>2, <1>3, IntakeTypeCorrect, PTL DEF Spec

-----------------------------------------------------------------------------
(* First come, first served *)

\* A position read is beyond every row that was there, and stays so.
OrderInv ==
  /\ \A i, j \in DOMAIN rows : j <= rows[i].behind => rows[j].position < rows[i].position
  /\ \A p \in Processes :
       Submitting(p, "insert") =>
         \A j \in DOMAIN rows : j <= sub[p].behind => rows[j].position < sub[p].pos

LEMMA OrderOfRows ==
  ASSUME TypeOK, OrderInv, [Next]_vars
  PROVE  \A i, j \in DOMAIN rows' : j <= rows'[i].behind => rows'[j].position < rows'[i].position
<1>0. rows \in Seq(Rows) /\ Len(rows) \in Nat /\ \A i \in DOMAIN rows : rows[i] \in Rows
  BY TypeParts, ElementTyped DEF SubTypeOK
<1>1. CASE /\ DOMAIN rows' = DOMAIN rows
           /\ \A i \in DOMAIN rows : /\ rows'[i].msg = rows[i].msg
                                    /\ rows'[i].text = rows[i].text
                                    /\ rows'[i].position = rows[i].position
                                    /\ rows'[i].behind = rows[i].behind
  BY <1>1 DEF OrderInv
<1>2. ASSUME DOMAIN rows' = DOMAIN rows \union {Len(rows) + 1},
             Len(rows) + 1 \notin DOMAIN rows,
             \A i \in DOMAIN rows : rows'[i] = rows[i],
             NEW p \in Processes, InsertItem(p), rows'[Len(rows) + 1] = NewRow(sub[p]),
             NEW i \in DOMAIN rows', NEW j \in DOMAIN rows', j <= rows'[i].behind
      PROVE  rows'[j].position < rows'[i].position
  <2>1. sub[p].behind \in Nat /\ sub[p].behind <= Len(rows)
    BY TypeParts DEF SubTypeOK, Subs
  <2>2. CASE i \in DOMAIN rows
    <3>1. rows[i].behind \in Nat /\ rows[i].behind < i /\ i <= Len(rows) /\ i \in Nat
      BY <1>0, <2>2, TypeParts DEF SubTypeOK, Rows
    <3>2. j # Len(rows) + 1
      BY <1>0, <1>2, <2>2, <3>1
    <3> QED
      BY <1>2, <2>2, <3>2 DEF OrderInv
  <2>3. CASE i = Len(rows) + 1
    <3>1. rows'[i].behind = sub[p].behind /\ rows'[i].position = sub[p].pos
      BY <1>2, <2>3 DEF NewRow
    <3>2. j # Len(rows) + 1
      BY <1>0, <1>2, <2>1, <3>1
    <3> QED
      BY <1>2, <3>1, <3>2 DEF OrderInv, InsertItem
  <2> QED
    BY <1>2, <2>2, <2>3
<1> QED
  BY <1>1, <1>2, RowsStep

LEMMA OrderOfSubmissions ==
  ASSUME TypeOK, OrderInv, [Next]_vars, NEW q \in Processes, sub'[q].pc = "insert",
         NEW j \in DOMAIN rows', j <= sub'[q].behind
  PROVE  rows'[j].position < sub'[q].pos
<1>0. /\ sub \in [Processes -> Subs] /\ NoSub.pc = "idle" /\ Len(rows) \in Nat
      /\ \A p \in Processes : sub[p] \in Subs
      /\ \A i \in DOMAIN rows : rows[i] \in Rows
      /\ DOMAIN rows = 1..Len(rows)
  BY TypeParts, NoSubTyped, ElementTyped DEF SubTypeOK
<1>1. CASE sub'[q] = sub[q]
  <2>1. sub[q].behind \in Nat /\ sub[q].behind <= Len(rows)
    BY <1>0, TypeParts DEF SubTypeOK, Subs
  <2>2. j \in DOMAIN rows
    BY <1>0, <1>1, <2>1, RowsStep
  <2>3. rows'[j].position = rows[j].position
    BY <2>2, RowsStep
  <2> QED
    BY <1>1, <2>2, <2>3 DEF OrderInv, Submitting
<1>2. CASE ReadPosition(q)
  <2>1. PICK n \in 0..Len(rows) :
          /\ LastPosition(n)
          /\ sub' = [sub EXCEPT ![q] = [sub[q] EXCEPT !.pc = "insert", !.pos = n + 1,
                                                      !.behind = Len(rows)]]
    BY <1>2 DEF ReadPosition
  <2>2. sub'[q].pos = n + 1 /\ rows' = rows
    BY <1>0, <1>2, <2>1 DEF ReadPosition, Subs
  <2>3. rows[j].position <= n /\ rows[j].position \in Nat
    BY <1>0, <2>1, <2>2 DEF LastPosition, Highest, Rows
  <2> QED
    BY <2>2, <2>3
<1>4. CASE FrameStep \/ \E i \in DOMAIN rows : TakeNext(i)
  BY <1>1, <1>4 DEF FrameStep, TakeNext
<1>5. ASSUME NEW p \in Processes, GoOnStep(p) \/ ReturnStep(p) \/ BeginStep(p)
                                  \/ ReadPosition(p) \/ InsertItem(p)
      PROVE  rows'[j].position < sub'[q].pos
  <2>1. PICK s : sub' = [sub EXCEPT ![p] = s]
    BY <1>5 DEF GoOnStep, GoOn, ReturnStep, Return, BeginStep, Submit, ReadPosition, InsertItem
  <2>2. CASE p # q
    BY <1>0, <1>1, <2>1, <2>2
  <2>3. CASE p = q
    <3>1. ~GoOnStep(q)
      <4>1. SUFFICES ASSUME GoOnStep(q) PROVE sub'[q].pc # "insert"
        OBVIOUS
      <4>2. PICK step \in Steps \ {"insert"} : sub' = [sub EXCEPT ![q] = [sub[q] EXCEPT !.pc = step]]
        BY <4>1 DEF GoOnStep, GoOn, Steps
      <4> QED
        BY <1>0, <4>2 DEF Subs
    <3>2. ~(ReturnStep(q) \/ InsertItem(q))
      BY <1>0 DEF ReturnStep, InsertItem, Return
    <3>3. ~BeginStep(q)
      BY <1>0 DEF BeginStep, Submit
    <3> QED
      BY <1>2, <1>5, <2>3, <3>1, <3>2, <3>3
  <2> QED
    BY <2>2, <2>3
<1> QED
  BY <1>4, <1>5, StepShape

LEMMA OrderStep ==
  ASSUME TypeOK, OrderInv, [Next]_vars
  PROVE  OrderInv'
  BY OrderOfRows, OrderOfSubmissions DEF OrderInv, Submitting

LEMMA OrderServes ==
  ASSUME TypeOK, OrderInv, [Next]_vars, NEW i \in Queued, rows'[i].status = "taken"
  PROVE  ~\E j \in Queued : j <= rows[i].behind
<1>0. rows \in Seq(Rows) /\ i \in DOMAIN rows /\ rows[i].status = "queued"
        /\ \A j \in DOMAIN rows : rows[j] \in Rows
  BY TypeParts, ElementTyped DEF SubTypeOK, Queued
<1>1. rows' # rows
  BY <1>0
<1>2. ~\E p \in Processes : InsertItem(p)
  BY <1>0 DEF InsertItem
<1>3. PICK k \in DOMAIN rows : TakeNext(k)
  BY <1>1, <1>2, StepShape DEF FrameStep, GoOnStep, ReturnStep, BeginStep, ReadPosition
<1>4. k = i
  BY <1>0, <1>3 DEF TakeNext
<1>5. \A j \in Queued : rows[i].position <= rows[j].position
  BY <1>3, <1>4 DEF TakeNext, IsNext
<1>6. \A j \in Queued : j <= rows[i].behind => rows[j].position < rows[i].position
  BY <1>0 DEF OrderInv, Queued
<1>7. \A j \in Queued : rows[j].position \in Nat /\ rows[i].position \in Nat
  BY <1>0 DEF Queued, Rows
<1> QED
  BY <1>5, <1>6, <1>7

\* Spec => FirstComeFirstServed: two processes that read the last position and
\* insert theirs in two statements may share a position, never swap places.
THEOREM ServedInOrder == Spec => FirstComeFirstServed
<1>1. Init => OrderInv
  BY NoSubTyped DEF Init, OrderInv, Submitting
<1>2. TypeOK /\ OrderInv /\ [Next]_vars => OrderInv'
  BY OrderStep
<1>3. TypeOK /\ OrderInv /\ [Next]_vars
        => [\A i \in Queued :
              rows'[i].status = "taken" => ~\E j \in Queued : j <= rows[i].behind]_vars
  BY OrderServes
<1> QED
  BY <1>1, <1>2, <1>3, IntakeTypeCorrect, PTL DEF Spec, FirstComeFirstServed

-----------------------------------------------------------------------------
(* At most once *)

\* Whatever the bot has taken up it still knows by its id or by its date, or an
\* id was cut; and what it is submitting is not in the table yet.
Known(m) == m \in seen \/ m \in forgotten \/ m <= started \/ bot = "down"
OnceInv ==
  /\ \A m \in heard : Known(m)
  /\ \A i \in DOMAIN rows : rows[i].msg \in heard \union {0}
  /\ sub[Form].msg = 0
  /\ sub[Bot].pc # "idle" =>
       /\ sub[Bot].msg \in heard
       /\ \A i \in DOMAIN rows : rows[i].msg = sub[Bot].msg => sub[Bot].msg \in forgotten
  /\ AtMostOnce

\* How a step treats the bot's memory.
LEMMA MemoryStep ==
  ASSUME TypeOK, [Next]_vars
  PROVE  \/ /\ heard' = heard /\ forgotten' = forgotten /\ seen \subseteq seen'
            /\ started' = started /\ (bot = "down" => bot' = "down")
         \/ TakeUp
         \/ /\ heard' = heard /\ started' = started /\ bot # "down"
            /\ seen \subseteq seen' \union forgotten' /\ forgotten \subseteq forgotten'
         \/ heard' = heard /\ forgotten' = forgotten /\ bot' = "down"
         \/ heard' = heard /\ forgotten' = forgotten /\ started' = Len(chat)
<1>1. CASE \/ \E k \in ChatKeys, t \in ChatTexts : Say(k, t)
           \/ \E k \in FormKeys, t \in FormTexts : Post(k, t)
           \/ \E k \in Keys : CooldownEnds(k)
           \/ \E i \in DOMAIN rows : ManagerTakes(i)
           \/ \E p \in Processes : Pipeline(p)
           \/ FormStatementRaises \/ FormRestart \/ UNCHANGED vars
  BY <1>1 DEF Say, Post, CooldownEnds, ManagerTakes, Pipeline, FormStatementRaises, FormRestart,
     vars, botVars
<1>2. CASE EnsureChatId \/ PollOnce \/ SkipHistory \/ ChatGone \/ PassOver
  BY <1>2 DEF EnsureChatId, PollOnce, SkipHistory, ChatGone, PassOver
<1>3. CASE EndPage
  BY <1>3 DEF EndPage
<1>4. CASE BotCrash \/ BotStatementRaises
  BY <1>4 DEF BotCrash, BotStatementRaises, Exit
<1>5. CASE BotStart
  BY <1>5 DEF BotStart
<1> QED
  BY <1>1, <1>2, <1>3, <1>4, <1>5 DEF Next, BotStep, Processes

LEMMA MemoryGrows ==
  ASSUME TypeOK, [Next]_vars
  PROVE  heard \subseteq heard' /\ forgotten \subseteq forgotten'
  BY MemoryStep DEF TakeUp

LEMMA KnownStep ==
  ASSUME TypeOK, OnceInv, [Next]_vars
  PROVE  \A m \in heard' : Known(m)'
<1>0. heard \subseteq Messages /\ Len(chat) \in Nat /\ \A m \in heard : Known(m)
  BY TypeParts DEF BotTypeOK, OnceInv
<1>1. CASE TakeUp
  BY <1>0, <1>1 DEF TakeUp, Known
<1>2. CASE heard' = heard /\ started' = Len(chat)
  BY <1>0, <1>2 DEF Known, Messages
<1> QED
  BY <1>0, <1>1, <1>2, MemoryStep DEF Known

\* The bot begins only what is new, and so what is in no row.
LEMMA TakenUpOnce ==
  ASSUME TypeOK, OnceInv, TakeUp
  PROVE  \A i \in DOMAIN rows : rows[i].msg = page.next => page.next \in forgotten
<1>1. page.next \in Nat \ {0} /\ started \in Nat
  BY TypeParts DEF BotTypeOK
<1>2. page.next \notin seen /\ page.next > started /\ bot # "down"
  BY DEF TakeUp, IsNew
<1>3. page.next \in heard => page.next \in forgotten
  BY <1>1, <1>2 DEF OnceInv, Known
<1> QED
  BY <1>1, <1>3 DEF OnceInv

\* A submission of the bot is begun by TakeUp, of the form by Post.
LEMMA Begun ==
  ASSUME TypeOK, [Next]_vars, NEW p \in Processes, BeginStep(p)
  PROVE  \/ p = Form /\ sub'[Form].msg = 0 /\ sub'[Bot] = sub[Bot]
         \/ p = Bot /\ TakeUp /\ sub'[Bot].msg = page.next /\ sub'[Form] = sub[Form]
<1>0. sub \in [Processes -> Subs] /\ Form # Bot /\ Form \in Processes /\ Bot \in Processes
  BY TypeParts DEF SubTypeOK, Form, Bot, Processes
<1>1. sub[p].pc = "idle" /\ sub'[p].pc = "limit"
  BY <1>0 DEF BeginStep, Submit, Submitting
<1>2. CASE \E k \in FormKeys, t \in FormTexts : Post(k, t)
  BY <1>0, <1>1, <1>2 DEF Post, Submit, Processes
<1>3. CASE TakeUp
  <2>1. sub' # sub
    BY <1>0, <1>1
  <2>2. Submit(Bot, page.next, chat[page.next].key, chat[page.next].text)
    BY <1>3, <2>1 DEF TakeUp
  <2> QED
    BY <1>0, <1>1, <1>3, <2>2 DEF Submit, Processes
<1>4. ASSUME NEW q \in Processes, Pipeline(q) PROVE FALSE
  <2>1. sub[q].pc # "idle"
    BY <1>4 DEF Pipeline, Admit, Refuse, FailOpen, Screen, RecordRejected, ReadPosition, InsertItem,
       Submitting
  <2>2. \E s : sub' = [sub EXCEPT ![q] = s]
    BY <1>4 DEF Pipeline, Admit, Refuse, FailOpen, Screen, RecordRejected, ReadPosition, InsertItem,
       GoOn, Return
  <2> QED
    BY <1>0, <1>1, <2>1, <2>2
<1>5. CASE BotCrash \/ BotStatementRaises \/ FormStatementRaises \/ FormRestart
  <2>1. \E q \in Processes : Return(q)
    BY <1>0, <1>5 DEF BotCrash, BotStatementRaises, Exit, FormStatementRaises, FormRestart
  <2> QED
    BY <1>0, <1>1, <2>1, NoSubTyped DEF Return
<1>6. CASE sub' = sub
  BY <1>0, <1>1, <1>6
<1> QED
  BY <1>0, <1>2, <1>3, <1>4, <1>5, <1>6 DEF Next, BotStep, Say, CooldownEnds, Expire, ManagerTakes,
     TakeNext, EnsureChatId, PollOnce, SkipHistory, PassOver, EndPage, BotStart, ChatGone, subVars,
     vars

LEMMA SubmissionsStep ==
  ASSUME TypeOK, OnceInv, [Next]_vars
  PROVE  /\ sub'[Form].msg = 0
         /\ sub'[Bot].pc # "idle" =>
              \/ TakeUp /\ rows' = rows /\ sub'[Bot].msg = page.next
              \/ /\ sub[Bot].pc # "idle" /\ sub'[Bot].msg = sub[Bot].msg
                 /\ ~InsertItem(Bot)
<1>0. /\ sub \in [Processes -> Subs] /\ Form # Bot /\ Form \in Processes /\ Bot \in Processes
      /\ \A p \in Processes : sub[p] \in Subs
      /\ sub[Form].msg = 0 /\ NoSub.msg = 0 /\ NoSub.pc = "idle"
  BY TypeParts DEF SubTypeOK, Form, Bot, Processes, OnceInv, NoSub
<1>1. CASE FrameStep \/ \E i \in DOMAIN rows : TakeNext(i)
  <2>1. sub' = sub
    BY <1>1 DEF FrameStep, TakeNext
  <2>2. ~InsertItem(Bot) \/ sub'[Bot].pc = "idle"
    BY <1>0 DEF InsertItem, Return
  <2> QED
    BY <1>0, <2>1, <2>2
<1>2. ASSUME NEW p \in Processes, ReturnStep(p) \/ InsertItem(p)
      PROVE  /\ sub'[Form].msg = 0
             /\ sub'[Bot].pc # "idle" =>
                  sub[Bot].pc # "idle" /\ sub'[Bot].msg = sub[Bot].msg /\ ~InsertItem(Bot)
  <2>1. sub' = [sub EXCEPT ![p] = NoSub]
    BY <1>2 DEF ReturnStep, InsertItem, Return
  <2>2. ~InsertItem(Bot) \/ sub'[Bot].pc = "idle"
    BY <1>0 DEF InsertItem, Return
  <2> QED
    BY <1>0, <2>1, <2>2
<1>3. ASSUME NEW p \in Processes, GoOnStep(p) \/ ReadPosition(p)
      PROVE  /\ sub'[Form].msg = 0
             /\ sub'[Bot].pc # "idle" =>
                  sub[Bot].pc # "idle" /\ sub'[Bot].msg = sub[Bot].msg /\ ~InsertItem(Bot)
  <2>1. PICK s : sub' = [sub EXCEPT ![p] = s] /\ s.msg = sub[p].msg
    <3>1. CASE GoOnStep(p)
      <4>1. PICK step : sub' = [sub EXCEPT ![p] = [sub[p] EXCEPT !.pc = step]]
        BY <3>1 DEF GoOnStep, GoOn
      <4>2. [sub[p] EXCEPT !.pc = step].msg = sub[p].msg
        BY <1>0 DEF Subs
      <4> QED
        BY <4>1, <4>2
    <3>2. CASE ReadPosition(p)
      <4>1. PICK n : sub' = [sub EXCEPT ![p] = [sub[p] EXCEPT !.pc = "insert", !.pos = n + 1,
                                                               !.behind = Len(rows)]]
        BY <3>2 DEF ReadPosition
      <4>2. [sub[p] EXCEPT !.pc = "insert", !.pos = n + 1, !.behind = Len(rows)].msg = sub[p].msg
        BY <1>0 DEF Subs
      <4> QED
        BY <4>1, <4>2
    <3> QED
      BY <1>3, <3>1, <3>2
  <2>2. sub[p].pc # "idle"
    BY <1>3 DEF GoOnStep, ReadPosition, Submitting
  <2>3. ~InsertItem(Bot) \/ sub'[Bot].pc = "idle"
    BY <1>0 DEF InsertItem, Return
  <2> QED
    BY <1>0, <2>1, <2>2, <2>3
<1>4. ASSUME NEW p \in Processes, BeginStep(p)
      PROVE  /\ sub'[Form].msg = 0
             /\ sub'[Bot].pc # "idle" =>
                  \/ TakeUp /\ rows' = rows /\ sub'[Bot].msg = page.next
                  \/ /\ sub[Bot].pc # "idle" /\ sub'[Bot].msg = sub[Bot].msg
                     /\ ~InsertItem(Bot)
  <2>1. rows' = rows
    BY <1>4 DEF BeginStep
  <2>2. ~InsertItem(Bot) \/ sub'[Bot].pc = "idle"
    BY <1>0 DEF InsertItem, Return
  <2> QED
    BY <1>0, <1>4, <2>1, <2>2, Begun
<1> QED
  BY <1>1, <1>2, <1>3, <1>4, StepShape

LEMMA OnceStep ==
  ASSUME TypeOK, OnceInv, [Next]_vars
  PROVE  OnceInv'
<1>0. /\ heard \subseteq heard' /\ forgotten \subseteq forgotten'
      /\ 0 \notin heard /\ Form # Bot /\ Processes = {Form, Bot}
  BY MemoryGrows, TypeParts DEF BotTypeOK, Messages, Form, Bot, Processes
\* What a new row stems from.
<1>1. ASSUME NEW p \in Processes, InsertItem(p)
      PROVE  \/ p = Form /\ NewRow(sub[p]).msg = 0
             \/ /\ p = Bot /\ NewRow(sub[p]).msg \in heard
                /\ \A i \in DOMAIN rows :
                     rows[i].msg = NewRow(sub[p]).msg => NewRow(sub[p]).msg \in forgotten
  BY <1>0, <1>1 DEF InsertItem, Submitting, NewRow, OnceInv
<1>2. \A i \in DOMAIN rows' : rows'[i].msg \in heard' \union {0}
  BY <1>0, <1>1, RowsStep DEF OnceInv
<1>3. AtMostOnce'
  <2>1. CASE /\ DOMAIN rows' = DOMAIN rows
             /\ \A i \in DOMAIN rows : rows'[i].msg = rows[i].msg
    BY <1>0, <2>1 DEF AtMostOnce, OnceInv
  <2>2. ASSUME DOMAIN rows' = DOMAIN rows \union {Len(rows) + 1},
               \A i \in DOMAIN rows : rows'[i] = rows[i],
               NEW p \in Processes, InsertItem(p), rows'[Len(rows) + 1] = NewRow(sub[p])
        PROVE  AtMostOnce'
    <3>1. \A i \in DOMAIN rows :
            rows[i].msg = NewRow(sub[p]).msg => rows[i].msg \in forgotten \union {0}
      BY <1>1, <2>2
    <3> QED
      BY <1>0, <2>2, <3>1 DEF AtMostOnce, OnceInv
  <2> QED
    BY <2>1, <2>2, RowsStep
<1>4. ASSUME sub'[Bot].pc # "idle"
      PROVE  /\ sub'[Bot].msg \in heard'
             /\ \A i \in DOMAIN rows' : rows'[i].msg = sub'[Bot].msg => sub'[Bot].msg \in forgotten'
  <2>1. CASE TakeUp /\ rows' = rows /\ sub'[Bot].msg = page.next
    <3>1. page.next \in heard'
      BY <2>1 DEF TakeUp
    <3> QED
      BY <1>0, <2>1, <3>1, TakenUpOnce
  <2>2. CASE sub[Bot].pc # "idle" /\ sub'[Bot].msg = sub[Bot].msg /\ ~InsertItem(Bot)
    <3>1. sub[Bot].msg \in heard
            /\ \A i \in DOMAIN rows : rows[i].msg = sub[Bot].msg => sub[Bot].msg \in forgotten
      BY <2>2 DEF OnceInv
    <3>2. \A i \in DOMAIN rows' : \/ i \in DOMAIN rows /\ rows'[i].msg = rows[i].msg
                                 \/ rows'[i].msg = 0
      BY <1>0, <1>1, <2>2, RowsStep
    <3> QED
      BY <1>0, <2>2, <3>1, <3>2
  <2> QED
    BY <1>4, <2>1, <2>2, SubmissionsStep
<1> QED
  BY <1>2, <1>3, <1>4, KnownStep, SubmissionsStep DEF OnceInv

\* Spec => []AtMostOnce: the seen ids within one run of the bot, and the start
\* date across runs, keep every message from being queued a second time.
THEOREM MessagesOnce == Spec => []AtMostOnce
<1>1. Init => OnceInv
  BY DEF Init, OnceInv, AtMostOnce, NoSub, Processes, Form, Bot
<1>2. TypeOK /\ OnceInv /\ [Next]_vars => OnceInv'
  BY OnceStep
<1>3. OnceInv => AtMostOnce
  BY DEF OnceInv
<1> QED
  BY <1>1, <1>2, <1>3, IntakeTypeCorrect, PTL DEF Spec

=============================================================================
