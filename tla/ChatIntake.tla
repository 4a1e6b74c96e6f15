----------------------------- MODULE ChatIntake -----------------------------
(***************************************************************************)
(* The two intake services over Submission: the chat bot                   *)
(* (queue/chat_intake.py), which pages through a YouTube live chat and     *)
(* submits each `!request' once, and the operator form (queue/intake.py),  *)
(* which handles one POST at a time.                                       *)
(*                                                                         *)
(* Chat messages are numbered in the order of their publication, so a page *)
(* token is the number of messages before the page, and started_at is the  *)
(* number of messages published before the start.                          *)
(*                                                                         *)
(* Abstracted: time between polls; replies, which read the outcome and     *)
(* touch nothing else; the length of prompts and names.                    *)
(***************************************************************************)
EXTENDS Submission

CONSTANTS
  ChatKeys,     \* buckets of the chatters
  FormKeys,     \* buckets of the form's clients
  ChatTexts,    \* what viewers write, out of AllTexts
  FormTexts,    \* what is posted to the form, out of AllTexts
  MaxMessages,  \* bound: messages in the chat
  MaxPosts,     \* bound: prompts posted to the form
  PageSize,     \* maxResults of a list call
  SeenLimit     \* SEEN_IDS_LIMIT

ASSUME IntakeSettings ==
  /\ Keys = ChatKeys \union FormKeys /\ Keys # {} /\ ChatKeys \intersect FormKeys = {}
  /\ ChatTexts \subseteq AllTexts /\ FormTexts \subseteq AllTexts \ {"chatter"}
  /\ MaxMessages \in Nat /\ MaxPosts \in Nat
  /\ PageSize \in Nat \ {0} /\ SeenLimit \in Nat \ {0}

VARIABLES
  chat,       \* what was written in the chat: by whom and what
  bot,        \* where the bot's loop stands
  token,      \* page_token
  firstDone,  \* first_poll_done
  started,    \* started_at
  seen,       \* seen_ids
  page,       \* the page in hand: its next message, its last
  heard,      \* messages handle_message was called for, by any run of the bot
  forgotten,  \* ids cut out of seen_ids
  posts       \* prompts posted to the form

botVars == <<bot, token, firstDone, started, seen, page>>
vars == <<rows, windows, sub, linked, faults, chat, bot, token, firstDone, started, seen,
          page, heard, forgotten, posts>>

NoPage    == [next |-> 1, last |-> 0]
Listening == bot \in {"poll", "page"} /\ firstDone
Messages  == 1..Len(chat)

-----------------------------------------------------------------------------
(* The world outside *)

Say(k, t) ==
  /\ Len(chat) < MaxMessages
  /\ chat' = Append(chat, [key |-> k, text |-> t])
  /\ UNCHANGED <<subVars, botVars, heard, forgotten, posts>>

Post(k, t) ==
  /\ posts < MaxPosts /\ posts' = posts + 1
  /\ Submit(Form, 0, k, t)
  /\ UNCHANGED <<rows, windows, linked, faults, chat, botVars, heard, forgotten>>

CooldownEnds(k) == Expire(k) /\ UNCHANGED <<chat, botVars, heard, forgotten, posts>>
ManagerTakes(i) == TakeNext(i) /\ UNCHANGED <<chat, botVars, heard, forgotten, posts>>

-----------------------------------------------------------------------------
(* The bot: run_forever *)

\* ensure_chat_id, once the broadcast is live.
EnsureChatId ==
  /\ bot = "resolve"
  /\ bot' = "poll" /\ token' = 0 /\ firstDone' = FALSE
  /\ UNCHANGED <<subVars, chat, started, seen, page, heard, forgotten, posts>>

\* The page list_messages returns: the last message on it.
PastTheEnd(t) == t + PageSize                                            \* (a variant)
LastOnPage(t) == IF t + PageSize < Len(chat) THEN t + PageSize ELSE Len(chat)

NextToken(last) == \/ token' = last /\ UNCHANGED faults
                   \/ token' = token /\ Fault("token")

\* poll_once after the first: the page is taken up.
PollNotingAll ==                                                         \* (a variant)
  /\ bot = "poll" /\ firstDone
  /\ NextToken(LastOnPage(token))
  /\ page' = [next |-> token + 1, last |-> LastOnPage(token)]
  /\ seen' = seen \union (token + 1 .. LastOnPage(token))
  /\ bot' = "page"
  /\ UNCHANGED <<rows, windows, sub, linked, chat, firstDone, started, heard, forgotten, posts>>
PollOnce ==
  /\ bot = "poll" /\ firstDone
  /\ NextToken(LastOnPage(token))
  /\ page' = [next |-> token + 1, last |-> LastOnPage(token)]
  /\ bot' = "page"
  /\ UNCHANGED <<rows, windows, sub, linked, chat, firstDone, started, seen, heard, forgotten,
                 posts>>

\* The first poll of a connection: its page is history.
SkipHistory ==
  /\ bot = "poll" /\ ~firstDone
  /\ NextToken(LastOnPage(token))
  /\ firstDone' = TRUE
  /\ seen' = seen \union (token + 1 .. LastOnPage(token))
  /\ UNCHANGED <<rows, windows, sub, linked, chat, bot, started, page, heard, forgotten, posts>>

\* A YouTubeError whose reason says the chat is gone; after any other the bot
\* backs off and nothing changes.
ChatGone ==
  /\ bot = "poll" /\ Fault("ended")
  /\ bot' = "resolve"
  /\ UNCHANGED <<rows, windows, sub, linked, chat, token, firstDone, started, seen, page, heard,
                 forgotten, posts>>

IsUnseen(m) == m \notin seen                                             \* (a variant)
IsNew(m) == m \notin seen /\ m > started

\* The next message of the page; submit_prompt runs before the one after it.
TakeUp ==
  /\ bot = "page" /\ Submitting(Bot, "idle") /\ page.next <= page.last
  /\ LET m == page.next IN
       /\ IsNew(m)
       /\ seen' = seen \union {m} /\ heard' = heard \union {m}
       /\ IF chat[m].text = "chatter" THEN UNCHANGED sub
          ELSE Submit(Bot, m, chat[m].key, chat[m].text)
  /\ page' = [page EXCEPT !.next = @ + 1]
  /\ UNCHANGED <<rows, windows, linked, faults, chat, bot, token, firstDone, started, forgotten,
                 posts>>

PassOver ==
  /\ bot = "page" /\ Submitting(Bot, "idle") /\ page.next <= page.last
  /\ ~IsNew(page.next)
  /\ page' = [page EXCEPT !.next = @ + 1]
  /\ UNCHANGED <<subVars, chat, bot, token, firstDone, started, seen, heard, forgotten, posts>>

\* list(seen_ids)[-SEEN_IDS_LIMIT // 2:], in the order of a set: none.
Trimmed(ids) ==
  IF Cardinality(ids) <= SeenLimit THEN {ids}
  ELSE {kept \in SUBSET ids : Cardinality(kept) = (SeenLimit + 1) \div 2}

EndPage ==
  /\ bot = "page" /\ Submitting(Bot, "idle") /\ page.next > page.last
  /\ seen' \in Trimmed(seen)
  /\ forgotten' = forgotten \union (seen \ seen')
  /\ page' = NoPage /\ bot' = "poll"
  /\ UNCHANGED <<subVars, chat, token, firstDone, started, heard, posts>>

\* The process ends and with it all it knew; restart: always.
Exit ==
  /\ bot' = "down" /\ token' = 0 /\ firstDone' = FALSE /\ seen' = {} /\ page' = NoPage
  /\ Return(Bot)
  /\ UNCHANGED <<rows, windows, chat, started, heard, forgotten, posts>>

BotCrash == bot # "down" /\ Fault("crash") /\ Exit /\ UNCHANGED linked

\* run_forever catches no database error.
BotStatementRaises == StatementRaises(Bot) /\ Exit /\ UNCHANGED linked

BotStart ==
  /\ bot = "down"
  /\ bot' = "resolve" /\ started' = Len(chat)
  /\ UNCHANGED <<subVars, chat, token, firstDone, seen, page, heard, forgotten, posts>>

-----------------------------------------------------------------------------
(* The form *)

\* The handler dies with its request, the server goes on; a connection that
\* broke is never opened again.
FormStatementRaises ==
  /\ StatementRaises(Form)
  /\ linked' \in {linked, linked \ {Form}}
  /\ Return(Form)
  /\ UNCHANGED <<rows, windows, chat, botVars, heard, forgotten, posts>>

FormRestart ==
  /\ Fault("crash")
  /\ linked' = linked \union {Form}
  /\ Return(Form)
  /\ UNCHANGED <<rows, windows, chat, botVars, heard, forgotten, posts>>

-----------------------------------------------------------------------------
Pipeline(p) ==
  /\ \/ Admit(p) \/ Refuse(p) \/ FailOpen(p) \/ Screen(p)
     \/ RecordRejected(p) \/ ReadPosition(p) \/ InsertItem(p)
  /\ UNCHANGED <<chat, botVars, heard, forgotten, posts>>

BotStep ==
  \/ EnsureChatId \/ PollOnce \/ SkipHistory \/ TakeUp \/ PassOver \/ EndPage \/ BotStart
  \/ Pipeline(Bot)

Init ==
  /\ rows = <<>> /\ windows = {} /\ sub = [p \in Processes |-> NoSub]
  /\ linked = Processes /\ faults = 0
  /\ chat = <<>> /\ bot = "down" /\ token = 0 /\ firstDone = FALSE /\ started = 0
  /\ seen = {} /\ page = NoPage /\ heard = {} /\ forgotten = {} /\ posts = 0

Next ==
  \/ \E k \in ChatKeys, t \in ChatTexts : Say(k, t)
  \/ \E k \in FormKeys, t \in FormTexts : Post(k, t)
  \/ \E k \in Keys : CooldownEnds(k)
  \/ \E i \in DOMAIN rows : ManagerTakes(i)
  \/ BotStep
  \/ ChatGone \/ BotCrash \/ BotStatementRaises
  \/ Pipeline(Form) \/ FormStatementRaises \/ FormRestart

\* The bot is one endless loop, restarted when it ends; nothing else is fair:
\* not the viewers, not the faults, not the form.
Spec == Init /\ [][Next]_vars /\ WF_vars(BotStep)

-----------------------------------------------------------------------------
(* Properties *)

\* Everything has its type, nothing names a message or a row that is not there,
\* and no position is beyond the number of rows.
TypeOK ==
  /\ rows \in Seq(Rows) /\ windows \subseteq Keys /\ sub \in [Processes -> Subs]
  /\ linked \subseteq Processes /\ faults \in 0..MaxFaults
  /\ chat \in Seq([key : ChatKeys, text : AllTexts])
  /\ bot \in {"down", "resolve", "poll", "page"} /\ firstDone \in BOOLEAN
  /\ token \in 0..Len(chat) /\ started \in 0..Len(chat)
  /\ page \in [next : Nat \ {0}, last : 0..Len(chat)]
  /\ seen \subseteq Messages /\ heard \subseteq Messages /\ forgotten \subseteq Messages
  /\ posts \in 0..MaxPosts
  /\ \A i \in DOMAIN rows : rows[i].position \in 1..i /\ rows[i].behind < i
  /\ \A p \in Processes :
       /\ sub[p].behind <= Len(rows) /\ sub[p].pos <= sub[p].behind + 1
       /\ Submitting(p, "insert") => sub[p].pos # 0

\* No chat message becomes two requests, however often YouTube lists it and the
\* bot reconnects or starts again; only an id cut out of seen_ids may come back
\* (is_new, and the history that poll_once skips).
AtMostOnce ==
  \A i, j \in DOMAIN rows :
    i # j /\ rows[i].msg = rows[j].msg => rows[i].msg \in forgotten \union {0}

\* Nothing is queued that the keyword block or the moderation service rejects,
\* nor an invalid prompt, nor a message that was no command: moderate_prompt
\* fails closed.
OnlyScreenedEnqueued == \A i \in DOMAIN rows : rows[i].text \in {"clean", "cover"}

\* The manager takes no row while one waits that was in the table when that
\* row's enqueue began: with two processes that read and insert positions in
\* two statements, next_queued still serves first who came first.
FirstComeFirstServed ==
  [][\A i \in Queued :
       rows'[i].status = "taken" => ~\E j \in Queued : j <= rows[i].behind]_vars

\* A message published while the bot listens reaches handle_message, unless
\* the connection or the process ends first: paging, the filter and the trim
\* together pass over none.
HeardWhileListening ==
  \A m \in 1..MaxMessages :
    (Listening /\ m \in Messages /\ m > token /\ m > started /\ m \notin seen)
      ~> (m \in heard \/ ~Listening)

=============================================================================
