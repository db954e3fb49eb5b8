----------------------------- MODULE RoomMessages -----------------------------
(***************************************************************************)
(* The messages of one room: src/internal/chat/messages_core.go,           *)
(* message_admin.go, message_history.go, gang_bot.go, the mentions of      *)
(* room_notifications.go and the queue of src/internal/push/dispatcher.go. *)
(*                                                                         *)
(* Messages are sent and sent again, read, recalled, deleted and hidden by *)
(* requests that run at the same time.  A statement or a transaction of a  *)
(* request is one step, and the time stamp that orders a message is taken  *)
(* a step before its row is inserted.  A request that is refused changes   *)
(* nothing and has no step.  Bodies and attachments are reduced to whom    *)
(* they mention and whether a history category shows them.                 *)
(***************************************************************************)
EXTENDS Integers, FiniteSets, Sequences, SequencesExt

CONSTANTS
    Users,          \* the members of the room
    Admins,         \* its owner and admins
    Reader,         \* the user whose client pages through the messages
    Bot,            \* gangBotSenderID
    None,
    Clients,        \* ids that a client gives to the messages it sends
    Audiences,      \* whom messages mention: "nobody", "all", "admins", Bot or a user
    OldIds,         \* the messages of the room at the start, all of one stamp,
    OldKind,        \* and what they are: "text", "file" or "live"
    NewIds,         \* ids that newID may give, in any order
    RecallWindow,   \* message_recall_window_seconds, in ticks
    PageSize,       \* limit of a page
    ScanBatch,      \* messageHistoryScanBatch
    QueueSize,      \* the capacity of Dispatcher.queue
    MinGap, MaxGap, \* gangBotMinGap, gangBotMaxGap
    Handlers,       \* bound: requests at the same time
    Mixes,          \* bound: how many requests of each kind meet in one behaviour
    MaxClock,       \* bound: milliseconds
    MaxRestarts     \* bound: restarts of the server

Ids == OldIds \cup NewIds
Workers == Handlers \cup {Bot}

ASSUME MessagesAssumption ==
    /\ Admins \subseteq Users /\ Reader \in Users
    /\ Bot \notin Users \cup Handlers /\ None \notin Users \cup Ids \cup Clients
    /\ OldIds \subseteq Nat /\ NewIds \subseteq Nat /\ OldIds \cap NewIds = {}
    /\ OldKind \in [OldIds -> {"text", "file", "live"}]
    /\ IsFiniteSet(OldIds)
    /\ {RecallWindow, MaxRestarts} \subseteq Nat
    /\ {MaxClock, PageSize, ScanBatch, QueueSize, MinGap} \subseteq Nat \ {0}
    /\ MaxGap \in Nat /\ MinGap <= MaxGap

VARIABLES
    now,            \* the clock
    messages,       \* the rows of messages, by id
    answers,        \* idempotency_keys: the message stored for <<user, client id>>
    told,           \* <<user, client id, message>> that clients were answered
    cursor,         \* room_reads.last_read_message_id of each user
    level,          \* notification_level of each member
    policy,         \* rooms.message_recall_policy
    requests,       \* message_recall_requests: status by <<message, requester>>
    notes,          \* rows of room_notifications for a message and a recipient,
                    \* less those the recipient has deleted
    queue,          \* Dispatcher.queue
    pushed,         \* pushes sent for a message to a user
    hidden,         \* message_history_deletions of Reader
    bot,            \* gangBotRoom
    call,           \* the requests under way, and the reply of the bot
    reader,         \* Reader's client, paging back through the room
    left,           \* the requests of each kind that are still to come
    restarts,
    overtaken       \* history: messages wiped before their mentions were
                    \* added, or whose mentions a restart kept from going

alerts == <<notes, queue, pushed, overtaken>>
rules == <<cursor, level, policy, requests, hidden>>
bounds == <<left, restarts>>
vars == <<now, messages, answers, told, rules, alerts, bot, call, reader, bounds>>

Message == [sender : Users \cup {Bot}, client : Clients \cup {None}, at : 0..MaxClock,
            to : Audiences \cup Users \cup {"nobody"},
            kind : {"text", "file", "live"}, wiped : BOOLEAN]

Idle == [step |-> "idle", op |-> "none", user |-> None, client |-> None, id |-> None,
         at |-> 0, to |-> "nobody", found |-> {}, verdict |-> "none"]

-----------------------------------------------------------------------------
(* The order of messages, and what is shown to whom *)

\* created_at, and the id when stamps are equal.
Before(a, b) == \/ messages[a].at < messages[b].at
                \/ messages[a].at = messages[b].at /\ a < b

\* visibleMessageSQL: the events of old voice rooms are not shown, as long as
\* they have the attachment that says so.
Visible == {m \in DOMAIN messages : ~ (messages[m].kind = "live" /\ ~ messages[m].wiped)}

\* messageMatchesHistoryCategory, for the category "files".
IsFile(m) == messages[m].kind = "file" /\ ~ messages[m].wiped

\* What Reader's list has to show, of the given kind.
Shown(kind) == CASE kind = "list" -> Visible
                 [] kind = "history" -> Visible \ hidden
                 [] kind = "files" -> {m \in Visible \ hidden : IsFile(m)}

Newest(S) == CHOOSE m \in S : \A n \in S \ {m} : Before(n, m)
Oldest(S) == CHOOSE m \in S : \A n \in S \ {m} : Before(m, n)

\* SELECT ... ORDER BY created_at DESC, id DESC LIMIT n.
Page(S, n) == {m \in S : Cardinality({o \in S : Before(m, o)}) < n}
\* Mutant: messages with the cursor's own stamp are taken for newer.
OlderStamp(S, m) == IF m = None THEN S ELSE {o \in S : messages[o].at < messages[m].at}

OlderThan(S, m) == IF m = None THEN S ELSE {o \in S : Before(o, m)}

Existing(u, c) == {m \in DOMAIN messages : /\ messages[m].sender = u
                                           /\ messages[m].client = c /\ c # None}

\* Bound: an id is left for one more message.
FreeId == Cardinality(NewIds \ DOMAIN messages)
              > Cardinality({h \in Workers : call[h].step \in {"insert", "post"}})

\* mentionMessageTargetsUser.
Targets(to) == CASE to = "all" -> Users
                 [] to = "admins" -> Admins
                 [] OTHER -> {to} \cap Users

\* lastMessage, as a user's list of rooms shows it.
LastMessage(u) == IF level[u] = "blocked" \/ Visible = {} THEN None ELSE Newest(Visible)

\* unreadCount: what others have sent since the message the cursor is at.
Unread(u) ==
    IF level[u] = "blocked" THEN {}
    ELSE {m \in Visible : /\ messages[m].sender # u
                          /\ cursor[u] # None => Before(cursor[u], m)}

\* unreadMentionCount, with the mentions that the messages still have.
UnreadMentions(u) ==
    {m \in Unread(u) : ~ messages[m].wiped /\ u \in Targets(messages[m].to)}

\* canRecallMemberMessage: an admin's rank is above a member's only.
Outranks(u, sender) == u = sender \/ (u \in Admins /\ sender \notin Admins)

-----------------------------------------------------------------------------
Init ==
    /\ now = 1
    /\ messages = [m \in OldIds |-> [sender |-> Reader, client |-> None, at |-> 0,
                                     to |-> "nobody", kind |-> OldKind[m], wiped |-> FALSE]]
    /\ answers = <<>> /\ told = {}
    /\ cursor = [u \in Users |-> None]
    /\ level = [u \in Users |-> "all"]
    /\ policy = "time_limited"
    /\ requests = <<>> /\ hidden = {}
    /\ notes = [m \in Ids |-> [u \in Users |-> 0]]
    /\ queue = <<>> /\ pushed = [m \in Ids |-> [u \in Users |-> 0]]
    /\ \E gap \in MinGap..MaxGap :
          bot = [since |-> 0, threshold |-> gap, busy |-> FALSE, pending |-> None]
    /\ call = [h \in Workers |-> Idle]
    /\ reader = [step |-> "idle", kind |-> "list", before |-> None, scan |-> None,
                 start |-> {}, got |-> {}, found |-> {}]
    /\ left \in Mixes /\ restarts = 0 /\ overtaken = {}

Begin(op) == /\ op \in DOMAIN left /\ left[op] > 0
             /\ left' = [left EXCEPT ![op] = @ - 1]
             /\ UNCHANGED restarts
Start(h, r) == call[h] = Idle /\ call' = [call EXCEPT ![h] = r]
At(h, step) == call[h].step = step
Goto(h, step) == call' = [call EXCEPT ![h].step = step]
End(h) == call' = [call EXCEPT ![h] = Idle]

Tick ==
    /\ now < MaxClock /\ now' = now + 1
    /\ UNCHANGED <<messages, answers, told, rules, alerts, bot, call, reader, bounds>>

-----------------------------------------------------------------------------
(* Sending: sendMessage *)

\* replayIdempotency: the request was answered before.
Replayed(u, c) == <<u, c>> \in DOMAIN answers

\* A client sends a message, or sends it again.  An answer that is stored is
\* replayed; otherwise the stamp is taken.
SendMessage(h, u, c, to) ==
    /\ Begin("send")
    /\ IF Replayed(u, c)
       THEN /\ call[h] = Idle /\ UNCHANGED call
            /\ told' = told \cup {<<u, c, answers[<<u, c>>]>>}
       ELSE /\ FreeId \/ Existing(u, c) # {}
            /\ Start(h, [Idle EXCEPT !.step = "insert", !.op = "send", !.user = u, !.client = c,
                                      !.at = now, !.to = to])
            /\ UNCHANGED told
    /\ UNCHANGED <<now, messages, answers, rules, alerts, bot, reader>>

\* A row goes in under its key, unless there is one.
Inserted(table, key, r) ==
    [k \in DOMAIN table \cup {key} |-> IF k \in DOMAIN table THEN table[k] ELSE r]

\* insertMessageWithSenderSnapshotAndQuote, under an id that is not used yet.
AddMessage(h, m) ==
    messages' = Inserted(messages, m, [sender |-> call[h].user, client |-> call[h].client,
                                       at |-> call[h].at, to |-> call[h].to, kind |-> "text",
                                       wiped |-> FALSE])

\* Mutant: nothing keeps a client's message from being inserted twice.
InsertTwice(h) ==
    /\ At(h, "insert")
    /\ \E m \in NewIds \ DOMAIN messages :
          /\ AddMessage(h, m)
          /\ call' = [call EXCEPT ![h].id = m, ![h].step = "announce"]
    /\ UNCHANGED <<now, answers, told, rules, alerts, bot, reader, bounds>>

\* The row is inserted, or the insert fails because the client's message is
\* there already: then that one is the answer.
InsertMessage(h) ==
    /\ At(h, "insert")
    /\ LET existing == Existing(call[h].user, call[h].client) IN
       \/ /\ existing = {}
          /\ \E m \in NewIds \ DOMAIN messages :
                /\ AddMessage(h, m)
                /\ call' = [call EXCEPT ![h].id = m, ![h].step = "announce"]
       \/ \E m \in existing :
                /\ call' = [call EXCEPT ![h].id = m, ![h].step = "answer"]
                /\ UNCHANGED messages
    /\ UNCHANGED <<now, answers, told, rules, alerts, bot, reader, bounds>>

\* Dispatcher.Enqueue drops the push when the queue is full.
Enqueue(m) == IF Len(queue) < QueueSize THEN Append(queue, m) ELSE queue

\* The members other than the sender who want all notifications.
WantAll(sender) == {u \in Users \ {sender} : level[u] = "all"}

\* Mutant: the queue grows without a limit.
AnnounceAlways(h) ==
    /\ At(h, "announce")
    /\ queue' = Append(queue, call[h].id)
    /\ call' = [call EXCEPT ![h].step = "mention", ![h].found = WantAll(call[h].user)]
    /\ UNCHANGED <<now, messages, answers, told, rules, notes, pushed, overtaken, bot, reader,
                   bounds>>

\* The push is queued, and the members who may be mentioned are read.
Announce(h) ==
    /\ At(h, "announce")
    /\ queue' = Enqueue(call[h].id)
    /\ call' = [call EXCEPT ![h].step = "mention", ![h].found = WantAll(call[h].user)]
    /\ UNCHANGED <<now, messages, answers, told, rules, notes, pushed, overtaken, bot, reader,
                   bounds>>

\* appendRoomNotificationTx for each recipient.
AddRows(rows, m, to) ==
    [rows EXCEPT ![m] = [u \in Users |-> rows[m][u] + IF u \in to THEN 1 ELSE 0]]

\* appendMentionRoomNotifications: one transaction adds the notifications.
NotifyMentioned(h) ==
    /\ At(h, "mention")
    /\ notes' = AddRows(notes, call[h].id, call[h].found \cap Targets(call[h].to))
    /\ Goto(h, IF h = Bot THEN "rest" ELSE "observe")
    /\ UNCHANGED <<now, messages, answers, told, rules, queue, pushed, overtaken, bot, reader,
                   bounds>>

\* idempotentJSON: the answer is stored, if none is, and given to the client.
Answer(h) ==
    /\ At(h, "answer")
    /\ LET r == call[h] IN
       /\ answers' = Inserted(answers, <<r.user, r.client>>, r.id)
       /\ told' = told \cup {<<r.user, r.client, r.id>>}
    /\ End(h)
    /\ UNCHANGED <<now, messages, rules, alerts, bot, reader, bounds>>

\* Dispatcher.targets: the devices of the members who want all notifications.
PushTargets(m) == WantAll(messages[m].sender)

\* Dispatcher.Run delivers one message to everyone who wants all notifications.
DeliverPush ==
    /\ queue # <<>>
    /\ queue' = Tail(queue)
    /\ pushed' = AddRows(pushed, Head(queue), PushTargets(Head(queue)))
    /\ UNCHANGED <<now, messages, answers, told, rules, notes, overtaken, bot, call, reader,
                   bounds>>

\* appendSystemMessageTx: what happens in the room is a message too.
SystemMessage(u) ==
    /\ Begin("system") /\ FreeId
    /\ \E m \in NewIds \ DOMAIN messages, at \in 1..now :
          messages' = Inserted(messages, m, [sender |-> u, client |-> None, at |-> at, to |-> "nobody",
                                             kind |-> "text", wiped |-> FALSE])
    /\ UNCHANGED <<now, answers, told, rules, alerts, bot, call, reader>>

-----------------------------------------------------------------------------
(* The bot that takes part in the chat: gangBot *)

\* A reply to message m, or to none, begins in the background.
BotStarts(m) == [Idle EXCEPT !.step = "reply", !.op = "bot", !.user = Bot, !.id = m]

\* gangBot.observe, for a message that was sent.
ObserveMessage(h) ==
    /\ At(h, "observe")
    /\ LET m == call[h].id
           since == bot.since + 1
           mentioned == call[h].to = Bot
       IN IF bot.busy \/ (~ mentioned /\ since < bot.threshold)
          THEN /\ bot' = [bot EXCEPT !.since = since,
                                     !.pending = IF mentioned THEN m ELSE @]
               /\ Goto(h, "answer")
          ELSE /\ \E gap \in MinGap..MaxGap :
                     bot' = [bot EXCEPT !.since = 0, !.threshold = gap, !.busy = TRUE]
               /\ call' = [call EXCEPT ![h].step = "answer",
                                       ![Bot] = BotStarts(IF mentioned THEN m ELSE None)]
    /\ UNCHANGED <<now, messages, answers, told, rules, alerts, reader, bounds>>

\* gangBotRespond: the message that mentions the bot is read.
BotReads ==
    /\ At(Bot, "reply")
    /\ LET m == call[Bot].id
       IN call' = [call EXCEPT ![Bot].step = "think", ![Bot].id = None,
             ![Bot].to = IF m # None /\ ~ messages[m].wiped THEN messages[m].sender ELSE "nobody"]
    /\ UNCHANGED <<now, messages, answers, told, rules, alerts, bot, reader, bounds>>

\* The model has answered and the reply gets its stamp, or there is none.
BotReplies ==
    /\ At(Bot, "think")
    /\ \/ FreeId /\ call' = [call EXCEPT ![Bot].step = "post", ![Bot].at = now]
       \/ Goto(Bot, "rest")
    /\ UNCHANGED <<now, messages, answers, told, rules, alerts, bot, reader, bounds>>

\* postGangBotMessage: the row is inserted, and who wants the mention is read.
BotPosts ==
    /\ At(Bot, "post")
    /\ \E m \in NewIds \ DOMAIN messages :
          /\ AddMessage(Bot, m)
          /\ call' = [call EXCEPT ![Bot].id = m, ![Bot].step = "mention",
                                  ![Bot].found = WantAll(Bot)]
    /\ UNCHANGED <<now, answers, told, rules, alerts, bot, reader, bounds>>

\* Mutant: a mention that came meanwhile stays where it is.
BotForgets ==
    /\ At(Bot, "rest")
    /\ bot' = [bot EXCEPT !.busy = FALSE] /\ End(Bot)
    /\ UNCHANGED <<now, messages, answers, told, rules, alerts, reader, bounds>>

\* The end of gangBot.run: a mention that came meanwhile is next.
BotRests ==
    /\ At(Bot, "rest")
    /\ IF bot.pending = None
       THEN bot' = [bot EXCEPT !.busy = FALSE] /\ End(Bot)
       ELSE /\ bot' = [bot EXCEPT !.pending = None, !.since = 0]
            /\ call' = [call EXCEPT ![Bot] = BotStarts(bot.pending)]
    /\ UNCHANGED <<now, messages, answers, told, rules, alerts, reader, bounds>>

-----------------------------------------------------------------------------
(* Reading: markRead *)

MarkRead(h, u, m) ==
    /\ Begin("read")
    /\ m \in DOMAIN messages /\ level[u] # "blocked"
    /\ Start(h, [Idle EXCEPT !.step = "ensure", !.op = "read", !.user = u, !.id = m])
    /\ UNCHANGED <<now, messages, answers, told, rules, alerts, bot, reader>>

\* The user's cursor is inserted if there is none.
EnsureCursor(h) ==
    /\ At(h, "ensure")
    /\ cursor' = [cursor EXCEPT ![call[h].user] = IF @ = None THEN call[h].id ELSE @]
    /\ Goto(h, "advance")
    /\ UNCHANGED <<now, messages, answers, told, level, policy, requests, hidden, alerts, bot,
                   reader, bounds>>

\* Mutant: the cursor is set to the message, wherever it is.
OverwriteCursor(h) ==
    /\ At(h, "advance")
    /\ cursor' = [cursor EXCEPT ![call[h].user] = call[h].id]
    /\ End(h)
    /\ UNCHANGED <<now, messages, answers, told, level, policy, requests, hidden, alerts, bot,
                   reader, bounds>>

\* The cursor moves unless it is at the message or past it.
AdvanceCursor(h) ==
    /\ At(h, "advance")
    /\ cursor' = [cursor EXCEPT ![call[h].user] =
                     IF Before(@, call[h].id) THEN call[h].id ELSE @]
    /\ End(h)
    /\ UNCHANGED <<now, messages, answers, told, level, policy, requests, hidden, alerts, bot,
                   reader, bounds>>

-----------------------------------------------------------------------------
(* Recalling and deleting: message_admin.go *)

\* The message and the policy are read and judged.
RecallMessage(h, u, m) ==
    /\ Begin("recall")
    /\ m \in DOMAIN messages
    /\ LET sender == messages[m].sender
           recall == [Idle EXCEPT !.op = "recall", !.user = u, !.id = m]
       IN
       IF u \in Admins
       THEN /\ Outranks(u, sender)
            /\ Start(h, [recall EXCEPT !.step = "wipe"])
       ELSE /\ sender = u /\ policy # "disabled"
            /\ IF policy = "admin_approval"
               THEN Start(h, [recall EXCEPT !.step = "ask"])
               ELSE /\ now - messages[m].at <= RecallWindow
                    /\ Start(h, [recall EXCEPT !.step = "wipe"])
    /\ UNCHANGED <<now, messages, answers, told, rules, alerts, bot, reader>>

\* A request for approval is added, or stays what it is.
AskForRecall(h) ==
    /\ At(h, "ask")
    /\ requests' = Inserted(requests, <<call[h].id, call[h].user>>, "pending")
    /\ End(h)
    /\ UNCHANGED <<now, messages, answers, told, cursor, level, policy, hidden, alerts, bot,
                   reader, bounds>>

\* An admin reviews a request, whatever its status is.
ReviewRecall(h, u, k, verdict) ==
    /\ Begin("review")
    /\ u \in Admins /\ k \in DOMAIN requests
    /\ Start(h, [Idle EXCEPT !.step = IF verdict = "approved" THEN "wipe" ELSE "settle",
                             !.op = "review", !.user = k[2], !.id = k[1], !.verdict = verdict])
    /\ UNCHANGED <<now, messages, answers, told, rules, alerts, bot, reader>>

ForceDelete(h, u, m) ==
    /\ Begin("force")
    /\ u \in Admins /\ m \in DOMAIN messages
    /\ Start(h, [Idle EXCEPT !.step = "wipe", !.op = "force", !.user = u, !.id = m])
    /\ UNCHANGED <<now, messages, answers, told, rules, alerts, bot, reader>>

\* Mutant: a forced deletion leaves the notifications.
WipeOnly(h) ==
    /\ At(h, "wipe")
    /\ messages' = [messages EXCEPT ![call[h].id].wiped = TRUE, ![call[h].id].to = "nobody"]
    /\ IF call[h].op = "force" THEN End(h) ELSE Goto(h, "withdraw")
    /\ UNCHANGED <<now, answers, told, rules, alerts, bot, reader, bounds>>

\* The message loses its mentions and attachments.
WipeMessage(h) ==
    /\ At(h, "wipe")
    /\ LET m == call[h].id IN
       /\ messages' = [messages EXCEPT ![m].wiped = TRUE, ![m].to = "nobody"]
       /\ overtaken' = IF \E g \in Workers : call[g].id = m /\ call[g].step \in {"announce", "mention"}
                       THEN overtaken \cup {m} ELSE overtaken
    /\ Goto(h, "withdraw")
    /\ UNCHANGED <<now, answers, told, rules, notes, queue, pushed, bot, reader, bounds>>

\* deleteRoomNotificationsForMessage.
WithdrawNotes(h) ==
    /\ At(h, "withdraw")
    /\ notes' = [notes EXCEPT ![call[h].id] = [u \in Users |-> 0]]
    /\ IF call[h].op = "review" THEN Goto(h, "settle") ELSE End(h)
    /\ UNCHANGED <<now, messages, answers, told, rules, queue, pushed, overtaken, bot, reader,
                   bounds>>

\* deleteRoomNotification: the recipient's own, for good.
DismissNote(u, m) ==
    /\ Begin("dismiss")
    /\ notes[m][u] > 0
    /\ notes' = [notes EXCEPT ![m][u] = 0]
    /\ UNCHANGED <<now, messages, answers, told, rules, queue, pushed, overtaken, bot, call,
                   reader>>

SettleRequest(h) ==
    /\ At(h, "settle")
    /\ requests' = [requests EXCEPT ![<<call[h].id, call[h].user>>] = call[h].verdict]
    /\ End(h)
    /\ UNCHANGED <<now, messages, answers, told, cursor, level, policy, hidden, alerts, bot,
                   reader, bounds>>

\* updateRoomSettings and updateMyRoomSettings, as far as they matter here.
SetPolicy ==
    /\ Begin("settings")
    /\ \E p \in {"disabled", "admin_approval", "time_limited"} \ {policy} : policy' = p
    /\ UNCHANGED <<now, messages, answers, told, cursor, level, requests, hidden, alerts, bot,
                   call, reader>>

SetLevel(u) ==
    /\ Begin("settings")
    /\ \E l \in {"all", "muted", "blocked"} \ {level[u]} : level' = [level EXCEPT ![u] = l]
    /\ UNCHANGED <<now, messages, answers, told, cursor, policy, requests, hidden, alerts, bot,
                   call, reader>>

\* hideMessageHistory hides one message; a batch hides them in one transaction.
HideHistory ==
    /\ Begin("hide")
    /\ \E m \in DOMAIN messages \ hidden : hidden' = hidden \cup {m}
    /\ UNCHANGED <<now, messages, answers, told, cursor, level, policy, requests, alerts, bot,
                   call, reader>>

-----------------------------------------------------------------------------
(* Paging: listMessages and listMessageHistory, for Reader's client *)

\* The client begins at the newest message.
OpenList(kind) ==
    /\ Begin("page")
    /\ reader.step = "idle"
    /\ reader' = [reader EXCEPT !.step = "page", !.kind = kind, !.start = Shown(kind),
                                !.got = {}]
    /\ UNCHANGED <<now, messages, answers, told, rules, alerts, bot, call>>

ReaderUnchanged == UNCHANGED <<now, messages, answers, told, rules, alerts, bot, call, bounds>>

\* A blocked room shows nothing: the client gives up.
PageBlocked ==
    /\ reader.step = "page" /\ level[Reader] = "blocked"
    /\ reader' = [reader EXCEPT !.step = "idle", !.before = None, !.start = {}, !.got = {}]
    /\ ReaderUnchanged

\* listMessages: the newest visible messages before the client's oldest one.
ListPage ==
    /\ reader.step = "page" /\ level[Reader] # "blocked" /\ reader.kind = "list"
    /\ LET rows == Page(OlderThan(Visible, reader.before), PageSize) IN
       reader' = IF rows = {} THEN [reader EXCEPT !.step = "done"]
                 ELSE [reader EXCEPT !.step = "more", !.got = @ \cup rows, !.before = Oldest(rows)]
    /\ ReaderUnchanged

\* A second query counts what is older than the page.
HasMore ==
    /\ reader.step = "more"
    /\ reader' = [reader EXCEPT !.step = IF OlderThan(Visible, reader.before) # {} THEN "page" ELSE "done"]
    /\ ReaderUnchanged

\* listMessageHistory scans batches until it has one message more than a page.
OpenScan ==
    /\ reader.step = "page" /\ level[Reader] # "blocked" /\ reader.kind # "list"
    /\ reader' = [reader EXCEPT !.step = "scan", !.scan = reader.before, !.found = {}]
    /\ ReaderUnchanged

ScanHistory ==
    /\ reader.step = "scan"
    /\ LET rows == Page(OlderThan(Visible \ hidden, reader.scan), ScanBatch)
           found == reader.found \cup IF reader.kind = "files" THEN {m \in rows : IsFile(m)} ELSE rows
           page == Page(found, PageSize)
           full == Cardinality(found) > PageSize
       IN reader' =
          IF full \/ Cardinality(rows) < ScanBatch
          THEN [reader EXCEPT !.step = IF full THEN "page" ELSE "done", !.got = @ \cup page,
                              !.before = IF full THEN Oldest(page) ELSE @,
                              !.scan = None, !.found = {}]
          ELSE [reader EXCEPT !.scan = Oldest(rows), !.found = found]
    /\ ReaderUnchanged

CloseList ==
    /\ reader.step = "done"
    /\ reader' = [reader EXCEPT !.step = "idle", !.before = None, !.start = {}, !.got = {}]
    /\ ReaderUnchanged

-----------------------------------------------------------------------------
\* The server restarts: the requests under way, the pushes that wait and the
\* bot's count are gone; the client asks for its page again.
Restart ==
    /\ restarts < MaxRestarts /\ restarts' = restarts + 1
    /\ call' = [h \in Workers |-> Idle]
    /\ queue' = <<>>
    /\ \E gap \in MinGap..MaxGap :
          bot' = [since |-> 0, threshold |-> gap, busy |-> FALSE, pending |-> None]
    /\ overtaken' = overtaken \cup {call[h].id : h \in {g \in Workers : At(g, "withdraw")}}
    /\ reader' = IF reader.step \in {"more", "scan"}
                 THEN [reader EXCEPT !.step = "page", !.scan = None, !.found = {}] ELSE reader
    /\ UNCHANGED <<now, messages, answers, told, rules, notes, pushed, left>>

\* Users need not ask for anything more.
Finished == /\ call = [h \in Workers |-> Idle] /\ queue = <<>> /\ reader.step = "idle"
            /\ UNCHANGED vars

\* Bound: of the users who read, hide and choose what to be notified of, one
\* is enough, the Reader: what the others do there touches nothing of his.
Request(h) ==
    \/ \E u \in Users :
          \/ \E c \in Clients, to \in Audiences : SendMessage(h, u, c, to)
          \/ \E m \in DOMAIN messages :
                \/ MarkRead(h, Reader, m)
                \/ RecallMessage(h, u, m)
                \/ ForceDelete(h, u, m)
          \/ \E k \in DOMAIN requests, v \in {"approved", "rejected"} : ReviewRecall(h, u, k, v)

Step(h) ==
    \/ InsertMessage(h) \/ Announce(h) \/ NotifyMentioned(h) \/ ObserveMessage(h) \/ Answer(h)
    \/ EnsureCursor(h) \/ AdvanceCursor(h)
    \/ AskForRecall(h) \/ WipeMessage(h) \/ WithdrawNotes(h) \/ SettleRequest(h)

Setting == SetPolicy \/ HideHistory \/ SetLevel(Reader) \/ SystemMessage(Reader)
           \/ \E m \in DOMAIN messages : DismissNote(Reader, m)

Client == \/ \E kind \in {"list", "history", "files"} : OpenList(kind)
          \/ PageBlocked \/ ListPage \/ HasMore \/ OpenScan \/ ScanHistory \/ CloseList

Next ==
    \/ Tick \/ DeliverPush \/ BotReads \/ BotReplies \/ BotPosts \/ BotRests \/ Restart \/ Setting \/ Client
    \/ \E h \in Handlers : Request(h)
    \/ \E h \in Workers : Step(h)
    \/ Finished

Spec == Init /\ [][Next]_vars

-----------------------------------------------------------------------------
(* Properties *)

\* Rows, cursors, requests under way and the reader's pages are well formed,
\* and what they refer to exists.
TypeOK ==
    /\ now \in 1..MaxClock
    /\ DOMAIN messages \subseteq Ids /\ \A m \in DOMAIN messages : messages[m] \in Message
    /\ DOMAIN answers \subseteq Users \X Clients /\ Range(answers) \subseteq DOMAIN messages
    /\ told \subseteq Users \X Clients \X (DOMAIN messages)
    /\ Range(cursor) \subseteq DOMAIN messages \cup {None}
    /\ level \in [Users -> {"all", "muted", "blocked"}]
    /\ policy \in {"disabled", "admin_approval", "time_limited"}
    /\ DOMAIN requests \subseteq (DOMAIN messages) \X Users
    /\ Range(requests) \subseteq {"pending", "approved", "rejected"}
    /\ {notes, pushed} \subseteq [Ids -> [Users -> Nat]]
    /\ Range(queue) \subseteq DOMAIN messages /\ Len(queue) <= QueueSize
    /\ bot.pending \in DOMAIN messages \cup {None} /\ bot.threshold \in MinGap..MaxGap
    /\ \A h \in Workers : call[h].id \in DOMAIN messages \cup {None}
    /\ reader.before \in DOMAIN messages \cup {None}
    /\ reader.got \cup reader.found \cup hidden \cup overtaken \subseteq DOMAIN messages
    /\ restarts \in 0..MaxRestarts

\* A message that a client sends again, because it had no answer or while the
\* first request still runs, is one row; every answer names that row; and
\* nobody is mentioned or pushed to twice for it (sendMessage).
SentOnce ==
    /\ \A u \in Users, c \in Clients : Cardinality(Existing(u, c)) <= 1
    /\ \A t \in told : Existing(t[1], t[2]) = {t[3]}
    /\ \A m \in Ids, u \in Users : notes[m][u] <= 1 /\ pushed[m][u] <= 1

\* Once a recall or a forced deletion is through, no notification shows the
\* message, unless the wipe overtook the sender, who adds the mentions after
\* the row, or a restart came before the withdrawal (applyRecall).
MentionsAreWithdrawn ==
    \A m \in DOMAIN messages :
        messages[m].wiped /\ (\E u \in Users : notes[m][u] > 0) =>
            \/ m \in overtaken
            \/ \E h \in Handlers : At(h, "withdraw") /\ call[h].id = m

\* The bot is busy exactly while a reply is under way, and a mention waits
\* only behind one: no mention is left that nothing will take up
\* (gangBot.observe and gangBot.run).
BotTakesUpMentions ==
    /\ bot.busy <=> call[Bot] # Idle
    /\ bot.pending # None => bot.busy

\* What a user has read stays read, whatever the user's devices mark at the same
\* time and whatever others send, recall or delete: only an old event of a voice
\* room that a deletion makes visible comes up again.  Nothing stops being unread
\* but by reading, and no mention but by reading or a wipe.  The newest message
\* of a room is among the unread ones when there are any, or is the user's own
\* (markRead, unreadCount, unreadMentionCount, lastMessage).
UnreadFollowsReading ==
    [][\A u \in Users : level[u] # "blocked" /\ level'[u] # "blocked" =>
          LET appeared == Visible' \ Visible
              lost == Unread(u) \ Unread(u)'
          IN  /\ Unread(u)' \ Unread(u) \subseteq appeared
              /\ lost # {} => cursor'[u] # cursor[u]
              /\ \A m \in UnreadMentions(u) \ UnreadMentions(u)' :
                    m \in lost \/ messages'[m].wiped
              /\ Unread(u)' # {} => \/ LastMessage(u)' \in Unread(u)'
                                   \/ messages'[LastMessage(u)'].sender = u]_<<cursor, messages>>

\* A client that pages back to the end has been given every message that was
\* there when it began and that its list still shows, with stamps that are
\* equal, pages cut anywhere, messages coming, going and changing meanwhile
\* (listMessages, listMessageHistory).
PagingMissesNothing ==
    reader.step = "done" => reader.start \cap Shown(reader.kind) \subseteq reader.got
=============================================================================
