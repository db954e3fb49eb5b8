----------------------------- MODULE MusicBoxRoom -----------------------------
(***************************************************************************)
(* The music box of one room: its queue and playback state in the database, *)
(* the commands of HTTP requests on them, and the player that follows them *)
(* (src/internal/musicbox/manager.go, store.go and player.go).             *)
(*                                                                         *)
(* A command runs under the room's control lock, talks to the player       *)
(* through a bounded channel, and waits until the player acknowledges,     *)
(* ends, or five seconds pass.  Removing a row takes no lock, and a track  *)
(* that is prepared starts the player from a goroutine of its own.  How    *)
(* bytes are downloaded, cached and opened is MusicBoxMedia.               *)
(***************************************************************************)
EXTENDS Integers, Sequences, FiniteSets

CONSTANTS
    Requests,       \* bound: requests at the same time
    Tracks,
    Ops,            \* the operations requests ask for
    Saved,          \* bound: tracks of a saved playlist
    Limit,          \* MaxTemporaryQueueItems
    History,        \* MaxTemporaryPlaybackHistory
    Window,         \* broadcastPrefetchWindow
    ChannelSize,    \* capacity of player.cmd
    Compact,        \* CompactProgressOnly
    MaxRequests,    \* bound: requests in a behaviour
    MaxUpsets       \* bound: time-outs, failed connections and restarts

ASSUME RoomAssumption ==
    /\ IsFiniteSet(Requests) /\ "nobody" \notin Requests
    /\ Tracks \subseteq Nat
    /\ Ops \subseteq {"enqueue", "remove", "play", "pause", "skip", "previous", "play_now", "stop",
                   "clear", "set_mode", "switch", "activate", "expire"}
    /\ {Saved, Limit, Window, ChannelSize} \subseteq Nat \ {0} /\ Limit >= 2
    /\ {History, MaxRequests, MaxUpsets} \subseteq Nat
    /\ Compact \in BOOLEAN

VARIABLES
    rows,           \* room_music_box_queue: the room's rows by id, in order of creation
    lastId,         \* ids given so far
    db,             \* room_music_box_state, without its revision
    fresh,          \* requests whose client saw the present revision
    cursor,         \* the room's play cursor: playCursors and its columns
    player,         \* the registered player: where its loop is, and what it plays
    channel,        \* player.cmd
    ending,         \* ended players whose last persistAndNotify is to come
    saving,         \* the persistAndNotify that holds persistMu, and what it read
    control,        \* holder of the room's control lock
    req,            \* requests
    wakers,         \* background calls of ensurePlaying
    seen,           \* seenCommands
    left,           \* what is left of MaxRequests and MaxUpsets
    obeyed,         \* history: how often the player skipped for the retried command
    excused         \* history: that command timed out, or its id was forgotten

vars == <<rows, lastId, db, fresh, cursor, player, channel, ending, saving, control, req, wakers,
          seen, left, obeyed, excused>>
queue == <<rows, lastId, cursor>>
history == <<obeyed, excused>>

None == 0
Temporary == 0      \* the request queue as a scope; other scopes are snapshots
Nobody == "nobody"
Modes == {"sequential", "repeat_one", "repeat_all", "shuffle"}
-----------------------------------------------------------------------------
(* store.go: the queue *)

Row == [scope : Nat, sort : Int, track : Nat, status : {"pending", "ready", "failed"}]
InScope(scope) == {i \in DOMAIN rows : rows[i].scope = scope}
IsRow(i) == i \in DOMAIN rows
Playable(i) == IsRow(i) /\ rows[i].status = "ready"

\* ORDER BY sort_order, created_at.
Before(i, j) == rows[i].sort < rows[j].sort \/ (rows[i].sort = rows[j].sort /\ i < j)
FirstOf(S) == IF S = {} THEN None ELSE CHOOSE i \in S : \A j \in S \ {i} : Before(i, j)
LastOf(S) == IF S = {} THEN None ELSE CHOOSE i \in S : \A j \in S \ {i} : Before(j, i)

FirstPlayableInScope(scope, after) ==
    FirstOf({i \in InScope(scope) : Playable(i) /\ rows[i].sort > after})
LastPlayableBefore(scope, before) ==
    LastOf({i \in InScope(scope) : Playable(i) /\ rows[i].sort < before})

NextSortOrder == IF InScope(Temporary) = {} THEN 10
                 ELSE rows[LastOf(InScope(Temporary))].sort + 10

Without(S) == [i \in DOMAIN rows \ S |-> rows[i]]

\* temporaryQueueOrderForUpdate: the place of each row in the request queue.
IndexOfQueueItem(i) == Cardinality({j \in InScope(Temporary) : Before(j, i)}) + 1
TemporaryOrder == [i \in InScope(Temporary) |-> IndexOfQueueItem(i)]

\* rewriteTemporaryQueueOrder: the rows get 10, 20, ... by their places.
Rewritten(order) ==
    [i \in DOMAIN rows |-> IF rows[i].scope # Temporary THEN rows[i]
                           ELSE [rows[i] EXCEPT !.sort = 10 * order[i]]]

\* moveTemporaryItemAfter: the target is not where it should go yet, and goes there;
\* who is behind it comes up, who is behind its new place goes down.
MustMove(target, after) == IndexOfQueueItem(target) # IndexOfQueueItem(after) + 1
MoveTemporaryItemAfter(target, after) ==
    LET PlaceWithout(i) == IF Before(target, i) THEN TemporaryOrder[i] - 1 ELSE TemporaryOrder[i]
        new == PlaceWithout(after) + 1
    IN  rows' = Rewritten([i \in InScope(Temporary) |->
                              IF i = target THEN new
                              ELSE IF PlaceWithout(i) < new THEN PlaceWithout(i)
                              ELSE PlaceWithout(i) + 1])

\* restoreTemporaryQueueOrder, which gives up when the rows are others by now.
RestoreTemporaryQueueOrder(order) ==
    rows' = IF DOMAIN order = InScope(Temporary) THEN Rewritten(order) ELSE rows
-----------------------------------------------------------------------------
(* The play cursor and the choice of rows *)

CursorAfter(scope) == IF cursor.scope = scope THEN cursor.after ELSE -1
SetCursor(scope, after) == cursor' = [scope |-> scope, after |-> after]

\* advance(nil): the persisted current row, or the first behind the cursor.
FirstItem ==
    IF Playable(db.current) THEN db.current
    ELSE FirstPlayableInScope(db.source, CursorAfter(db.source))

\* musicBoxShuffleRank is a fixed order that has nothing to do with the queue's.
ShuffledBefore(i, j) == i > j
Shuffled(prev, back) ==
    LET ready == {i \in InScope(db.source) : Playable(i)}
        first == CHOOSE i \in ready : \A j \in ready \ {i} : ShuffledBefore(i, j)
        last == CHOOSE i \in ready : \A j \in ready \ {i} : ShuffledBefore(j, i)
        from == IF prev \in ready THEN prev ELSE first
        behind == {i \in ready : ShuffledBefore(from, i)}
        ahead == {i \in ready : ShuffledBefore(i, from)}
        before == IF ahead = {} THEN last
                  ELSE CHOOSE i \in ahead : \A j \in ahead \ {i} : ShuffledBefore(j, i)
        after == IF behind = {} THEN first
                 ELSE CHOOSE i \in behind : \A j \in behind \ {i} : ShuffledBefore(i, j)
    IN  IF ready = {} THEN None ELSE IF back THEN before ELSE after

\* prefetchWindow: the current row, or the first behind the cursor, and what the
\* mode plays after it; failed rows take no place.
Upcoming ==
    LET S == InScope(db.source)
        wraps == db.mode \in {"repeat_all", "shuffle"}
        Precedes(j, i) == IF db.mode = "shuffle" THEN ShuffledBefore(j, i) ELSE Before(j, i)
        Rank(i) == Cardinality({j \in S : Precedes(j, i)})
        ahead == {i \in S : rows[i].sort > CursorAfter(db.source)}
        start == IF db.current \in S THEN Rank(db.current)
                 ELSE IF ahead # {} THEN Rank(CHOOSE i \in ahead : \A j \in ahead \ {i} : Precedes(i, j))
                 ELSE IF wraps THEN 0 ELSE Cardinality(S)
        Place(i) == IF wraps THEN (Rank(i) - start) % Cardinality(S) ELSE Rank(i) - start
        window == {i \in S : Place(i) >= 0 /\ rows[i].status # "failed"}
    IN  {i \in window : Cardinality({j \in window : Place(j) < Place(i)}) < Window}
-----------------------------------------------------------------------------
(* Types and the initial state *)

NoUndo == <<>>
Idle == [pc |-> "idle", op |-> "none", arg |-> 0, sort |-> 0, undo |-> NoUndo,
         starter |-> FALSE]
Prepared == [item |-> -1, sort |-> 0, gone |-> TRUE]     \* a waker after a download
Silent == [pc |-> "none", cur |-> None, sort |-> 0, paused |-> FALSE, then |-> "select",
           ack |-> Nobody, forced |-> FALSE]
Unlocked == [by |-> Nobody, db |-> <<>>, live |-> FALSE, overtaken |-> FALSE]
Stopped == player.pc \in {"save", "exit"} /\ player.then = "exit"
Registered == player.pc # "none"

Db == [play : {"stopped", "playing", "paused"}, current : Nat, mode : Modes, source : Nat]

\* The variables have their types; a player that is stopped plays nothing, and only
\* the holder of the control lock works on its command.
TypeOK ==
    /\ DOMAIN rows \subseteq 1 .. lastId /\ \A i \in DOMAIN rows : rows[i] \in Row
    /\ db \in Db
    /\ cursor.scope \in Nat \cup {-1} /\ cursor.after \in Int
    /\ player.pc \in {"none", "connecting", "select", "play", "idle", "save", "exit"}
    /\ Stopped \/ ~Registered => player.cur = None
    /\ player.ack \in Requests \cup {Nobody}
    /\ Len(channel) <= ChannelSize
    /\ channel # <<>> => Registered /\ ~Stopped
    /\ ending \in Nat
    /\ saving.by \in {Nobody, "player", "ended"}
    /\ saving.by = "player" => player.pc = "save"
    /\ control \in Requests \cup {Nobody}
    /\ \A r \in Requests : req[r].pc \in {"idle", "lock", "insert", "bump", "start", "starting",
                                           "delete", "send", "waiting", "orphan", "acked", "refused",
                                           "cleared", "settle"}
    /\ \A r \in Requests :
            req[r].op # "remove" /\ req[r].pc \notin {"idle", "lock"} => control = r
    /\ seen \subseteq {"skip"}

Event(kind) == left[kind] > 0 /\ left' = [left EXCEPT ![kind] = @ - 1]

\* The queue has a row that was played, or none; nothing is playing.
Init ==
    /\ rows = [i \in 1 .. 2 |-> [scope |-> Temporary, sort |-> 10 * i, track |-> i,
                                  status |-> IF i = 1 THEN "ready" ELSE "pending"]]
    /\ lastId = 2
    /\ cursor \in {[scope |-> -1, after |-> -1], [scope |-> Temporary, after |-> 10]}
    /\ db = [play |-> "stopped", current |-> None, mode |-> "sequential",
             source |-> Temporary]
    /\ fresh = {}
    /\ player = Silent
    /\ channel = <<>>
    /\ ending = 0
    /\ saving = Unlocked
    /\ control = Nobody
    /\ req = [r \in Requests |-> Idle]
    /\ wakers = {}
    /\ seen = {}
    /\ left = [requests |-> MaxRequests, upsets |-> MaxUpsets]
    /\ obeyed = 0
    /\ excused = FALSE
-----------------------------------------------------------------------------
(* player.go: the state that the manager persists *)

Snapshot(live) ==
    IF ~live \/ player.pc = "connecting" \/ player.cur = None THEN [play |-> "stopped", current |-> None]
    ELSE [play |-> IF player.paused THEN "paused" ELSE "playing", current |-> player.cur]

\* persistPlayerStateAndNotify: takes persistMu and reads the row ...
PersistRead(by) ==
    /\ saving = Unlocked
    /\ CASE by = "player" -> player.pc = "save"
         [] by = "ended" -> ending > 0
    /\ saving' = [by |-> by, db |-> db, live |-> Registered, overtaken |-> FALSE]
    /\ UNCHANGED <<queue, db, fresh, player, channel, ending, control, req, wakers, seen, left, history>>

\* ... what it makes of it ...
Persisted(st, live) ==
    LET now == Snapshot(live)
    IN  [st EXCEPT !.play = now.play, !.current = IF live THEN now.current ELSE @]

\* ... and writes it.  The player then acknowledges and goes on.
PersistWrite(by) ==
    /\ saving.by = by
    /\ db' = Persisted(saving.db, saving.live)
    /\ fresh' = IF db' # saving.db \/ (by = "player" /\ saving.live /\ player.forced) THEN {} ELSE fresh
    /\ saving' = Unlocked
    /\ IF by = "player"
       THEN /\ player' = [player EXCEPT !.pc = player.then, !.ack = Nobody, !.forced = FALSE]
            /\ req' = [r \in Requests |-> IF r = player.ack THEN [req[r] EXCEPT !.pc = "acked"]
                                          ELSE req[r]]
            /\ UNCHANGED ending
       ELSE ending' = ending - 1 /\ UNCHANGED <<player, req>>
    /\ UNCHANGED <<queue, channel, control, wakers, seen, left, history>>

\* heartbeat, once a second while a track plays, unless progress is compact.
Heartbeat ==
    /\ ~Compact
    /\ saving = Unlocked
    /\ player.pc = "play" /\ ~player.paused
    /\ db' = Persisted(db, TRUE)
    /\ db' # db
    /\ fresh' = {}
    /\ UNCHANGED <<queue, player, channel, ending, saving, control, req, wakers, seen, left, history>>

\* Mutant: persistMu is not taken.
SaveUnlocked(st) == db' = st /\ fresh' = {}

\* Every other write of the state row holds persistMu, and makes a new revision.
Save(st) == saving = Unlocked /\ db' = st /\ fresh' = {}
-----------------------------------------------------------------------------
(* player.go: the loop *)

\* setCurrent and setPriorityCurrent, which persist before anything else happens.
PlayerSaves(fields, then, ack) ==
    player' = [player EXCEPT !.pc = "save", !.cur = fields.cur, !.sort = fields.sort,
                             !.paused = fields.paused, !.forced = fields.forced,
                             !.then = then, !.ack = ack]
Playing(i, sort) == [cur |-> i, sort |-> sort, paused |-> player.paused, forced |-> FALSE]
Nothing == [cur |-> None, sort |-> 0, paused |-> player.paused, forced |-> FALSE]

\* advance(nil).
Select ==
    /\ player.pc = "select"
    /\ IF FirstItem # None
       THEN PlayerSaves(Playing(FirstItem, rows[FirstItem].sort), "play", Nobody)
       ELSE IF player.cur # None
       THEN PlayerSaves(Nothing, "idle", Nobody)
       ELSE player' = [player EXCEPT !.pc = "idle"]
    /\ UNCHANGED <<queue, db, fresh, channel, ending, saving, control, req, wakers, seen, left, history>>

\* pruneTemporaryHistory.
Pruned(through) ==
    LET played == {i \in InScope(Temporary) : rows[i].sort <= through}
    IN  Without({i \in played :
                    Cardinality({j \in played \ {i} : Before(i, j)}) >= History})

PlayNext(i, ack) ==
    PlayerSaves(IF i = None THEN Nothing
                ELSE Playing(i, IF i = player.cur THEN player.sort ELSE rows[i].sort),
                IF i = None THEN "select" ELSE "play", ack)

\* nextItem after the current row; late: more than three seconds of it were played.
Forward(transition) == transition # "previous"
Repeats(transition) == transition = "natural" /\ db.mode = "repeat_one"
After(transition, late) ==
    LET behind == FirstPlayableInScope(db.source, player.sort)
        ahead == LastPlayableBefore(db.source, player.sort)
    IN  IF (~Forward(transition) /\ late) \/ (db.mode # "shuffle" /\ Repeats(transition))
        THEN player.cur
        ELSE IF db.mode = "shuffle" THEN Shuffled(player.cur, ~Forward(transition))
        ELSE IF ~Forward(transition) THEN (IF ahead = None THEN player.cur ELSE ahead)
        ELSE IF behind = None /\ db.mode = "repeat_all" THEN FirstPlayableInScope(db.source, -1)
        ELSE behind

NextItem(transition, late, ack) ==
    LET passes == Forward(transition) /\ ~Repeats(transition) /\ db.mode # "shuffle"
        restarts == db.mode = "repeat_all" /\ FirstPlayableInScope(db.source, player.sort) = None
    IN  /\ PlayNext(After(transition, late), ack)
        /\ IF passes THEN SetCursor(db.source, IF restarts THEN -1 ELSE player.sort)
           ELSE UNCHANGED cursor
        /\ rows' = IF passes /\ ~restarts /\ db.source = Temporary THEN Pruned(player.sort)
                   ELSE rows

\* The track is played to its end, or cannot be read any further.
TrackEnds ==
    /\ player.pc = "play" /\ ~player.paused
    /\ NextItem("natural", FALSE, Nobody)
    /\ UNCHANGED <<lastId, db, fresh, channel, ending, saving, control, req, wakers, seen, left, history>>

\* close(ack): whoever waits for it goes on.
Acknowledge(r) ==
    req' = [q \in Requests |-> IF q = r THEN [req[q] EXCEPT !.pc = "acked"] ELSE req[q]]

\* Mutants: the current row is not forgotten; done is not closed.
DisconnectPlaying(ack) ==
    /\ player' = [player EXCEPT !.pc = "save", !.then = "exit", !.ack = Nobody]
    /\ channel' = <<>>
    /\ req' = [r \in Requests |->
                  IF r = ack THEN [req[r] EXCEPT !.pc = "acked"]
                  ELSE IF req[r].pc \in {"send", "waiting"} THEN [req[r] EXCEPT !.pc = "refused"]
                  ELSE req[r]]
    /\ UNCHANGED <<rows, cursor, obeyed>>
DisconnectSilently(ack) ==
    /\ player' = [Silent EXCEPT !.pc = "save", !.then = "exit"]
    /\ channel' = <<>>
    /\ Acknowledge(ack)
    /\ UNCHANGED <<rows, cursor, obeyed>>

\* disconnect: nothing is current any more, and everybody who still waits is told.
Disconnect(ack) ==
    /\ player' = [Silent EXCEPT !.pc = "save", !.then = "exit"]
    /\ channel' = <<>>
    /\ req' = [r \in Requests |->
                  IF r = ack THEN [req[r] EXCEPT !.pc = "acked"]
                  ELSE IF req[r].pc \in {"send", "waiting"} THEN [req[r] EXCEPT !.pc = "refused"]
                  ELSE req[r]]
    /\ UNCHANGED <<rows, cursor, obeyed>>

\* What each command does to the loop while a track plays (handlePlaybackCommand).
Obey(c, late) ==
    CASE c.kind = "stop" -> Disconnect(c.from)
      [] c.kind \in {"skip", "previous"} ->
            /\ NextItem(IF c.kind = "skip" THEN "next" ELSE "previous", late, c.from)
            /\ obeyed' = IF c.retried THEN obeyed + 1 ELSE obeyed
            /\ channel' = Tail(channel)
            /\ UNCHANGED req
      [] c.kind = "play_now" ->
            /\ PlayerSaves([cur |-> c.item, sort |-> c.sort, paused |-> FALSE, forced |-> TRUE],
                           "play", c.from)
            /\ channel' = Tail(channel)
            /\ UNCHANGED <<rows, cursor, req, obeyed>>
      [] c.kind \in {"pause", "resume"} /\ player.paused # (c.kind = "pause") ->
            /\ PlayerSaves([cur |-> player.cur, sort |-> player.sort, forced |-> FALSE,
                            paused |-> c.kind = "pause"], "play", c.from)
            /\ channel' = Tail(channel)
            /\ UNCHANGED <<rows, cursor, req, obeyed>>
      [] OTHER ->
            /\ Acknowledge(c.from)
            /\ channel' = Tail(channel)
            /\ UNCHANGED <<rows, cursor, player, obeyed>>

Take ==
    /\ player.pc = "play"
    /\ channel # <<>>
    /\ \E late \in BOOLEAN : Obey(Head(channel), late)
    /\ UNCHANGED <<lastId, db, fresh, ending, saving, control, wakers, seen, left, excused>>

\* idleWait: anything but stop and play_now only makes it look at the queue again.
TakeIdle ==
    /\ player.pc = "idle"
    /\ channel # <<>>
    /\ LET c == Head(channel) IN
        CASE c.kind = "stop" -> Disconnect(c.from)
          [] c.kind = "play_now" ->
                /\ PlayerSaves([cur |-> c.item, sort |-> c.sort, paused |-> FALSE,
                                forced |-> TRUE], "select", c.from)
                /\ channel' = Tail(channel)
                /\ UNCHANGED <<rows, cursor, req, obeyed>>
          [] OTHER ->
                /\ player' = [player EXCEPT !.pc = "select"]
                /\ Acknowledge(c.from)
                /\ channel' = Tail(channel)
                /\ UNCHANGED <<rows, cursor, obeyed>>
    /\ UNCHANGED <<lastId, db, fresh, ending, saving, control, wakers, seen, left, excused>>

\* Thirty seconds without anything to play.
IdleTimeout ==
    /\ player.pc = "idle"
    /\ Disconnect(Nobody)
    /\ UNCHANGED <<lastId, db, fresh, ending, saving, control, wakers, seen, left, excused>>

\* run has returned: the player is forgotten, and its last persist is to come.
Exit ==
    /\ player.pc = "exit"
    /\ player' = Silent
    /\ ending' = ending + 1
    /\ UNCHANGED <<queue, db, fresh, channel, saving, control, req, wakers, seen, left, history>>
-----------------------------------------------------------------------------
(* manager.go: starting a player (ensurePlayingItem) *)

StartLockFree == player.pc # "connecting" /\ \A r \in Requests : ~req[r].starter
Command(kind, item, from) ==
    [kind |-> kind, item |-> item, sort |-> IF from = Nobody THEN 0 ELSE req[from].sort,
     from |-> from, retried |-> kind = "skip" /\ req[from].op = "skip"]

\* send: what nobody waits for is dropped when the channel is full.
Offer(c) == channel' = IF Stopped \/ Len(channel) = ChannelSize THEN channel
                       ELSE Append(channel, c)
Wake == Offer(Command("wake", None, Nobody))

\* A new player is registered before it connects.
Register(preferred, sort, by) ==
    player' = [Silent EXCEPT !.pc = "connecting", !.cur = preferred, !.sort = sort, !.ack = by]

Initial(preferred) ==
    IF preferred # None THEN preferred
    ELSE FirstPlayableInScope(db.source, CursorAfter(db.source))

\* A request starts the player; with nothing to play, downloads are asked for instead.
Start(r) ==
    /\ req[r].pc = "start"
    /\ StartLockFree
    /\ LET preferred == IF req[r].op = "play_now" THEN req[r].arg ELSE None IN
        IF Registered /\ preferred # None
        THEN /\ req' = [req EXCEPT ![r].pc = "send", ![r].starter = TRUE]
             /\ UNCHANGED <<player, channel>>
        ELSE IF Registered
        THEN Wake /\ req' = [req EXCEPT ![r].pc = "acked"] /\ UNCHANGED player
        ELSE IF Initial(preferred) = None
        THEN req' = [req EXCEPT ![r].pc = "acked"] /\ UNCHANGED <<player, channel>>
        ELSE /\ Register(preferred, req[r].sort, r)
             /\ req' = [req EXCEPT ![r].pc = "starting"]
             /\ UNCHANGED channel
    /\ UNCHANGED <<queue, db, fresh, ending, saving, control, wakers, seen, left, history>>

\* A track was prepared: make sure that the room plays.
StartPrepared ==
    /\ Prepared \in wakers
    /\ StartLockFree
    /\ IF Registered THEN Wake /\ UNCHANGED player
       ELSE /\ IF Initial(None) = None THEN UNCHANGED player ELSE Register(None, 0, Nobody)
            /\ UNCHANGED channel
    /\ wakers' = wakers \ {Prepared}
    /\ UNCHANGED <<queue, db, fresh, ending, saving, control, req, seen, left, history>>

\* After a switch of the source: once the old player is gone, or not at all
\* (waitForPlayerStop).
PlayerIsGone(w) ==
    /\ w \in wakers
    /\ ~w.gone
    /\ ~Registered
    /\ wakers' = (wakers \ {w}) \cup {[w EXCEPT !.gone = TRUE]}
    /\ UNCHANGED <<queue, db, fresh, player, channel, ending, saving, control, req, seen, left, history>>

CleanupTimesOut(w) ==
    /\ w \in wakers
    /\ ~w.gone
    /\ Registered
    /\ wakers' = wakers \ {w}
    /\ UNCHANGED <<queue, db, fresh, player, channel, ending, saving, control, req, seen, left, history>>

\* Somebody else may have started a player meanwhile, which is then sent the row.
\* What this goroutine does with the answer, or without one, changes nothing.
StartSwitched(w) ==
    /\ w \in wakers \ {Prepared}
    /\ w.gone
    /\ StartLockFree
    /\ IF Registered
       THEN /\ IF w.item = None THEN Wake
               ELSE Offer([Command("play_now", w.item, Nobody) EXCEPT !.sort = w.sort])
            /\ UNCHANGED player
       ELSE /\ IF Initial(w.item) = None THEN UNCHANGED player ELSE Register(w.item, w.sort, Nobody)
            /\ UNCHANGED channel
    /\ wakers' = wakers \ {w}
    /\ UNCHANGED <<queue, db, fresh, ending, saving, control, req, seen, left, history>>

\* The player is connected: what is preferred is current before it runs.
Connect ==
    /\ player.pc = "connecting"
    /\ IF player.cur = None
       THEN /\ player' = [player EXCEPT !.pc = "select", !.ack = Nobody]
            /\ Acknowledge(player.ack)
       ELSE /\ player' = [player EXCEPT !.pc = "save", !.then = "play"]
            /\ UNCHANGED req
    /\ UNCHANGED <<queue, db, fresh, channel, ending, saving, control, wakers, seen, left, history>>

\* Whoever has sent to it meanwhile is never answered.
ConnectFails ==
    /\ player.pc = "connecting"
    /\ Event("upsets")
    /\ req' = [r \in Requests |->
                  IF r = player.ack THEN [req[r] EXCEPT !.pc = "refused"]
                  ELSE IF req[r].pc \in {"send", "waiting"} THEN [req[r] EXCEPT !.pc = "orphan"]
                  ELSE req[r]]
    /\ player' = Silent
    /\ channel' = <<>>
    /\ UNCHANGED <<queue, db, fresh, ending, saving, control, wakers, seen, history>>
-----------------------------------------------------------------------------
(* manager.go: requests *)

Arguments(op) ==
    CASE op = "enqueue" -> Tracks
      [] op \in {"remove", "play_now"} -> DOMAIN rows
      [] op = "set_mode" -> Modes
      [] op = "switch" -> {None} \cup DOMAIN rows    \* to the request queue, from a row
      [] op = "activate" -> 0 .. Saved               \* a playlist, from one of its tracks
      [] OTHER -> {None}

\* A client asks, from the revision it sees.
Arrive(r, op, arg) ==
    /\ req[r].pc = "idle"
    /\ Event("requests")
    /\ req' = [req EXCEPT ![r] = [Idle EXCEPT !.pc = "lock", !.op = op, !.arg = arg]]
    /\ fresh' = fresh \cup (IF op \in {"clear", "set_mode"} THEN {r} ELSE {})
    /\ UNCHANGED <<queue, db, player, channel, ending, saving, control, wakers, seen, history>>

Finish(r) ==
    /\ req' = [req EXCEPT ![r] = Idle]
    /\ control' = IF control = r THEN Nobody ELSE control

\* A request has the control lock, and no client's retry of it was remembered.
Begins(r, ops) == req[r].pc = "lock" /\ req[r].op \in ops /\ control = Nobody /\ req[r].op \notin seen

\* What follows goes through the player, or straight to the effect without one.
ThroughPlayer(r, else) ==
    /\ control' = r
    /\ req' = [req EXCEPT ![r].pc = IF Registered THEN "send" ELSE else]

\* seenCommands: the retry of a command that succeeded does nothing.
Replay(r) ==
    /\ req[r].pc = "lock" /\ control = Nobody /\ req[r].op \in seen
    /\ Finish(r)
    /\ UNCHANGED <<queue, db, fresh, player, channel, ending, saving, wakers, seen, left, history>>

\* Enqueue: duplicates and a full queue are refused ...
BeginEnqueue(r) ==
    /\ Begins(r, {"enqueue"})
    /\ IF \/ \E i \in InScope(Temporary) : rows[i].track = req[r].arg
          \/ Cardinality(InScope(Temporary)) >= Limit
       THEN Finish(r)
       ELSE /\ control' = r
            /\ req' = [req EXCEPT ![r].pc = "insert", ![r].sort = NextSortOrder]
    /\ UNCHANGED <<queue, db, fresh, player, channel, ending, saving, wakers, seen, left, history>>

\* ... and the row joins behind the queue and the cursor.
Insert(r) ==
    /\ req[r].pc = "insert"
    /\ LET after == CursorAfter(Temporary)
           sort == IF req[r].sort <= after THEN after + 10 ELSE req[r].sort
       IN  rows' = [i \in DOMAIN rows \cup {lastId + 1} |->
                        IF i \in DOMAIN rows THEN rows[i]
                        ELSE [scope |-> Temporary, sort |-> sort, track |-> req[r].arg,
                              status |-> "pending"]]
    /\ lastId' = lastId + 1
    /\ req' = [req EXCEPT ![r].pc = "bump"]
    /\ UNCHANGED <<db, fresh, cursor, player, channel, ending, saving, control, wakers, seen, left, history>>

\* bumpRevision, the last thing that Enqueue and RemoveItem do.
Bump(r) ==
    /\ req[r].pc = "bump" \/ (req[r].pc = "acked" /\ req[r].op = "remove")
    /\ Save(db)
    /\ Finish(r)
    /\ UNCHANGED <<queue, player, channel, ending, saving, wakers, seen, left, history>>

\* Pausing needs a player; playing and moving on start one.
BeginTransport(r) ==
    /\ Begins(r, {"play", "pause", "skip", "previous"})
    /\ ThroughPlayer(r, IF req[r].op = "pause" THEN "acked" ELSE "start")
    /\ UNCHANGED <<queue, db, fresh, player, channel, ending, saving, wakers, seen, left, history>>

\* playNow: a playable row of the active queue; in the request queue it moves
\* behind the row it interrupts.
BeginPlayNow(r) ==
    /\ Begins(r, {"play_now"})
    /\ LET item == req[r].arg
           now == IF Registered THEN Snapshot(TRUE).current
                  ELSE IF db.play = "stopped" THEN None ELSE db.current
           interrupts == db.source = Temporary /\ now \notin {None, item}
           moves == interrupts /\ now \in InScope(Temporary) /\ MustMove(item, now)
       IN  IF \/ ~Playable(item) \/ rows[item].scope # db.source
              \/ interrupts /\ now \notin InScope(Temporary)
           THEN Finish(r) /\ UNCHANGED rows
           ELSE /\ IF moves THEN MoveTemporaryItemAfter(item, now) ELSE UNCHANGED rows
                /\ control' = r
                /\ req' = [req EXCEPT ![r].pc = IF Registered THEN "send" ELSE "start",
                                      ![r].sort = rows'[item].sort,
                                      ![r].undo = IF moves THEN TemporaryOrder ELSE NoUndo]
    /\ UNCHANGED <<lastId, db, fresh, cursor, player, channel, ending, saving, wakers, seen, left, history>>

\* Clearing and setting the mode are for the revision the client saw.
BeginGuarded(r) ==
    /\ Begins(r, {"clear", "set_mode"})
    /\ IF r \notin fresh THEN Finish(r)
       ELSE IF req[r].op = "clear" /\ db.source = Temporary THEN ThroughPlayer(r, "acked")
       ELSE control' = r /\ req' = [req EXCEPT ![r].pc = "acked"]
    /\ fresh' = fresh \ {r}
    /\ UNCHANGED <<queue, db, player, channel, ending, saving, wakers, seen, left, history>>

\* stopRoom, ActivatePlaylist and clearExpiredRoomPlayback stop the player first.
BeginStopping(r) ==
    /\ Begins(r, {"stop", "switch", "activate", "expire"})
    /\ IF req[r].op = "switch" /\ req[r].arg # None
          /\ (~Playable(req[r].arg) \/ rows[req[r].arg].scope # Temporary)
       THEN Finish(r)
       ELSE /\ control' = r
            /\ req' = [req EXCEPT ![r].pc = IF Registered THEN "send" ELSE "acked",
                                  ![r].sort = IF req[r].op = "stop"
                                              THEN IF Registered THEN Snapshot(TRUE).current ELSE None
                                              ELSE IF req[r].op = "switch" /\ req[r].arg # None
                                              THEN rows[req[r].arg].sort ELSE 0]
    /\ UNCHANGED <<queue, db, fresh, player, channel, ending, saving, wakers, seen, left, history>>

\* RemoveItem takes no lock: it looks whether the row is playing ...
BeginRemove(r) ==
    /\ req[r].pc = "lock" /\ req[r].op = "remove"
    /\ req' = [req EXCEPT ![r].pc = "delete",
                         ![r].sort = IF Registered THEN Snapshot(TRUE).current ELSE None]
    /\ UNCHANGED <<queue, db, fresh, player, channel, ending, saving, control, wakers, seen, left, history>>

\* ... deletes it, and then has the player skip.
Remove(r) ==
    /\ req[r].pc = "delete"
    /\ rows' = Without({req[r].arg})
    /\ req' = [req EXCEPT ![r].pc = IF req[r].sort = req[r].arg THEN "send" ELSE "acked", ![r].sort = 0]
    /\ UNCHANGED <<lastId, db, fresh, cursor, player, channel, ending, saving, control, wakers, seen, left, history>>
-----------------------------------------------------------------------------
(* player.go: sendCommandAndWait *)

Kind(op) ==
    CASE op \in {"stop", "clear", "switch", "activate", "expire"} -> "stop"
      [] op = "remove" -> "skip"
      [] op = "play" -> "resume"
      [] OTHER -> op

\* A control waits for room in the channel; a player that ends tells it (Disconnect).
Send(r) ==
    /\ req[r].pc = "send"
    /\ IF Stopped \/ ~Registered
       THEN req' = [req EXCEPT ![r].pc = "refused"] /\ UNCHANGED channel
       ELSE /\ Len(channel) < ChannelSize
            /\ channel' = Append(channel, Command(Kind(req[r].op), req[r].arg, r))
            /\ req' = [req EXCEPT ![r].pc = "waiting"]
    /\ UNCHANGED <<queue, db, fresh, player, ending, saving, control, wakers, seen, left, history>>

\* Five seconds have passed.  What was sent stays in the channel.
GiveUp(r) ==
    /\ channel' = [n \in DOMAIN channel |-> IF channel[n].from = r
                                           THEN [channel[n] EXCEPT !.from = Nobody] ELSE channel[n]]
    /\ player' = [player EXCEPT !.ack = IF @ = r /\ player.pc # "connecting" THEN Nobody ELSE @]
    /\ req' = [req EXCEPT ![r].pc = "refused"]
TimeOut(r) ==
    /\ req[r].pc \in {"send", "waiting"}
    /\ Event("upsets")
    /\ GiveUp(r)
    /\ excused' = (excused \/ req[r].op = "skip")
    /\ UNCHANGED <<queue, db, fresh, ending, saving, control, wakers, seen, obeyed>>
OrphanTimesOut(r) ==
    /\ req[r].pc = "orphan"
    /\ GiveUp(r)
    /\ UNCHANGED <<queue, db, fresh, ending, saving, control, wakers, seen, left, history>>

\* The player has refused or not answered: a reordered queue is restored.
Fail(r) ==
    /\ req[r].pc = "refused"
    /\ IF req[r].undo # NoUndo THEN RestoreTemporaryQueueOrder(req[r].undo) ELSE UNCHANGED rows
    /\ Finish(r)
    /\ UNCHANGED <<lastId, db, fresh, cursor, player, channel, ending, saving, wakers, seen, left, history>>

\* Mutant: the command's id is not remembered.
SucceedForgetful(r) ==
    /\ req[r].pc = "acked"
    /\ req[r].op \in {"play", "pause", "skip", "previous", "play_now"}
    /\ Finish(r)
    /\ UNCHANGED <<queue, db, fresh, player, channel, ending, saving, wakers, seen, left, history>>

\* The command has had its effect.  A client may ask for it again.
Succeed(r) ==
    /\ req[r].pc = "acked"
    /\ req[r].op \in {"play", "pause", "skip", "previous", "play_now"}
    /\ seen' = IF req[r].op = "skip" THEN seen \cup {"skip"} ELSE seen
    /\ Finish(r)
    /\ UNCHANGED <<queue, db, fresh, player, channel, ending, saving, wakers, left, history>>
-----------------------------------------------------------------------------
(* manager.go: what is written once the player has stopped *)

\* stopRoom keeps the row that was playing as the current one.
StopRoom(r) ==
    /\ req[r].pc = "acked" /\ req[r].op = "stop"
    /\ Save([db EXCEPT !.play = "stopped", !.current = IF req[r].sort # None THEN req[r].sort ELSE @])
    /\ Finish(r)
    /\ UNCHANGED <<queue, player, channel, ending, saving, wakers, seen, left, history>>

\* clearTemporaryQueue: the rows go ...
DeleteTemporaryQueue(r) ==
    /\ req[r].pc = "acked" /\ req[r].op = "clear"
    /\ rows' = Without(InScope(Temporary))
    /\ req' = [req EXCEPT ![r].pc = "cleared"]
    /\ UNCHANGED <<lastId, db, fresh, cursor, player, channel, ending, saving, control, wakers, seen, left, history>>

\* ... and the state follows.
ClearTemporaryQueue(r) ==
    /\ req[r].pc = "cleared"
    /\ Save(IF db.source = Temporary THEN [db EXCEPT !.play = "stopped", !.current = None] ELSE db)
    /\ Finish(r)
    /\ UNCHANGED <<queue, player, channel, ending, saving, wakers, seen, left, history>>

\* setPlaybackMode: the request queue is neither repeated nor shuffled.
SetPlaybackMode(r) ==
    /\ req[r].pc = "acked" /\ req[r].op = "set_mode"
    /\ IF \/ db.source = Temporary /\ req[r].arg \in {"repeat_all", "shuffle"}
          \/ db.mode = req[r].arg
       THEN saving = Unlocked /\ UNCHANGED <<db, fresh>>
       ELSE Save([db EXCEPT !.mode = req[r].arg])
    /\ Finish(r)
    /\ UNCHANGED <<queue, player, channel, ending, saving, wakers, seen, left, history>>

\* ActivatePlaylist: the rows of a new snapshot, then the state that refers to it ...
Activate(r) ==
    /\ req[r].pc = "acked" /\ req[r].op \in {"switch", "activate"}
    /\ LET new == IF req[r].op = "activate" THEN lastId + 1 .. lastId + Saved ELSE {}
           source == IF req[r].op = "activate" THEN lastId + 1 ELSE Temporary
       IN  /\ rows' = [i \in DOMAIN rows \cup new |->
                          IF i \in DOMAIN rows THEN rows[i]
                          ELSE [scope |-> source, sort |-> 10 * (i - lastId), track |-> i - lastId,
                                status |-> "pending"]]
           /\ lastId' = IF new = {} THEN lastId ELSE lastId + Saved
           /\ Save([db EXCEPT !.play = "stopped", !.current = None, !.source = source,
                              !.mode = IF source = Temporary /\ @ \in {"repeat_all", "shuffle"}
                                       THEN "sequential" ELSE @])
    /\ req' = [req EXCEPT ![r].pc = "settle"]
    /\ UNCHANGED <<cursor, player, channel, ending, saving, control, wakers, seen, left, history>>

\* ... the cursor, and the end of the other snapshots; then the room plays.
Settle(r) ==
    /\ req[r].pc = "settle"
    /\ SetCursor(db.source, IF req[r].op = "activate" /\ req[r].arg # 0
                            THEN 10 * req[r].arg - 1 ELSE -1)
    /\ rows' = Without({i \in DOMAIN rows : rows[i].scope \notin {Temporary, db.source}})
    /\ wakers' = wakers \cup {[item |-> IF req[r].op = "switch" THEN req[r].arg ELSE None,
                               sort |-> IF req[r].op = "switch" THEN req[r].sort ELSE 0,
                               gone |-> FALSE]}
    /\ Finish(r)
    /\ UNCHANGED <<lastId, db, fresh, player, channel, ending, saving, seen, left, history>>

\* expireRoomPlayback: one transaction, which does not ask for persistMu.
Expire(r) ==
    /\ req[r].pc = "acked" /\ req[r].op = "expire"
    /\ LET reset == [db EXCEPT !.play = "stopped", !.current = None, !.mode = "sequential",
                               !.source = Temporary]
       IN  IF DOMAIN rows = {} /\ reset = db
           THEN UNCHANGED <<rows, db, fresh, cursor, saving, seen, excused>>
           ELSE /\ rows' = <<>>
                /\ db' = reset
                /\ fresh' = {}
                /\ cursor' = [scope |-> -1, after |-> -1]
                /\ saving' = [saving EXCEPT !.overtaken = saving # Unlocked]
                /\ seen' = {}
                /\ excused' = TRUE
    /\ Finish(r)
    /\ UNCHANGED <<lastId, player, channel, ending, wakers, left, obeyed>>
-----------------------------------------------------------------------------
(* The rest of the server *)

\* process: a row in the room's window is prepared, or is not; MusicBoxMedia has more.
Process(i, outcome) ==
    /\ i \in Upcoming
    /\ rows[i].status = "pending"
    /\ rows' = [rows EXCEPT ![i].status = outcome]
    /\ Save(db)
    /\ wakers' = IF outcome = "ready" THEN wakers \cup {Prepared} ELSE wakers
    /\ UNCHANGED <<lastId, cursor, player, channel, ending, saving, control, req, seen, left, history>>

\* Mutant: the states of the rooms stay as they were.
RestartPlaying ==
    /\ Event("upsets")
    /\ UNCHANGED db
    /\ fresh' = {}
    /\ player' = Silent /\ channel' = <<>> /\ ending' = 0 /\ saving' = Unlocked
    /\ control' = Nobody /\ req' = [r \in Requests |-> Idle] /\ wakers' = {} /\ seen' = {}
    /\ excused' = TRUE
    /\ UNCHANGED <<queue, obeyed>>

\* The server starts again: resetPlaybackOnStartup.
Restart ==
    /\ Event("upsets")
    /\ db' = [db EXCEPT !.play = "stopped"]
    /\ fresh' = {}
    /\ player' = Silent /\ channel' = <<>> /\ ending' = 0 /\ saving' = Unlocked
    /\ control' = Nobody /\ req' = [r \in Requests |-> Idle] /\ wakers' = {} /\ seen' = {}
    /\ excused' = TRUE
    /\ UNCHANGED <<queue, obeyed>>
-----------------------------------------------------------------------------
(* The specification *)

PlayerStep == Select \/ Take \/ TakeIdle \/ Exit \/ Connect
Continue(r) ==
    \/ Start(r) \/ Send(r) \/ OrphanTimesOut(r) \/ Fail(r) \/ Succeed(r) \/ Insert(r)
    \/ Remove(r) \/ Bump(r) \/ StopRoom(r) \/ DeleteTemporaryQueue(r) \/ ClearTemporaryQueue(r)
    \/ SetPlaybackMode(r) \/ Activate(r) \/ Settle(r) \/ Expire(r)
Begin(r) ==
    \/ Replay(r) \/ BeginEnqueue(r) \/ BeginTransport(r) \/ BeginPlayNow(r)
    \/ BeginGuarded(r) \/ BeginStopping(r) \/ BeginRemove(r)

Next ==
    \/ \E r \in Requests : \E op \in Ops : \E arg \in Arguments(op) : Arrive(r, op, arg)
    \/ \E r \in Requests : Begin(r) \/ Continue(r) \/ TimeOut(r)
    \/ PlayerStep \/ TrackEnds \/ IdleTimeout \/ Heartbeat
    \/ \E by \in {"player", "ended"} : PersistRead(by) \/ PersistWrite(by)
    \/ StartPrepared
    \/ \E w \in wakers : PlayerIsGone(w) \/ CleanupTimesOut(w) \/ StartSwitched(w)
    \/ ConnectFails
    \/ \E i \in DOMAIN rows : \E outcome \in {"ready", "failed"} : Process(i, outcome)
    \/ Restart

Spec == Init /\ [][Next]_vars

\* Goroutines that can run do.  A mutex is handed on to who waits for it, and the loop
\* looks at its channel before and after each packet.
Fairness ==
    /\ \A r \in Requests : SF_vars(Begin(r)) /\ SF_vars(Continue(r))
    /\ SF_vars(PlayerStep)
    /\ \A by \in {"player", "ended"} : SF_vars(PersistRead(by)) /\ WF_vars(PersistWrite(by))
FairSpec == Spec /\ Fairness
-----------------------------------------------------------------------------
(* Properties *)

\* A room whose player is gone for good is not shown as playing or paused: every end
\* of a player is persisted after it, whatever was being written when it ended
\* (run's deferred disconnect, ensurePlayingItem's goroutine, resetPlaybackOnStartup).
SilentRoomsAreStopped ==
    ~Registered /\ ending = 0 /\ saving = Unlocked => db.play = "stopped"

\* No write of the state is lost: what a player writes is made from the state as it is,
\* unless expireRoomPlayback wrote it meanwhile, which does not hold persistMu
\* (persistPlayerStateAndNotify and every command that writes the state).
UpdatesAreNotLost == saving # Unlocked => saving.db = db \/ saving.overtaken

\* One command id moves the player at most one track on, unless it timed out before.
SkipsOncePerCommand == obeyed <= 1 \/ excused

\* The request queue has no track twice and no more than its limit of rows.
RequestsAreDistinct ==
    /\ Cardinality(InScope(Temporary)) <= Limit
    /\ \A i, j \in InScope(Temporary) : rows[i].track = rows[j].track => i = j

\* What is asked for twice is done once, whatever requests run at the same time: a skip
\* by its command id (seenCommands), a track by the queue (Enqueue's control lock).
DoneOnce == SkipsOncePerCommand /\ RequestsAreDistinct

\* Every command of a client is answered.
CommandsAreAnswered == \A r \in Requests : req[r].pc # "idle" ~> req[r].pc = "idle"

\* What is said of a request that joins the queue: it is behind the playback position,
\* or it would never be downloaded or played (Enqueue).
Position ==
    IF player.cur # None /\ db.source = Temporary THEN player.sort ELSE CursorAfter(Temporary)
JoinsAfterPlayback ==
    [][\A i \in DOMAIN rows' \ DOMAIN rows : rows'[i].scope = Temporary => rows'[i].sort > Position]_vars
=============================================================================
