--------------------------- MODULE MusicBoxMedia ---------------------------
(***************************************************************************)
(* The media pipeline of the room music box (src/internal/musicbox): the   *)
(* download pump of manager.go, the process workers it starts, the shared  *)
(* broadcast cache of media_cache.go with its per-track lock, leases and   *)
(* LRU cleanup, the registry of growing transcodes of media_stream.go, and *)
(* the room players as readers of all of it.                               *)
(*                                                                         *)
(* A queue row is one of Items, with one of the rooms' tracks.  Every room *)
(* plays a saved playlist of at most Prefetch rows in shuffle mode, so the *)
(* prefetch window wraps around its whole queue and the player may go from *)
(* any row to any other; the order of rows is not modelled.  Files have    *)
(* one size, and a database statement is one atomic step.  Each goroutine  *)
(* is a program counter, and a step ends where another goroutine may come  *)
(* in: at a database call, a file operation or a lock.                     *)
(***************************************************************************)
EXTENDS Integers, FiniteSets, SequencesExt

CONSTANTS
    Rooms, Items, Tracks, Workers, None,
    Visited,        \* the rooms where somebody presses play
    Listening,      \* the rooms among them that have a running player
    RoomOf,         \* the room an item is requested in
    TrackOf,        \* the cache key (source, track, bitrate) of an item
    Prefetch,       \* broadcastPrefetchWindow, the longest queue here
    FileBytes,      \* size of one prepared track
    CacheMaxBytes,  \* cfg.CacheMaxBytes
    RoomMaxBytes,   \* cfg.MaxBytesPerRoom
    Faulty,         \* the database statements of process and pumpRoom that may fail
    MaxUpsets       \* bound: removals, failed statements and restarts together

NoItem == 0

ASSUME ItemAssumption ==
    /\ Items \subseteq Nat \ {0}
    /\ RoomOf \in [Items -> Rooms]
    /\ TrackOf \in [Items -> Tracks]
    /\ Listening \subseteq Visited /\ Visited \subseteq Rooms
    /\ None \notin Workers \cup Tracks \cup Rooms
    /\ IsFiniteSet(Items)
    /\ \A r \in Rooms : Cardinality({i \in Items : RoomOf[i] = r}) <= Prefetch

ASSUME SizeAssumption ==
    /\ {Prefetch, FileBytes, CacheMaxBytes, RoomMaxBytes, MaxUpsets} \subseteq Nat
    /\ Faulty \subseteq {"getItem", "markReady", "markFailed", "setStatus", "pump"}

VARIABLES
    row,        \* status of each queue row
    current,    \* current_item_id of each room's persisted state
    disk,       \* finished cache files, oldest modification time first
    streams,    \* m.streams: the worker whose transcode a track streams from
    lease,      \* m.cacheLeases
    worker,     \* process goroutines
    pump,       \* the pumpRoom call that holds pumpMu
    pumps,      \* rooms with a pumpRoom goroutine waiting for pumpMu
    player,     \* each room's player as a reader
    cleaner,    \* the cleanupBroadcastCache call that holds cacheCleanupMu
    cleanups,   \* a background cleanup is waiting for cacheCleanupMu
    stuck,      \* history: rows whose process could not write their last status
    upsets      \* what is left of MaxUpsets

vars == <<row, current, disk, streams, lease, worker, pump, pumps,
          player, cleaner, cleanups, stuck, upsets>>

Status == {"pending", "downloading", "ready", "failed", "removed"}

\* A worker that is not running, and where a running one is in process.
Running == {"spawned", "waiting", "transcoding", "failing", "failed",
            "prepared", "ready", "unmarked", "unready", "cleanup", "cleaning"}
IdleWorker == [pc |-> "none", item |-> NoItem, stream |-> "none", playable |-> FALSE]
IdlePlayer == [pc |-> "idle", item |-> NoItem, copy |-> "none"]
IdleCleaner == [pc |-> "idle", by |-> None, todo |-> <<>>, total |-> 0,
                rooms |-> {}]
IdlePump == [pc |-> "idle", room |-> None, item |-> NoItem]

WorkerState ==
    [pc : Running \cup {"none"}, item : Items \cup {NoItem},
     stream : {"none", "writing", "published", "failed"}, playable : BOOLEAN]
PumpState == [pc : {"idle", "reserve"}, room : Rooms \cup {None},
              item : Items \cup {NoItem}]
PlayerState == [pc : {"idle", "chosen", "selected", "open"},
                item : Items \cup {NoItem}, copy : Status \cup {"none"}]
CleanerState == [pc : {"idle", "next", "current", "repair", "remove"},
                 by : Workers \cup {None}, todo : Seq(Tracks), total : Int,
                 rooms : SUBSET Rooms]

\* The variables have their types; a running worker, a reserving pump, a player
\* with a selection and a cleaner at a file each have what they work on, and the
\* process whose cleanup runs waits for it.
TypeOK ==
    /\ row \in [Items -> Status]
    /\ current \in [Rooms -> Items \cup {NoItem}]
    /\ disk \in Seq(Tracks)
    /\ streams \in [Tracks -> Workers \cup {None}]
    /\ lease \in [Tracks -> Nat]
    /\ worker \in [Workers -> WorkerState]
    /\ \A w \in Workers : worker[w].pc \in Running => worker[w].item \in Items
    /\ pump \in PumpState
    /\ pump.pc = "reserve" => pump.item \in Items /\ RoomOf[pump.item] = pump.room
    /\ pumps \subseteq Rooms
    /\ player \in [Rooms -> PlayerState]
    /\ \A r \in Rooms : player[r].pc \in {"selected", "open"}
                            => player[r].item \in Items
    /\ cleaner \in CleanerState
    /\ cleaner.pc \in {"current", "repair", "remove"} => cleaner.todo # <<>>
    /\ cleaner.pc # "idle" /\ cleaner.by # None => worker[cleaner.by].pc = "cleaning"
    /\ cleanups \in BOOLEAN
    /\ stuck \subseteq Items
    /\ upsets \in Nat

\* ActivatePlaylist has inserted every room's rows and asked for a pump.
Init ==
    /\ row = [i \in Items |-> "pending"]
    /\ current = [r \in Rooms |-> NoItem]
    /\ disk = <<>>
    /\ streams = [t \in Tracks |-> None]
    /\ lease = [t \in Tracks |-> 0]
    /\ worker = [w \in Workers |-> IdleWorker]
    /\ pump = IdlePump
    /\ pumps = Rooms
    /\ player = [r \in Rooms |-> IdlePlayer]
    /\ cleaner = IdleCleaner
    /\ cleanups = FALSE
    /\ stuck = {}
    /\ upsets = MaxUpsets
-----------------------------------------------------------------------------
(* Helpers *)

Queued(i) == row[i] # "removed"
QueueOf(r) == {i \in Items : RoomOf[i] = r /\ Queued(i)}

\* An UPDATE of a row that was deleted meanwhile changes nothing.
SetRow(i, status) == IF Queued(i) THEN [row EXCEPT ![i] = status] ELSE row

\* A file that is written or touched becomes the newest one.
Cached(t) == Contains(disk, t)
DiskWithout(t) ==
    IF Cached(t) THEN RemoveAt(disk, CHOOSE k \in 1 .. Len(disk) : disk[k] = t) ELSE disk
Touched(t) == Append(DiskWithout(t), t)

\* prefetchWindow: failed rows take no slot.
Window(r) == {i \in QueueOf(r) : row[i] # "failed"}

PendingIn(r) == {i \in Window(r) : row[i] = "pending"}
PreparedBytes(r) == FileBytes * Cardinality({i \in Window(r) : row[i] = "ready"})
Downloading(r) == {i \in Items : RoomOf[i] = r /\ row[i] = "downloading"}

\* Mutant: pumpRoom without countDownloading.
StartableUncounted(r) ==
    /\ PreparedBytes(r) < RoomMaxBytes \/ PreparedBytes(r) = 0
    /\ PendingIn(r) # {}

\* What pumpRoom requires before it reserves a row.
Startable(r) ==
    /\ Downloading(r) = {}
    /\ PreparedBytes(r) < RoomMaxBytes \/ PreparedBytes(r) = 0
    /\ PendingIn(r) # {}

\* A downloading row can be played from its track's transcode.
StreamPlayable(t) ==
    /\ streams[t] # None
    /\ worker[streams[t]].playable
    /\ worker[streams[t]].stream # "failed"

Playable(i) ==
    \/ row[i] = "ready"
    \/ row[i] = "downloading" /\ StreamPlayable(TrackOf[i])

PlayableIn(r) == {i \in QueueOf(r) : Playable(i)}

TrackAt(w) == TrackOf[worker[w].item]
HoldsCacheLock(w) == worker[w].pc = "transcoding"
CacheLockFree(t) == \A w \in Workers : HoldsCacheLock(w) => TrackAt(w) # t

Goto(w, pc) == worker' = [worker EXCEPT ![w].pc = pc]
Exit(w) == worker' = [worker EXCEPT ![w] = IdleWorker]

Upset == upsets > 0 /\ upsets' = upsets - 1
Fault(statement) == statement \in Faulty /\ Upset

\* The last status of the worker's row was not written, and nobody tries again.
Strands(w) == stuck' = stuck \cup {worker[w].item}
-----------------------------------------------------------------------------
(* Requests *)

\* RemoveItem deletes the row, whatever its status.  It then asks a player on
\* that row to skip; when the player does not answer in time the handler
\* returns before it releases the media and pumps.
RemoveItem(i) ==
    /\ Queued(i)
    /\ Upset
    /\ row' = [row EXCEPT ![i] = "removed"]
    /\ \/ cleanups' = TRUE /\ pumps' = pumps \cup {RoomOf[i]}
       \/ player[RoomOf[i]].item = i /\ UNCHANGED <<cleanups, pumps>>
    /\ UNCHANGED <<current, disk, streams, lease, worker, pump, player,
                   cleaner, stuck>>

\* ensurePlaying with nothing playable only asks for a pump.
PressPlay(r) ==
    /\ player[r].pc = "idle"
    /\ PlayableIn(r) = {}
    /\ pumps' = pumps \cup {r}
    /\ UNCHANGED <<row, current, disk, streams, lease, worker, pump,
                   player, cleaner, cleanups, stuck, upsets>>

-----------------------------------------------------------------------------
(* pumpRoom, under pumpMu *)

PumpRead(r) ==
    /\ pump.pc = "idle"
    /\ r \in pumps
    /\ pumps' = pumps \ {r}
    /\ IF Startable(r)
       THEN \E i \in PendingIn(r) :
             pump' = [pc |-> "reserve", room |-> r, item |-> i]
       ELSE UNCHANGED pump
    /\ UNCHANGED <<row, current, disk, streams, lease, worker, player,
                   cleaner, cleanups, stuck, upsets>>

PumpReserve(w) ==
    /\ pump.pc = "reserve"
    /\ worker[w].pc = "none"
    /\ row' = SetRow(pump.item, "downloading")
    /\ worker' = [worker EXCEPT ![w] =
                    [IdleWorker EXCEPT !.pc = "spawned", !.item = pump.item]]
    /\ pump' = IdlePump
    /\ UNCHANGED <<current, disk, streams, lease, pumps, player, cleaner,
                   cleanups, stuck, upsets>>

\* A statement of pumpRoom fails: it returns, and nobody asks for it again.
PumpFail(r) ==
    /\ Fault("pump")
    /\ \/ pump.pc = "idle" /\ r \in pumps /\ pumps' = pumps \ {r} /\ UNCHANGED pump
       \/ pump.pc = "reserve" /\ pump.room = r /\ pump' = IdlePump /\ UNCHANGED pumps
    /\ UNCHANGED <<row, current, disk, streams, lease, worker, player,
                   cleaner, cleanups, stuck>>

-----------------------------------------------------------------------------
(* process *)

\* Mutant: a failed getItem just ends the worker.
LoadItemIgnoringErrors(w) ==
    /\ worker[w].pc = "spawned"
    /\ \/ Queued(worker[w].item) /\ Goto(w, "waiting") /\ UNCHANGED upsets
       \/ ~Queued(worker[w].item) /\ Exit(w) /\ UNCHANGED upsets
       \/ Fault("getItem") /\ Exit(w)
    /\ UNCHANGED <<row, current, disk, streams, lease, pump, pumps, player,
                   cleaner, cleanups, stuck>>

\* getItem: a deleted row ends the worker; after any other error the row is to
\* return to pending.
LoadItem(w) ==
    /\ worker[w].pc = "spawned"
    /\ \/ Queued(worker[w].item) /\ Goto(w, "waiting") /\ UNCHANGED upsets
       \/ ~Queued(worker[w].item) /\ Exit(w) /\ UNCHANGED upsets
       \/ Fault("getItem") /\ Goto(w, "unready")
    /\ UNCHANGED <<row, current, disk, streams, lease, pump, pumps, player,
                   cleaner, cleanups, stuck>>

\* prepareBroadcastMedia takes the track's lock and finds the file, which it
\* touches, and releases the lock.
CacheHit(w) ==
    /\ worker[w].pc = "waiting"
    /\ CacheLockFree(TrackAt(w))
    /\ Cached(TrackAt(w))
    /\ disk' = Touched(TrackAt(w))
    /\ Goto(w, "prepared")
    /\ UNCHANGED <<row, current, streams, lease, pump, pumps, player,
                   cleaner, cleanups, stuck, upsets>>

\* ... or does not find it and resolves the upstream URL.  The growing file then
\* replaces whatever stream was registered for the track.  Nothing else happens
\* under the lock, so taking it and resolving are one step.
CacheMiss(w) ==
    /\ worker[w].pc = "waiting"
    /\ CacheLockFree(TrackAt(w))
    /\ ~Cached(TrackAt(w))
    /\ \/ /\ streams' = [streams EXCEPT ![TrackAt(w)] = w]
          /\ worker' = [worker EXCEPT ![w].pc = "transcoding", ![w].stream = "writing"]
       \/ Goto(w, "failing") /\ UNCHANGED streams
    /\ UNCHANGED <<row, current, disk, lease, pump, pumps, player, cleaner,
                   cleanups, stuck, upsets>>

\* watchStream saw the first audio page.  It may record that after ffmpeg has
\* ended; once the stream is forgotten nobody looks.
MarkPlayable(w) ==
    /\ worker[w].pc \in Running
    /\ worker[w].stream \in {"writing", "published"}
    /\ streams[TrackAt(w)] = w
    /\ ~worker[w].playable
    /\ worker' = [worker EXCEPT ![w].playable = TRUE]
    /\ UNCHANGED <<row, current, disk, streams, lease, pump, pumps, player,
                   cleaner, cleanups, stuck, upsets>>

\* ffmpeg or the rename failed: the stream fails and the lock is released.
TranscodeFail(w) ==
    /\ worker[w].pc = "transcoding"
    /\ worker' = [worker EXCEPT ![w].pc = "failing", ![w].stream = "failed"]
    /\ UNCHANGED <<row, current, disk, streams, lease, pump, pumps, player,
                   cleaner, cleanups, stuck, upsets>>

\* Mutant: publishing forgets the stream, before the row says ready.
PublishForgetting(w) ==
    /\ worker[w].pc = "transcoding"
    /\ disk' = Touched(TrackAt(w))
    /\ worker' = [worker EXCEPT ![w].pc = "prepared", ![w].stream = "published"]
    /\ streams' = [streams EXCEPT ![TrackAt(w)] = None]
    /\ UNCHANGED <<row, current, lease, pump, pumps, player, cleaner,
                   cleanups, stuck, upsets>>

\* The rename into the cache; the lock is released.
Publish(w) ==
    /\ worker[w].pc = "transcoding"
    /\ disk' = Touched(TrackAt(w))
    /\ worker' = [worker EXCEPT ![w].pc = "prepared", ![w].stream = "published"]
    /\ UNCHANGED <<row, current, streams, lease, pump, pumps, player,
                   cleaner, cleanups, stuck, upsets>>

\* markReady / markFailed, and what follows when the statement fails.
RecordReady(w) ==
    /\ worker[w].pc = "prepared"
    /\ \/ row' = SetRow(worker[w].item, "ready") /\ Goto(w, "ready") /\ UNCHANGED upsets
       \/ Fault("markReady") /\ Goto(w, "unmarked") /\ UNCHANGED row
    /\ UNCHANGED <<current, disk, streams, lease, pump, pumps, player,
                   cleaner, cleanups, stuck>>

RecordFailure(w) ==
    /\ worker[w].pc = "failing"
    /\ Goto(w, "failed")
    /\ \/ row' = SetRow(worker[w].item, "failed") /\ UNCHANGED <<stuck, upsets>>
       \/ Fault("markFailed") /\ UNCHANGED row /\ Strands(w)
    /\ UNCHANGED <<current, disk, streams, lease, pump, pumps, player,
                   cleaner, cleanups>>

\* Mutants: retireStream of whatever is registered, and of a success only.
RetiredUnchecked(w) == [streams EXCEPT ![TrackAt(w)] = None]
RetiredWhenPublished(w) ==
    IF streams[TrackAt(w)] = w /\ worker[w].stream = "published"
    THEN [streams EXCEPT ![TrackAt(w)] = None] ELSE streams

\* retireStream: only the owner's own finished stream.
Retired(w) ==
    LET s == streams[TrackAt(w)]
    IN  IF /\ s # None
           /\ worker[s].item = worker[w].item
           /\ worker[s].stream # "writing"
        THEN [streams EXCEPT ![TrackAt(w)] = None] ELSE streams

\* The worker's stream object is garbage from here on.
RetireStream(w) ==
    /\ worker[w].pc \in {"ready", "unmarked", "failed"}
    /\ streams' = Retired(w)
    /\ worker' = [worker EXCEPT ![w] =
         IF @.pc = "failed" THEN IdleWorker
         ELSE [IdleWorker EXCEPT !.pc = IF worker[w].pc = "ready" THEN "cleanup" ELSE "unready",
                                 !.item = worker[w].item]]
    /\ pumps' = IF worker[w].pc = "failed" THEN pumps \cup {RoomOf[worker[w].item]} ELSE pumps
    /\ UNCHANGED <<row, current, disk, lease, pump, player, cleaner,
                   cleanups, stuck, upsets>>

\* getItem or markReady failed: the row waits for the next pump.  process ignores
\* the error of this statement, which fails where one before it has failed: it is
\* not a fault of its own that MaxUpsets counts.
ReturnToPending(w) ==
    /\ worker[w].pc = "unready"
    /\ \/ row' = SetRow(worker[w].item, "pending") /\ UNCHANGED stuck
       \/ "setStatus" \in Faulty /\ UNCHANGED row /\ Strands(w)
    /\ Exit(w)
    /\ UNCHANGED <<current, disk, streams, lease, pump, pumps, player,
                   cleaner, cleanups, upsets>>

-----------------------------------------------------------------------------
(* cleanupBroadcastCache, under cacheCleanupMu *)

CacheTarget == (CacheMaxBytes * 9) \div 10

\* ReadDir: the files, their order and their total as they are now.
CacheFull == FileBytes * Len(disk) > CacheMaxBytes
Scan(by) == [pc |-> "next", by |-> by, todo |-> disk,
             total |-> FileBytes * Len(disk), rooms |-> {}]

\* Mutant: process ends without a pump.
FinishProcessQuietly(w) == Exit(w) /\ UNCHANGED pumps

\* process after its cleanup: it pumps the room and ends.  (The player it also
\* starts may start at any time here.)
FinishProcess(w) == Exit(w) /\ pumps' = pumps \cup {RoomOf[worker[w].item]}

StartCleanup(w) ==
    /\ worker[w].pc = "cleanup"
    /\ cleaner.pc = "idle"
    /\ IF CacheFull THEN cleaner' = Scan(w) /\ Goto(w, "cleaning") /\ UNCHANGED pumps
                    ELSE FinishProcess(w) /\ UNCHANGED cleaner
    /\ UNCHANGED <<row, current, disk, streams, lease, pump, player,
                   cleanups, stuck, upsets>>

BackgroundCleanup ==
    /\ cleanups
    /\ cleaner.pc = "idle"
    /\ cleaner' = IF CacheFull THEN Scan(None) ELSE IdleCleaner
    /\ cleanups' = FALSE
    /\ UNCHANGED <<row, current, disk, streams, lease, worker, pump, pumps,
                   player, stuck, upsets>>

\* The kept file is the one the calling process has just published or touched.
Kept(t) == cleaner.by # None /\ TrackAt(cleaner.by) = t
Skipped == [cleaner EXCEPT !.pc = "next", !.todo = Tail(@)]

\* The oldest file left: the kept one and leased ones are passed over.
CleanerNext ==
    /\ cleaner.pc = "next"
    /\ IF cleaner.todo = <<>> \/ cleaner.total <= CacheTarget
       THEN /\ cleaner' = IdleCleaner
            /\ IF cleaner.by = None THEN UNCHANGED <<worker, pumps>>
               ELSE FinishProcess(cleaner.by)
       ELSE /\ UNCHANGED <<worker, pumps>>
            /\ cleaner' =
                 IF Kept(Head(cleaner.todo)) \/ lease[Head(cleaner.todo)] > 0
                 THEN Skipped ELSE [cleaner EXCEPT !.pc = "current"]
    /\ UNCHANGED <<row, current, disk, streams, lease, pump, player,
                   cleanups, stuck, upsets>>

HasFile(i, t) == row[i] = "ready" /\ TrackOf[i] = t

\* mediaPathIsCurrent: so is a file that some room's current row refers to.
CleanerCurrent ==
    /\ cleaner.pc = "current"
    /\ cleaner' =
         IF \E r \in Rooms : current[r] # NoItem /\ HasFile(current[r], Head(cleaner.todo))
         THEN Skipped ELSE [cleaner EXCEPT !.pc = "repair"]
    /\ UNCHANGED <<row, current, disk, streams, lease, worker, pump, pumps,
                   player, cleanups, stuck, upsets>>

\* markMediaPathMissing returns the rows of the file to pending.
CleanerRepair ==
    /\ cleaner.pc = "repair"
    /\ LET t == Head(cleaner.todo)
       IN  /\ row' = [i \in Items |-> IF HasFile(i, t) THEN "pending" ELSE row[i]]
           /\ cleaner' = [cleaner EXCEPT !.pc = "remove",
                            !.rooms = {RoomOf[i] : i \in {j \in Items : HasFile(j, t)}}]
    /\ UNCHANGED <<current, disk, streams, lease, worker, pump, pumps,
                   player, cleanups, stuck, upsets>>

CleanerRemove ==
    /\ cleaner.pc = "remove"
    /\ disk' = DiskWithout(Head(cleaner.todo))
    /\ cleaner' = [Skipped EXCEPT !.total = @ - FileBytes, !.rooms = {}]
    /\ pumps' = pumps \cup cleaner.rooms
    /\ UNCHANGED <<row, current, streams, lease, worker, pump, player,
                   cleanups, stuck, upsets>>

-----------------------------------------------------------------------------
(* The room player as a reader *)

\* The player keeps the copy of the row it selected.
Chosen(i) == [pc |-> "chosen", item |-> i, copy |-> row[i]]
Nothing == [IdlePlayer EXCEPT !.pc = "chosen"]

\* nextItem: some playable row, or none.
NextItem(r) == IF PlayableIn(r) = {} THEN {Nothing} ELSE {Chosen(i) : i \in PlayableIn(r)}

\* Without a previous track the persisted current row comes first.
Choose(r) ==
    /\ player[r].pc = "idle"
    /\ \E next \in IF current[r] \in PlayableIn(r) THEN {Chosen(current[r])}
                                                  ELSE NextItem(r) :
          player' = [player EXCEPT ![r] = next]
    /\ UNCHANGED <<row, current, disk, streams, lease, worker, pump, pumps, cleaner,
                   cleanups, stuck, upsets>>

\* Mutant: the player also opens when nextItem found nothing.
PersistCurrentAlways(r) ==
    /\ player[r].pc = "chosen"
    /\ current' = [current EXCEPT ![r] = player[r].item]
    /\ player' = [player EXCEPT ![r].pc = "selected"]
    /\ UNCHANGED <<row, disk, streams, lease, worker, pump, pumps, cleaner,
                   cleanups, stuck, upsets>>

\* setCurrent persists the selection before the file is opened, and pumps.
PersistCurrent(r) ==
    /\ player[r].pc = "chosen"
    /\ current' = [current EXCEPT ![r] = player[r].item]
    /\ pumps' = IF current[r] = player[r].item THEN pumps ELSE pumps \cup {r}
    /\ player' = [player EXCEPT ![r].pc =
                    IF player[r].item = NoItem THEN "idle" ELSE "selected"]
    /\ UNCHANGED <<row, disk, streams, lease, worker, pump, cleaner,
                   cleanups, stuck, upsets>>

\* openBroadcastMedia trusts a ready copy, else looks for the stream, reading
\* the row again when the copy does not find one.
StreamSource(r) ==
    /\ player[r].copy # "ready"
    /\ "downloading" \in {player[r].copy, row[player[r].item]}
    /\ StreamPlayable(TrackOf[player[r].item])
FileSource(r) ==
    ~StreamSource(r) /\ "ready" \in {player[r].copy, row[player[r].item]}

\* The bytes are the stream's temporary file or the finished file.
CanOpen(r) ==
    LET t == TrackOf[player[r].item]
    IN  \/ StreamSource(r) /\ worker[streams[t]].stream = "writing"
        \/ (StreamSource(r) \/ FileSource(r)) /\ Cached(t)

\* The lease is taken, which touches the file, and the file opened.
OpenMedia(r) ==
    /\ player[r].pc = "selected"
    /\ CanOpen(r)
    /\ LET t == TrackOf[player[r].item]
       IN  /\ lease' = [lease EXCEPT ![t] = @ + 1]
           /\ disk' = IF Cached(t) THEN Touched(t) ELSE disk
    /\ player' = [player EXCEPT ![r].pc = "open"]
    /\ UNCHANGED <<row, current, streams, worker, pump, pumps, cleaner,
                   cleanups, stuck, upsets>>

\* What cannot be opened is skipped.  A lease whose open failed is given back at
\* once, and the last lease given back starts a background cleanup.
SkipUnopened(r) ==
    /\ player[r].pc = "selected"
    /\ ~CanOpen(r)
    /\ \E next \in NextItem(r) : player' = [player EXCEPT ![r] = next]
    /\ cleanups' = \/ cleanups
                   \/ /\ StreamSource(r) \/ FileSource(r)
                      /\ lease[TrackOf[player[r].item]] = 0
    /\ UNCHANGED <<row, current, disk, streams, lease, worker, pump, pumps, cleaner,
                   stuck, upsets>>

\* The release function of a lease; the mutant forgets the last holder.
ReleasedButLast(t) == [lease EXCEPT ![t] = IF @ <= 1 THEN @ ELSE @ - 1]
Released(t) == [lease EXCEPT ![t] = IF @ <= 1 THEN 0 ELSE @ - 1]

\* The track ended or failed or a command interrupted it: the reader closes its
\* file, and the player asks nextItem.  Previous early in a track returns to the
\* start of this one, from the old copy of its row.
FinishTrack(r) ==
    /\ player[r].pc = "open"
    /\ \E next \in NextItem(r) \cup {[player[r] EXCEPT !.pc = "chosen"]} :
          player' = [player EXCEPT ![r] = next]
    /\ LET t == TrackOf[player[r].item]
       IN  /\ lease' = Released(t)
           /\ cleanups' = (cleanups \/ lease[t] <= 1)
    /\ UNCHANGED <<row, current, disk, streams, worker, pump, pumps, cleaner, stuck,
                   upsets>>

-----------------------------------------------------------------------------
(* The process stops and starts again: rows and finished files survive, and  *)
(* resetOnStartup returns interrupted downloads to pending.                  *)
ResetRows == [i \in Items |-> IF row[i] = "downloading" THEN "pending" ELSE row[i]]

Restart ==
    /\ Upset
    /\ row' = ResetRows
    /\ streams' = [t \in Tracks |-> None]
    /\ lease' = [t \in Tracks |-> 0]
    /\ worker' = [w \in Workers |-> IdleWorker]
    /\ pump' = IdlePump
    /\ pumps' = {}
    /\ player' = [r \in Rooms |-> IdlePlayer]
    /\ cleaner' = IdleCleaner
    /\ cleanups' = TRUE
    /\ stuck' = {}
    /\ UNCHANGED <<current, disk>>

ProcessStep(w) ==
    \/ LoadItem(w) \/ CacheHit(w) \/ CacheMiss(w) \/ TranscodeFail(w) \/ Publish(w)
    \/ RecordReady(w) \/ RecordFailure(w) \/ RetireStream(w) \/ ReturnToPending(w)
    \/ StartCleanup(w)
CleanerStep == CleanerNext \/ CleanerCurrent \/ CleanerRepair \/ CleanerRemove
PlayerStep(r) ==
    \/ Choose(r) \/ PersistCurrent(r) \/ OpenMedia(r) \/ SkipUnopened(r)
    \/ FinishTrack(r)

Next ==
    \/ \E i \in Items : RemoveItem(i)
    \/ \E r \in Rooms : PumpRead(r) \/ PumpFail(r)
    \/ \E r \in Visited : PressPlay(r)
    \/ \E r \in Listening : PlayerStep(r)
    \/ \E w \in Workers : PumpReserve(w) \/ ProcessStep(w) \/ MarkPlayable(w)
    \/ BackgroundCleanup \/ CleanerStep \/ Restart

Spec == Init /\ [][Next]_vars

\* Goroutines run and mutexes are handed to waiters (sync.Mutex's starvation
\* mode), so every goroutine that waits for a lock gets it.  A transcode ends:
\* process has a 10 minute context.  Users and listeners are not fair.
Fairness ==
    /\ \A r \in Rooms : SF_vars(PumpRead(r))
    /\ WF_vars(\E w \in Workers : PumpReserve(w))
    /\ \A w \in Workers : SF_vars(ProcessStep(w))
    /\ WF_vars(CleanerStep)

FairSpec == Spec /\ Fairness
-----------------------------------------------------------------------------
(* Properties *)

\* Two rows of a room are never downloading together.
OneDownloadingRow ==
    \A i, j \in Items :
        row[i] = "downloading" /\ row[j] = "downloading" /\ RoomOf[i] = RoomOf[j]
            => i = j

\* Before process records an outcome the row is the worker's.
Unrecorded == {"spawned", "waiting", "transcoding", "failing", "prepared",
               "unmarked", "unready"}
Works(w, i) == worker[w].item = i /\ worker[w].pc \in Unrecorded

\* A downloading row has a process worker that will still record an outcome, but
\* for a row whose worker could not write what it had to.
WorkedOn(i) == \E w \in Workers : Works(w, i)
DownloadingHasWorker ==
    \A i \in Items : row[i] = "downloading" => WorkedOn(i) \/ i \in stuck

\* pumpRoom reserves one row of a room at a time, whichever pumps, workers and
\* removals interleave, and whatever is reserved is worked on: "nothing else clears
\* it, and the room would never start another download" (process).  Only the failure
\* of the statement that was to give the row its last status leaves it behind, until
\* resetInterruptedDownloads.
DownloadsAreOwned == OneDownloadingRow /\ DownloadingHasWorker

\* cacheLeases counts the players between taking and giving back a file.
Reading(r, t) == player[r].pc = "open" /\ TrackOf[player[r].item] = t
LeasesCountReaders ==
    \A t \in Tracks : lease[t] = Cardinality({r \in Rooms : Reading(r, t)})

\* A registered stream belongs to a running process of its track that will
\* retire it: readers never find a stream nobody finishes.
RegisteredStreamHasOwner ==
    \A t \in Tracks : streams[t] # None =>
        /\ worker[streams[t]].pc \in Running
        /\ TrackAt(streams[t]) = t
        /\ worker[streams[t]].stream = "writing"
             => worker[streams[t]].pc = "transcoding"

\* A file is about to be removed only while the cache is over its target.
EvictsOnlyAboveTarget ==
    cleaner.pc = "remove" => FileBytes * Len(disk) > CacheTarget

\* Cleanup removes what it may: the leases it passes over are those of exactly the
\* files that somebody reads, and it stops at the target, counting the files as they
\* are when it removes, not as they were when it scanned.
EvictsOnlyWhatItMay == LeasesCountReaders /\ EvictsOnlyAboveTarget

\* While ffmpeg writes a track, nobody takes its stream away: neither another
\* transcode of the track nor the retirement of an earlier one.
StreamKeptWhileWriting ==
    [][\A t \in Tracks, w \in Workers :
         streams[t] = w /\ worker[w].stream = "writing"
             => streams'[t] = w \/ worker'[w].stream # "writing"]_vars

\* Row i may be played from the transcode of worker w, which has yet to record
\* the outcome, and after the step it may not, although the transcode is good.
OwnStream(i, w) ==
    /\ row[i] = "downloading" /\ Playable(i)
    /\ streams[TrackOf[i]] = w /\ worker[w].item = i
    /\ worker[w].pc \in {"transcoding", "prepared"}
LosesStream(i, w) ==
    ~Playable(i)' /\ row'[i] = "downloading" /\ worker'[w].stream # "failed"

\* retireStream waits for the record to keep the row playable.  Nobody takes the
\* stream away during the transcode, and between it and the record only another
\* transcode of the track, whose file was evicted meanwhile, or a process left from
\* an earlier download of the row, which retireStream takes for the stream's owner.
PlayableUnlessEvicted ==
    [][\A i \in Items, w \in Workers :
         OwnStream(i, w) /\ LosesStream(i, w)
             => /\ worker[w].pc = "prepared"
                /\ \/ ~Cached(TrackOf[i])
                   \/ \E v \in Workers \ {w} :
                        worker[v].item = i /\ worker[v].pc \in {"ready", "unmarked", "failed"}]_vars

\* A downloading row leaves that status: process always records an outcome, or has
\* failed to write one.
DownloadsEnd ==
    \A i \in Items : []<>(row[i] # "downloading" \/ i \in stuck)

\* A room with something to download and space for it starts a download, or the
\* need goes away: no pump request is lost.  It may be after an upset: process
\* leaves a failed statement to the next pump, and a restarted room is silent
\* until somebody presses play.
PumpsAreNotLost ==
    \A r \in Rooms : []<>(~Startable(r) \/ upsets < MaxUpsets)
-----------------------------------------------------------------------------
(* What comments promise and the code does not keep: each is violated in the *)
(* instance of MusicBoxMediaEviction.cfg, and no run checks it.              *)

\* "Any other row must not stay 'downloading': nothing else clears it, and the room
\* would never start another download" (process): it stays when setStatus fails
\* after getItem did.
NoRowStaysDownloading == \A i \in Items : row[i] = "downloading" => WorkedOn(i)

\* retireStream waits for the record "so the row never looks unplayable between
\* the two".  A process that is slow to retire its stream may find the row evicted
\* and published again by a second process, and retires that one's stream.
PlayableUntilRecorded ==
    [][\A i \in Items, w \in Workers : OwnStream(i, w) => ~LosesStream(i, w)]_vars

\* "Queue metadata is repaired before a removed artifact can be selected again": a
\* file whose removal leaves a row that says ready is selected again.  A process that
\* has published the file may record its row between the repair and the removal.
RepairedBeforeRemoval ==
    [][\A t \in Tracks : Cached(t) /\ ~Cached(t)' => \A i \in Items : ~HasFile(i, t)']_vars
=============================================================================
