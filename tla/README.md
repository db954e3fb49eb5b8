# Gang Chat server: TLA+ models and proofs

The Gang Chat server (`src/`, Go) is one process over one SQLite database. It
serves chat rooms with voice (LiveKit), a shared music box per room, stickers,
notifications and an admin console. This directory models the parts of it where
goroutines, files, the database and an external media server meet, checks them
with TLC on small instances, and proves what matters most with TLAPS for every
value of the constants.

## 1. Inventory

| Component | State it keeps | Operations | Interacts with |
|---|---|---|---|
| Music box media pipeline (`musicbox/media_cache.go`, `media_stream.go`, `pumpRoom`/`process` of `manager.go`) | row statuses, cache files, `streams`, `cacheLeases`, per-track locks | reserve a download, transcode and publish, retire a stream, clean up, repair rows | player (leases, streams), store, ffmpeg |
| Queue and playback state (`musicbox/manager.go`, `store.go`) | queue rows, `room_music_box_state`, `playCursors`, `seenCommands` | enqueue, remove, control, activate a playlist | player, pipeline, event bus |
| Empty voice rooms (`ObserveRoomOccupancy`, `expireEmptyRoom` of `manager.go`; `PublishLiveSnapshot` of `chat/stream.go`) | a generation and a timer per room | observe a count, fire, check, clear, try again | live voice, queue and player |
| Room player (`musicbox/player.go`) | current row, pause, position, command channel, LiveKit track | play, skip, previous, playNow, stop, wake | manager callbacks, LiveKit |
| Playlists (`musicbox/*playlist*_store.go`) | saved playlists of users and rooms | CRUD, copy, merge | queue (activation) |
| Music search (`musicbox/search_resilience.go`) | result cache, calls in flight | search with retries, stale results | upstream API |
| Live voice (`chat/live_core.go`, `live_admin.go`) | `live_participants`, `room_voice_bans`, LiveKit permissions | join, update, leave, moderate | LiveKit, event bus |
| LiveKit webhooks and sweep (`livekitwebhook/handler.go`) | connection states of participants | participant left / joined, room finished, expired transitions | LiveKit, live voice |
| Event bus and streams (`eventbus/bus.go`, `chat/stream.go`, `room_stream.go`) | subscriptions, interest sets, 64-event buffers | subscribe, set rooms, publish, close | every handler |
| Rooms and membership (`chat/rooms_core.go`, `members_core.go`, `room_members.go`, `permissions.go`; the membership pages of `admin/accounts.go`) | rooms, memberships, roles, invitations, join requests, blacklist | create, join, leave, remove, change a role, transfer, invite, answer, review, block, change the policy, delete | event bus, messages, accounts |
| Messages and read state (`chat/messages_core.go`, ...) | messages, read cursors, idempotency keys | send, recall, read, notify | event bus, push |
| Stickers and uploads (`chat/stickers.go`, `sticker_asset_lifecycle.go`, `storage`) | assets with an expiry, packs | upload, retain, schedule, clean up | messages |
| Accounts (`auth`) | users, sessions, reset challenges, email codes | login, verify, reset | mail |
| Push (`push`), gang bot (`chat/gang_bot.go`), ids (`idgen`), admin (`admin`, `releases`), plumbing (`db`, `config`, `apierrors`, `model`, `middleware`) | small or none | | |

What is hard here: the pipeline runs one goroutine per download, one per player
and any number of cleanups and pumps over shared files and rows; an HTTP handler
is a goroutine that reads a row, calls LiveKit or a player, and writes the row
afterwards; webhooks arrive late and out of order; every change is fanned out as
a snapshot taken at some earlier moment; the process may stop anywhere, and only
SQLite and the files survive. `PROJECT.json` lists the hazards with their lines.

What makes each component correct, in a sentence:

* pipeline: a row that says it is downloading is being worked on, a row that can
  be played can be opened, a file that is read is not evicted, the cache returns
  to its target, and a room that needs a download gets one;
* queue and player: a room without a player is not shown as playing, no write of its
  state is lost, a command is applied once and answered, an empty room is expired
  and an occupied one is not;
* playlists: making, copying and merging lose no track, and what a room plays is
  the playlist as somebody saved it;
* search: one upstream call per key, results no older than promised;
* live voice: a moderator's block wins over the participant's own updates in the
  tables and in LiveKit, and a roster row ends when its session does;
* event bus and streams: an open stream gets what it listens to in order, losing only
  its oldest events; a client that listed its rooms is given the newest snapshot of each;
* membership: a room keeps an owner, who is the one its row names, nobody's block
  is overruled, and no row outlives its room or account;
* messages: a retry is stored once, what was read stays read, pages leave nothing
  out, a recall takes its notifications along;
* stickers: an asset that a sticker shows is not deleted, and one nothing shows goes.

## 2. Plan

Order, most important first; each module gets an MC module, a run and mutants.
Those marked * have a proof module.

1. `MusicBoxMedia` * (done): the media pipeline with the player as its reader.
2. `LiveRoster` * (done): the roster of a voice channel between requests,
   LiveKit's webhooks and the sweep.
3. `EmptyRoom` * (done): occupancy observations, timer generations, expiry.
4. `RoomMembership` * (done): every request on who is in a room and who owns it.
5. `MusicBoxRoom` * (done): the queue and the playback state of a room, the commands on
   them, the player's loop and channel.
6. `EventBus` with `RoomStream` * (done), and the abstract `RoomFeed` they implement.
7. `StickerAssets` *, `RoomMessages` *, `Playlists` * (done).
8. Proofs about the modules of 1 to 7 (done): section 5. Every safety property that the
   passing runs check is a theorem.
9. `LiveModeration`: microphone and headphone blocks in `room_voice_bans`, in the
   participants' rows and in LiveKit, against the participant's own updates.
   `MusicSearch`: single flight, fresh and stale entries. `PasswordReset`: the states
   of a reset code against concurrent requests.

## 3. The modules

### MusicBoxMedia

One module for everything that touches a track's bytes. State and code:

| Variable | Code |
|---|---|
| `row` | `room_music_box_queue.status` (`removed`: the row is deleted) |
| `current` | `room_music_box_state.current_item_id` |
| `disk` | finished `.ogg` files of the cache directory by modification time |
| `streams` | `Manager.streams`, with the worker that owns the stream |
| `lease` | `Manager.cacheLeases` |
| `worker` | `process` goroutines: where they are, their row and their stream |
| `pump`, `pumps` | the `pumpRoom` call under `pumpMu`, and those waiting for it |
| `player` | each room player between choosing a row and closing its file |
| `cleaner`, `cleanups` | `cleanupBroadcastCache` under `cacheCleanupMu`, and background calls waiting |

Actions are cut where another goroutine can come in. `PumpRead`/`PumpReserve` are
`pumpRoom`, which gives up when a statement of it fails (`PumpFail`). `LoadItem`,
`CacheHit` or `CacheMiss` then `Publish` or `TranscodeFail`,
`RecordReady`/`RecordFailure`, `RetireStream`, `ReturnToPending`, `StartCleanup` are
`process`, with the cache lock of `prepareBroadcastMedia` held from `CacheMiss` to the
end of the transcode. `MarkPlayable` is `watchStream`. `CleanerNext`, `CleanerCurrent`,
`CleanerRepair`, `CleanerRemove` are one file of the cleanup loop: its lease test,
`mediaPathIsCurrent`, `markMediaPathMissing` and `os.Remove`. `Choose`,
`PersistCurrent`, `OpenMedia` or `SkipUnopened`, `FinishTrack` are the player.
`RemoveItem` and `PressPlay` are requests; `Restart` is the process ending at any point
and `resetOnStartup`.

Faults: the statements in `Faulty` may fail: those of `pumpRoom`, and `getItem`,
`markReady`, `markFailed` and the return to pending of `process`. `MaxUpsets` bounds
failures, removals and restarts together; a return to pending follows a failure, and that
it fails as well is not counted. `process` ignores the errors of `markFailed` and of that
return (`manager.go` lines 851, 836 and 876), and its row stays downloading: `stuck` are
the rows this happened to, until a restart. ffmpeg and URL resolution may always fail.

Abstractions: every room's queue is at most `Prefetch` rows in shuffle mode, so
the prefetch window is the whole queue and the player may go from any row to any
other (the order is in `MusicBoxRoom`); files have one size; a failed
`os.Remove`, errors of statements elsewhere in the pipeline, and the upload of a file outside the
shared cache are left out. A player's open is one step (lease, touch, open), as
the model's hazards are before and after it.

Properties: leases count the readers, and a file is evicted only above the target and
never while it is leased (`EvictsOnlyWhatItMay`); a room has one downloading row, and
that row a worker unless it is `stuck` (`DownloadsAreOwned`); a registered stream has a
running owner and is kept while it is written (`RegisteredStreamHasOwner`,
`StreamKeptWhileWriting`); downloads end, but for a row that is `stuck`
(`DownloadsEnd`), and no pump is lost (`PumpsAreNotLost`).

A row that plays from its own transcode should stay playable until its outcome is
recorded, as the comment at `retireStream` says (`PlayableUntilRecorded`). The code
keeps less, and both exceptions are real: `PlayableUnlessEvicted` says that nobody takes
the stream away during the transcode, and after it only another transcode of the track,
whose file was evicted before the row was recorded, or an earlier process of the same
row, which `retireStream` cannot tell from the stream's owner. Nor does the code keep a
row from saying ready when its file is gone, as the repair of `markMediaPathMissing` and
the removal are two steps (`RepairedBeforeRemoval`; section 6). `NoRowStaysDownloading`
is what a comment of `process` says without the exception of `stuck`; it is false
(section 6). Not claimed is that a room transcodes one track at a time: the worker of a
removed row goes on.

### LiveRoster

The rows of `live_participants` of one room: who writes them, and what LiveKit
knows at that time. State and code:

| Variable | Code |
|---|---|
| `row` | `connection_state` and `client_live_session_id` of each user's row |
| `old` | `updated_at` against the cutoff of the row's state |
| `joined` | which `client_live_session_id`s have come to `joinLive` |
| `conn`, `open` | LiveKit: the session each user is connected with, and the room |
| `hooks` | webhooks LiveKit has sent and `receive` has not handled |
| `kicks` | `moderateLiveParticipant` between `RemoveParticipant` and the DELETE |
| `sweep` | `cleanupExpiredLiveTransitions`: listed rows and LiveKit's answer |
| `lost`, `touched`, `events` | history and bound: sessions reported lost, rows written since the sweep listed, requests left |

`Join`, `Patch` and `LeaveRoom` are handlers whose effect on the row is one
statement (`joinLive` writes a blocked user's row again in a second one that leaves
state and session alone). A kick is two steps, as it calls LiveKit first. The three
webhooks are one step each: their UPDATE matches the session of the token's
metadata. The sweep is its SELECT, its ListParticipants, and one statement per
listed row, so that everything else can come between. `Age` stands for time: a
row of `joining` or `reconnecting` gets past its grace period at any time no sweep
has computed its cutoffs. LiveKit is external: it allows one connection per user,
reports the end of the earlier one, and closes an empty room, which the music box
(`MusicPlays`) keeps from being empty.

Left out: media flags, moderation (planned), what is published, failing
statements, an unconfigured LiveKit (every kick and every sweep then works on the
tables alone), and tokens without session metadata, which no `joinLive` issues.

Properties: a `reconnecting` row lost its own session; the sweep removes nothing
that was written since it listed; transitions end. That whoever is online is connected
once all is quiet is not claimed: the sweep makes a row online from a list LiveKit gave
before the participant left, and no later webhook or sweep corrects it.

### EmptyRoom

What happens to a voice room's queue and playback when people leave. State and code:

| Variable | Code |
|---|---|
| `present` | users with a row in `live_participants` that `buildLiveState` counts |
| `music` | whether the room has queue rows or playback state |
| `handler` | requests between their write to the roster and `ObserveRoomOccupancy`, with the count `PublishLiveSnapshot` read |
| `gen`, `timer` | `emptyRoomGenerations` and `emptyRoomTimers` of the room |
| `expirers` | `expireEmptyRoom` calls: their generation, where they are, who has the control lock |
| `command` | a music command has the room's control lock |
| `missed`, `seenEmpty`, `reused`, `events` | history and bound |

`Enter` and `Leave` are a request's write to the roster; `ReadRoster` (or
`SnapshotFails`) and `ObserveSnapshot` are its publication, so that two requests may
report their counts in the other order. `Start`, `FirstCheck`, `Confirm`,
`SecondCheck`, `Clear` and `Rearm` are `expireEmptyRoom` and
`rearmEmptyRoomCleanup`, cut at the two mutexes and at each look at the roster;
`CheckFails` and `ClearFails` are their errors. `BeginCommand` and `EndCommand` are
any music command, which has no need of being in the room. `Restart` is the process
ending and `ReconcilePersistedRoomOccupancy`, which may fail. A timer may fire at any
time, which stands for its delay.

Properties: `QueuedMusicSurvives` (a command that overtakes a timer keeps its
effect), `ReusedRoomsAreNotConfirmed` (the generation test under the lock stops a
timer from before a visible member), and `ObservedEmptyRoomsExpire` (a room that
stays empty loses its music). The last does not hold without its proviso:
`missed` is set when the last thing observed is not that the room is empty. The code
leaves that possible in five ways, all of them in the model: a stale positive count
reported after an empty one (by a request, or by the expiry's own `Observe(1)`), a
snapshot whose query fails, a membership removed in the admin console, which
publishes nothing, a reconciliation that fails at a restart, and music queued in an
empty room whose timer has run. That only empty rooms are cleared is not claimed: who
enters between an expiry's second look and its clearing finds the music gone.

### RoomMembership

Who is in one room and what they are there, under every request that changes it.
State and code:

| Variable | Code |
|---|---|
| `room`, `creator`, `policy` | the row of `rooms`: that it exists, `created_by_user_id`, `join_policy` |
| `role` | `room_memberships.role`, `none` without a row |
| `blocked` | `room_blacklist` |
| `request` | `join_requests.status`: no row, pending, or settled (approved, rejected, withdrawn) |
| `invites` | pending rows of `room_invites` |
| `users` | accounts that have not been deleted |
| `task` | requests under way: the next step, who and whom it is about, and two things below |
| `left` | bound |

A handler asks with one query each whether the caller may and what the target is, and
then writes in a transaction that takes SQLite's write lock when it begins
(`_txlock=immediate`), so that a transaction is one step and whatever was read before
it may be out of date. A request has three steps: a beginning with the checks that do
not depend on the room's settings (`Join`, `Leave`, `Remove`, ...), a reading
(`ReadPolicy`, `CountMembers`, `ReadRemoved`, ...), a writing (`AddJoiner`, `Depart`,
`Expel`, ...). Queries that read next to each other are one step where no other order
of theirs tells more. A request whose first checks fail has no step. The action names
follow the handlers: `leaveRoom` is `Leave`, `CountMembers`, `Depart`.

`Admit` is `addRoomMemberTx`, `PruneOrRepair` is `pruneOrRepairRoomTx`, `EndRoom` the
cascade of `DELETE FROM rooms`. `needs` are the accounts a transaction writes a row or a
message for: if one of them is deleted, or the room is, a foreign key or the look-up of
a name fails and the transaction is rolled back (`Alive`). `free` is history for one
property. The console (`AddMembership`, `UpdateMembership`, `RemoveMembership`) and
`DeleteAccount` do everything in one transaction.

Superusers see every room and never are members, so that the branches of
`reviewJoinRequest` and of the automatic review for a superuser's own request are never
taken. Left out: names, avatars, text mutes, notification levels and the settings other
than the policy, lists and searches, and what is published afterwards. Initially the room
is as `createRoom` leaves it and joins and promotions since may have made it, with any
number of members and admins.

Properties: `RowsAgree`, of two parts (`OwnerIsCreator`: the owner is the one the room's
row names, so there is at most one; `RowsBelong`: no row for a superuser, a deleted
account or a deleted room), `OwnershipIsHandedOver` and `BlockedStayOut`. The second has
two exceptions, which the code has too: an owner's account is deleted, or a transfer
overtakes the departure of its target, and the room is left without an owner until
somebody joins, who becomes it. That a room only ends when its last member has confirmed
it is not claimed: of two who leave at the same time each may count the other.

### MusicBoxRoom

The queue and playback state of one room, the commands on them, and the player that
follows. State and code:

| Variable | Code |
|---|---|
| `rows`, `lastId` | `room_music_box_queue`: scope, `sort_order`, track and status of each row |
| `db` | `room_music_box_state`: play state, current row, mode, active source |
| `fresh` | which clients saw the present `revision` (an `expected_revision` that still fits) |
| `cursor` | `playCursors` and the columns that keep it |
| `player`, `channel` | the registered `player`: where its loop is, what it plays, whom it answers; `player.cmd` |
| `ending` | players whose `run` has returned and whose last `persistAndNotify` is to come |
| `saving` | the `persistPlayerStateAndNotify` that holds `persistMu`, with what it read |
| `control` | the room's control lock |
| `req` | HTTP requests: the operation, its step, what it waits for and what to undo |
| `wakers` | goroutines that will call `ensurePlaying` (a prepared track, a switched source) |
| `seen` | `seenCommands` |

A request is `Arrive` (the client asks, with the revision it sees), `Begin...` (it has
the control lock), `Send` or `Start`, an answer (`Take`, `TakeIdle`, `PersistWrite`,
`Disconnect`, `TimeOut`), and the operation's own ending (`StopRoom`,
`DeleteTemporaryQueue` and `ClearTemporaryQueue`, `SetPlaybackMode`, `Activate` and
`Settle`, `Expire`, `Succeed`, `Fail`). The goroutine that follows a switch of the
source waits until the old player is gone (`PlayerIsGone`, `CleanupTimesOut`) and then
starts one (`StartSwitched`), or sends the row to one that somebody else has started
meanwhile; what it makes of the answer changes nothing, so that the start lock counts as
free from then on. `RemoveItem` (`BeginRemove`, `Remove`) takes no lock, as in the code.
The player is `Connect`, `Select` (`advance(nil)`), `Take` (`handlePlaybackCommand`),
`TakeIdle` (`idleWait`), `TrackEnds`, `IdleTimeout`, `Exit`; what it makes current is
written by `PersistRead` and `PersistWrite` before anything else happens, and
`Heartbeat` writes once a second. Going on is `NextItem` with the four modes, the
shuffle ranks, the cursor and the pruned history. A time-out leaves the command in the
channel.

Abstractions: `sort_order` keeps its gaps of ten; positions are early or late in a
track; `musicBoxShuffleRank` is some order other than the queue's; one client repeats
one command id, that of its skip, so that `seen` has two values; a saved playlist has
`Saved` tracks; `Process` stands for a download, which `MusicBoxMedia` models. Left out:
other rooms, the one-off backfills of durations, failing statements.

Properties. `SilentRoomsAreStopped`: a room whose player is gone for good is not shown
as playing, although `disconnect` tells a waiting stop before the last state is
persisted. `UpdatesAreNotLost`: what is persisted was made from the state as it is;
`expireRoomPlayback` does not hold `persistMu`, and what it overtakes (`overtaken`) is
the exception. `DoneOnce`: a retried skip moves the player once and a track is queued
once. A command that timed out may still be in the channel, and its id is not
remembered, so that such a retry is an exception (`excused`), as is one after a restart
or an expiry, which forget the ids. `CommandsAreAnswered`: every request ends.
`JoinsAfterPlayback` is what a comment says of a new request; it is false (section 6).

### Playlists

Saved playlists of users and of a room, and the two requests that read one without a
transaction around all their reads. State and code: `lists` is the order of each scope's
`music_playlists`, `name` and `revision` their columns, `items` the order of each
playlist's `music_playlist_items`; `active` is the room's active source, `rows` the queue
rows of each snapshot made (`taken`); `activation` and `clone` are the requests that
activate a playlist and clone the active one; `shared` is the copy that a message shows.

Every edit is one immediate transaction and one action: `Create`, `Import`,
`CloneRoomPlaylist`, `CloneShared`, `Delete`, `Rename`, `Pin`, `Move`, `AddItem`,
`DeleteItems`, `ReorderItems`, `MoveItem`, `BatchAdd`, `Merge`. An activation reads a page
at a time, each a summary, a count and the rows (`ReadSummary`, `CountItems`,
`ReadPage`), and then makes the snapshot under the control lock (`Activate`,
`CleanSnapshots`). The clone of the active playlist reads the state, then the rows, then
writes (`LoadActive`, `LoadRows`, `CloneSnapshot`).

`DeleteAccount` is the deletion of a user (`deleted`), by the user or in the console. The
schema cascades: the user's playlists go, and from the room's playlists the rows that the
user added, whose playlists keep their revision. Who added a row is not kept, so any rows
of the room's playlists may be the ones (`Leftovers`); a user's playlists have rows of
their owner only.

The definitions that a module usually calls `Init`, `Next`, `Spec` and `TypeOK` carry the
module's name here, as `EmptyRoom` has those and one proof module extends both. `Kept` is
what the code's loops and `DELETE`s do to an order of rows: some stay, in their order.

Both orders are sequences, since `sort_order` only orders rows and its gaps are rewritten
by the code itself. `Distinct`, `Merged`, `Consumed` and `Emptied` are what
`mergePlaylists` computes with its map and its counters, said of the sequence of all
source rows. The requests of `music_playlists.go` and `music_room_playlists.go` are the
actions' callers: `MakeRequest`, `ChangeRequest`, `AddRequest` and `ItemsRequest` for a
user's own playlists, the same for the room's from one of its `Admins`
(`RoomMakeRequest` and its like), `RoomCloneRequest` from anybody in the room. Left out:
searches and lists, covers, durations, and changes of who administrates the room.

Properties: `PlaylistsTypeOK` includes the limits and unique names; `MakingLosesNothing`: making a
playlist, by a merge above all, takes no track out of a scope; `UnrevisedIsPlayedWhole`:
when the revision an activation saw first is still the playlist's, the pages it read are
the playlist. The code does not compare them, so a playlist edited meanwhile may be
played with a track missing or twice: the property says that comparing revisions would
tell. It would not for a playlist of the room when an account is deleted between two pages
of the activation, which is the property's exception: rows go from it without a revision,
the next page's offset passes over as many, and tracks that are still in the playlist are
not played.

### StickerAssets

The file of a sticker from its upload to its removal. State and code: `object` and `row`
are the store's files and the rows of `assets`; `expiry` is
`sticker_asset_lifecycle.expires_at` (no row, NULL, to come, past); `packs` and `stickers`
the tables; `messages` what each message shows and quotes; `lock` the mutexes of
`assetLifecycleLocks`; `call` the requests; `cleaner` where `cleanupExpiredStickerAssets`
is; `torn` and `leaked` what an interrupted removal or a failed undoing left (history).

Handlers are cut at each statement: `UploadFile`, `InsertAsset`, `TrackUploaded` with
their undoing; `QuoteMessages` and `InsertMessage`; `AddSticker`, `SaveSticker`,
`ChoosePack`, `AddStickerToPack`, `RetainStickerAsset`; everything that drops a reference
(`DeleteSticker`, `DeleteStickerPack`, `RecallMessage`, `DeleteRoom`, `DeleteByCascade`,
`Forget`) and schedules the expiry of what it dropped under the mutex (`LookForReferences`,
`ScheduleExpiry`). `Reconcile` to `DeleteLifecycle` are a round of the cleanup.
`TimePasses` is the orphan time of an asset. These statements may fail: the insertion of an
asset's row and of its lifecycle, the removal of the row and the file of an upload that
failed, the retaining of an asset (`RetainStickerAsset`), and the cleanup's removal of the
file, the row and the lifecycle.
The others do not fail in the model: a request that fails at its first write has changed
nothing, a round of the cleanup whose query fails ends and is run again, and a
`ScheduleExpiry` that fails leaves what a restart before it leaves. The server may stop
anywhere (`Restart` is `backfillStickerAssetLifecycle`).

Properties: `FilesMatchRows`: what a sticker shows has its row and its file, and the store
has no file that no row names. Exceptions are `torn` (the file went and the row could not)
and `leaked` (an upload could not be undone). `OrphansGo`: what nothing shows goes in the
end, even after a cascade, which schedules nothing. Of messages no such thing is claimed:
`InsertMessage` takes no mutex, so a message may be left with a sticker whose file was
removed meanwhile.

### RoomMessages

The messages of one room. State and code: `messages` by id, with the stamp `created_at`,
whom they mention and whether they were recalled; `answers` are `idempotency_keys`, `told`
what clients were answered; `cursor` is `room_reads`, `level` the notification levels;
`requests` are `message_recall_requests`; `notes` the rows of `room_notifications`;
`queue` and `pushed` the push dispatcher; `hidden` is `message_history_deletions`; `bot` is
`gangBotRoom`; `call` the requests under way and the bot's reply; `reader` a client that
pages through the room.

A send takes its stamp (`SendMessage`), inserts (`InsertMessage`, where the unique index
on sender and client id may send it to the row that is there), announces and mentions
(`Announce`, `NotifyMentioned`), tells the bot (`ObserveMessage`) and answers (`Answer`): a
message may therefore be inserted after one with a later stamp. Reading is `MarkRead`,
`EnsureCursor` and `AdvanceCursor`; recalls are judged, wiped, their notifications
withdrawn and the request settled (`RecallMessage`, `AskForRecall`, `ReviewRecall`,
`WipeMessage`, `WithdrawNotes`, `SettleRequest`). The bot is `BotReads` to `BotRests`.
Pages are `ListPage` with `HasMore`, and `ScanHistory` in batches.

A body is whom it mentions; an attachment is the history category it is in. Left out:
quotes and previews, other rooms and the four slots of replies they share, devices.

Properties: `SentOnce` (a repeated send is one row, one answer, one notification),
`MentionsAreWithdrawn` (unless the wipe came before the sender's notifications, or a
restart between the wipe and the withdrawal: `overtaken`), `BotTakesUpMentions`,
`PagingMissesNothing` and `UnreadFollowsReading`: what was read stays read, nothing stops
being unread but by reading, and the list of rooms shows a newest message that the count
agrees with.

### RoomFeed, EventBus and RoomStream

`RoomFeed` is the promise in the comments of `eventbus/bus.go`: a publisher picks the
streams that listen and hands the event to each without waiting; a stream has its events
in order, loses only its oldest and only when it is full, and gets none once closed.

`EventBus` is the bus: `owner` and `interest` of each subscription, the indexes `byUser`
and `byRoom`, the channels `events`, `closed`, and what each publisher copied under
`bus.mu` and has still to deliver (`sending`). Each action is a critical section
(`Subscribe`, `SetRooms`, `AddUserRoomInterest`, `Publish`, `Deliver`, `CloseChannel`,
`Unregister`). It has no Next: who calls it when is `RoomStream`.

`RoomStream` is `liveStream` of `chat/stream.go` with the publishing of `room_stream.go`.
`conn` is a stream's goroutine: `OpenStream` loads its rooms, `SubscribeStream`,
`SetInterest` and the ready event follow, then `FetchRooms` (the client's `GET /rooms`),
`ReadEvent`, `HangUp` and `LeaveBus`. `jobs` is what a request still publishes after it
committed (`JoinRoom`, `LeaveRoom`, `UpdateRoom`, `UpdateMine`, `JoinLive`, ...), one job
in steps: `Build` the snapshot, read the `Audience`, `SendToUser`, `Hand`. A snapshot is the
room's `version`, with `mine`, the member's own settings, read for each event (`EventFor`).
`latest` is the newest of each that a stream was given (history), `listening` and
`missed` say who talks and which stream loaded its rooms too early to know.

Not every change is announced (`CommitQuietly`). The console's membership pages
(`ConsoleAdd`, `ConsoleRemove`, `ConsoleOwner`) and the deletion of an account
(`DeleteAccount`) publish nothing, and the sweep of the voice rooms (`SweepLive`) publishes
only the live state, to the streams with an interest. LiveKit's webhooks do the same, but
what they write changes no snapshot: `livePreview` counts every row whose state is not
`left`, and they turn no state into `left` or out of it. What somebody changes in their own
profile is unannounced as well and has the effect of a `ConsoleOwner`: a new version of
rooms (the names and avatars of talkers), and no job.

Nor does every announcement succeed. Where `Faults` allows it, the snapshot
(`BuildFails`) or the list of members (`AudienceFails`) cannot be read and the publication
ends there (`Drop`), while the request goes on with its other jobs; or a member's own
settings cannot be read and the snapshot goes without them (`SendBare`). `hushed` are the
streams and rooms of which one of these was the last word: a change that nobody announced,
or an announcement that failed, since a snapshot was built for the stream or its client
listed the rooms (history).

Refinement: `KeepsItsPromise == Feed!Spec` with `stream` from `owner`, `closed` and the
registry, `listens` = `interest`, `box` = `events`, `pending` = `sending`. It holds because
the two indexes are what a search of all streams would find (`BusTypeOK`).

Property: `NobodyMissesOut`. Once nothing is left to publish, every open stream whose
client listed its rooms was given the newest version of each that it is not `hushed` of,
whatever happened while it opened and whatever else failed; and who talks in a room
hears its live events, unless the stream had loaded its interest and not yet set it
(`missed`: `SetRooms` replaces what was added between). That the last snapshot given is
the newest is not claimed: two requests may publish theirs in the other order, and
snapshots have no number. `ChangesArePushed` is the property without the exception of
`hushed`, as `docs/room-stream-sync.md` puts it; with no query failing it is false all
the same (section 6).

## 4. Runs

| Run | Question | Instance |
|---|---|---|
| `media_eviction` | do leases, streams, types, the eviction target and playable rows survive eviction, faults, a removal or a restart? | two rooms with one row and one track each, a cache for one file, a listening player, each statement may fail, 1 upset; 2.4 M states |
| `media_live` | is the shared download of a track live and safe? | two rooms, three rows, one track wanted by both, 1 upset, fair goroutines; 139 k states |
| `live_roster` | do late, lost and reordered webhooks, kicks and the sweep keep to the current session, and do transitions end? | one user, two sessions, every `connection_state` a client may report, 5 requests, connections or losses; 260 k states |
| `empty_room` | does an expiry respect commands and people who came back, and does an empty room expire after all? | one participant, two requests at a time, every fault, 5 requests, faults or restarts; 170 k states |
| `room_membership` | do roles, owner, blacklist and requests stay right when every request's reads are out of date when it writes? | three users and a superuser, two requests at a time, three requests, console commands or deleted accounts in all, a room that asks for approval; 530 k states |
| `music_room` | do the state, the player and the queue agree when any two requests, the player and its end, time-outs, failed connections and restarts meet? | a played row and a row to come, two requests of all 13 operations, 1 upset, a channel for two commands; 1.8 M states |
| `music_room_live` | is every request answered? | two requests to stop or remove, no upsets, fair goroutines; 16 k states |
| `music_request_lost` | does a request "always join after the playback position"? **No** | two requests to enqueue or remove |
| `sticker_assets` | are shown files kept and unused ones removed, whatever fails and whenever the server stops? | an asset in use and one to upload, a room's pack and a personal one, two requests at a time, three in all, 1 failure or restart, fair handlers; 445 k states |
| `room_messages` | do retries, reads, recalls, pages and the bot keep to one another? | a member and an admin, two old messages and two new ones, two requests at a time, seven mixes of requests, 1 restart; 583 k states |
| `playlists` | do edits, merges and copies lose nothing, and is a playlist that nobody edits played whole, whoever's account is deleted? | two users and a room, three playlists of up to three tracks, pages of two, two edits or deleted accounts, one activation and clone at a time; 583 k states |
| `room_stream` | does the bus implement its promise, and does every stream end up with the newest snapshots of what is announced, whatever queries fail? | one room, a member, a user who joins and leaves and a superuser, one stream, two requests at a time, a buffer of two events, three versions, every query of a publisher may fail; 1.1 M states |

Bounds of the media runs. Two rooms and a track both want is the smallest instance in
which a worker waits for another room's transcode, retires a stream it does not own, or
loses a file to another room's cleanup. A cache for one and a half files makes every
second publication evict. Two workers are as many as can be unrecorded here: a room has
one downloading row, and a third worker needs a removal first (the removal is among the
upsets, and the pump waits for a free worker). One upset anywhere in a run meets every
state of the rest. `media_eviction` checks deadlock: somebody can always press play.
`media_live` does not: once the rows are ready or failed and nobody is listening the
pipeline really stops.

Bounds of the live runs. Rows of different users are written independently, except
by `room_finished` and by the sweep's one answer for all, so one user shows every
interleaving of a row; the theorems are for any number. Two sessions are a device
and the one that replaces it; five events are a join and a connection of each and
one more request or loss. Deadlock is not checked, since a roster nobody touches
any more is at rest.

Bounds of the empty-room runs (deadlock is not checked: an empty room is at rest). Only
whether the count is zero matters, so one participant is enough, and two requests of it
at the same time are the smallest instance in which their counts are reported in the
other order. Five events are an entry, a departure, a command and two faults or a second
entry and departure; the timers, checks and clearings in between are not bounded.
Generations grow with the events only.

Bounds of the membership runs (deadlock is not checked: the requests are used up). What
one request does is spoiled by what another does between its steps, so two at a time are
the smallest instance, and a third, before or after them, reaches the states that one
request alone cannot undo (a block and its end, a join request, an invitation). An owner,
an admin and a member, or an owner, a member and somebody outside, with a superuser, are
all the parts a request tells apart; initial states cover the mixtures of roles. The room
starts with the policy `createRoom` gives it; the other policies are a request away. The
theorems are for any number of each and any policy. No fairness: all properties are safety.

Bounds of the music-room runs. Two requests are the smallest instance in which one
waits for the lock, the player or the channel of another; the player, the prepared track
and the switched source are goroutines of their own and not bounded. Two rows and what a
request adds are enough for a row before, at and behind the position. One upset anywhere
meets every state of the rest. `music_room_live` has the two operations that wait for a
player that ends: one under the lock, one without it; with `Compact` no heartbeat hides
that nothing happens. Deadlock is not checked: the requests are used up.

Bounds of the sticker run. A removal is spoiled by a request about the same asset, so one
asset in use would do; the second is uploaded during the run and lets a deletion settle
two assets one after the other. A third request follows on the two that meet (what was
deleted is saved again). Deadlock is checked: the cleanup goes on for ever.

Bounds of the message run. `Mixes` says how many requests of each kind meet, since all
kinds at once are too many and most have nothing to do with one another: two sends with a
retry, two readers against a send, a recall against a forced deletion and a send, a
policy changed during recalls and reviews, and pages against messages that come, are
hidden, deleted or blocked. New ids sort before and after the old ones and stamps are
often equal, so that the order by stamp and id matters. One row per page and two per scan
cut a page anywhere. Deadlock is checked (`Finished` is the room at rest).

Bounds of the playlist run. A playlist is full at three tracks and a scope at two
playlists, so that a merge may use up one source, cut the other, and need the room the
first one leaves. Two edits are one between two pages of an activation and one before or
after it; one of them may be a deleted account. Deadlock is not checked: edits are used up.

Bounds of the stream run. The promise is made to each stream by itself; another stream
shares with it only the two indexes, which `BusTypeOK` ties to each stream's own interest.
Two handlers and the stream's goroutine are three publishers that deliver to it in any
order. `MaxVersion` bounds the changes of a room, a member's own settings among them: three
are the room as it is and a change of each request. A buffer of two drops events. How often
queries fail is not bounded. Deadlock is not checked: changes are used up.

Fairness of `MusicBoxMedia`. Every goroutine that can run does, and one that waits for a
mutex gets it (Go's mutexes have a starvation mode), hence strong fairness for steps
behind a lock, weak for the others, and none for background cleanups. A transcode ends
because `process` has a ten-minute context. Removals, listeners, restarts and faults are
not fair. `PumpsAreNotLost` is claimed of runs without an upset only: after a failed
statement the code itself waits "for the next pump", and a restarted room is silent
until somebody presses play.

Fairness of `LiveRoster`. The ticker runs the sweep for ever (weak fairness of
its statements), time passes (`Age`), and LiveKit, asked again every five seconds,
answers some time (strong fairness of `SweepAsk` against `SweepGivesUp`). No request,
connection or webhook is fair, so `TransitionsEnd` does not rest on them.

Fairness of `EmptyRoom`. Handlers, commands, timers and the calls they start go on
(weak). The control lock is a Go mutex that commands release, so a call that waits
gets it (strong fairness of `Confirm`). Nobody has to come, leave or press anything.

Fairness of `MusicBoxRoom` (`music_room_live` only). Requests and the player's loop go on,
and a mutex is handed on to who waits for it (strong fairness of what is behind a lock);
the loop looks at its channel before and after each packet of a track. Neither tracks
that end, nor time-outs, nor users are fair.

Fairness of `StickerAssets`. A handler that has begun goes on, the ticker calls the
cleanup for ever, and an orphan's time passes. Failures are bounded, not fair.

## 5. Proofs

### `MusicBoxMediaProofs`

For all constants that satisfy `ItemAssumption` and `SizeAssumption`:

* `TypeCorrect`: `Spec => []TypeOK`. `TypeOK` is inductive as it stands, with
  one conjunct that ties a cleanup to the worker waiting for it.
* `RoomsDownloadOneRow`: `Spec => []OneDownloadingRow`. The pump reads the count
  of downloading rows and reserves a slot in two steps, so the invariant needs
  `ReservedSlotFree`: between the two no row of the room is downloading. Only a
  reservation makes a row downloading (`NoNewDownload`) and `pump` holds one
  room at a time.
* `DownloadsHaveWorkers`: `Spec => []DownloadingHasWorker`, whatever fails. A worker that
  leaves its row has written another status, finds the row gone, or has failed to write
  what it had to, which makes the row `stuck`; only a restart, which resets the rows,
  takes rows out of `stuck`.
* `StreamsHaveOwners`: `Spec => []RegisteredStreamHasOwner`, from `StreamInv`,
  which adds what the property leaves out: the cache lock (two workers never
  transcode one track), and where a stream's state can be while its worker runs.
* `WritersKeepStreams`: `Spec => StreamKeptWhileWriting`, an action property,
  from the same `StreamInv`.

* `DownloadsOwned`: both parts of `DownloadsAreOwned`, from the second and the third
  theorem.
* `EvictionIsLawful`: `Spec => []EvictsOnlyWhatItMay`, from `LeaseInv` and `CacheInv`.
  `LeaseInv`: the players that have a track open are finitely many, however many rooms
  there are, and the lease of the track is their number. `CacheInv`: the total that a
  cleanup goes by is never more than there is on the disk, since it was counted at the
  scan and only the cleanup removes files (`WithoutLength`: a removal takes one file at
  most), and from its look at a file to the removal it is above the target.
* `EvictionApartPlayable`: `Spec => PlayableUnlessEvicted`. A row that plays from a stream
  loses it only with the stream's registration or its failure (`WorkerKeepsRow`), so what
  is left are the two steps that register and retire. During the transcode the track's
  lock excludes the first and `TranscodingWrites` (every transcode writes) the second.

### `LiveRosterProofs`

For all constants that satisfy `RosterAssumption`, from one invariant `IInv` with a
lemma per action: `TypeCorrect`, `LateWebhooksSpareNewSessions`
(`ReconnectingLostItsSession`) and `SweepUndoesNothing` (`SweepSparesWrittenRows`).
The second needs `LeftHooksOfLostSessions`: a `participant_left` under way, wherever
it is in the queue and whatever was taken out before it (`RemovedElement`), names a
session that was lost. The third needs `WrittenRowsAreFresh`: while a sweep runs, no
row written since its SELECT is past the cutoff, because a write refreshes
`updated_at` and the cutoffs do not move. `TransitionsEnd` is liveness and is
model-checked only.

### `EmptyRoomPlaylistsProofs`

The theorems about two components of the music box that share neither state nor names.

`EmptyRoom`. For all constants that satisfy `EmptyRoomAssumption`, from one invariant `IInv` with a
lemma per action: `TypeCorrect`, `CommandsSurvive` (`QueuedMusicSurvives`) and
`OldTimersEnd` (`ReusedRoomsAreNotConfirmed`). `IInv` is split in the part of the
timers and calls (`TimersOK`) and the rest (`RosterOK`), since most actions touch one
of them. The first theorem says more than types: an armed timer has the current
generation and no second call serves it, because a call takes its timer away when it
starts. The second needs `ClearingHasSeenEmpty` (a call past its second look has held
the control lock since, so no command came between) and `EmptyIsSeen`; the third
`ReusedGenerationsEnded`: an observed member moves the generation on, wherever the
older timers' calls are. `ObservedEmptyRoomsExpire` is liveness and is model-checked only.

`Playlists`. For all constants that satisfy `PlaylistsAssumption`, which asks of the
library to begin with what the tables keep (limits, a name for one playlist of a scope)
and of the names that there are more than a scope has playlists, as numbered suffixes are:
`PlaylistsTypeCorrect` (`PlaylistsTypeOK`), `PlayedWhole` (`UnrevisedIsPlayedWhole`) and
the action property `MakingKeepsLinks` (`MakingLosesNothing`), from the invariant
`PlaylistsInv`.

* The rows that an edit keeps, and all rows of a merge's sources, are made with
  `FlattenSeq`, a recursive function. What it computes is proved by a least
  counterexample: of the prefixes on which it is not what its recursion says, or does not
  have its parts in order, one would be the first (`FirstMissing`, from a set of numbers
  having a least one). `FlattenPlaces` then says where each row of each part is, and
  `KeptPlaces`, `WithoutPlaces` and `AllPlaces` what that means for the edits.
* `SavedOK` is about the tables and inductive by itself. Every edit is shown to be `Good`:
  it preserves `SavedOK`; it is `Steady` (no id comes back, and a playlist changes only
  together with its revision or, if it is the room's, with the accounts); and it
  `LosesNothing`. Twelve edits are instances of three lemmas (`MakeStep`, `OrderStep`,
  `EditStep`); `DeleteAccountStep` is the deletion of an account. A user with room for a
  playlist has a free name for it because distinct playlists have distinct names (`FreeNameIsFree`).
* A merge loses nothing because the sources are consumed up to the first row that does not
  fit (`ConsumedIs`), and a row behind that is in a source that stays, behind its cut
  (`RowsSurvive`), wherever the limit falls and however often a link occurs.
* `ReadInOrder`: while the playlist has the revision of the first page, what the activation
  has read are its first rows, page by page (`PageRowsFollow`), and the count is its length;
  for a playlist of the room while the accounts are those of the first page.
  `Steady` is what edits must not break of it (`ActivationKept`).

### `RoomMembershipProofs`

For all constants that satisfy `MembershipAssumption`: `TypeCorrect`, `OwnerRecorded`
(`OwnerIsCreator`), `NoOrphans` (`RowsBelong`), `OwnershipKept`
(`OwnershipIsHandedOver`) and `BlocksHold` (`BlockedStayOut`); `RowsInStep` joins the
second and third to the `RowsAgree` of the run. The 13 beginnings, the 10
readings and the 20 writings are handled as three kinds (`Kinds`): every beginning is a
`BeginsWith` and every reading a `GoesOnWith`, so that what they preserve is proved twice
and not 23 times; the writings have a case each, over lemmas about what they share
(`AdmitOK`, `RepairOK`, `EndRoomOK`). The invariant `IInv` has, next to the rows (`RoomOK`,
`RestOK`), what a request knows that stays true whatever happens before it writes:
`TasksOK` (`Proper`: whom it will admit is no superuser, and is among the accounts its
transaction needs) for `NoOrphans`, and `GuardOK` for `BlocksHold`: a request that would
admit somebody who was never free to join since it began will fail, or has yet to look
at the blacklist.

### `MusicBoxRoomProofs`

For all constants that satisfy `RoomAssumption` (of these, `Limit >= 2` is there because a
queue of two rows is where the model begins, and tracks are numbers because ids are):
`TypeCorrect`, `SilentRoomsStop` (`SilentRoomsAreStopped`), `NoWriteIsLost`
(`UpdatesAreNotLost`) and `DoneOnlyOnce` (`DoneOnce`), from one invariant `IInv`.

* `TypeInv` ties each request's step to its operation, the argument and the lock it holds
  (`RequestOK`), and the save under way to the player or to an ended one (`SavingOK`).
* `AnswersOK`: whoever the player or a command in the channel will answer waits for it, and
  for nothing else. Without it an answer could release a request that has moved on.
* `SilentOK`: a room whose player is gone, and no ended player of which has yet to persist,
  is stopped in the database. It needs that a save under way by the player is one of a
  player that saves, as a player that ends stays `ending` until it has written.
* `SkipOK`: the retried skip is in the channel, is being obeyed, or is remembered. It
  rests on `AnswersOK`: a skip is remembered by the request that was answered, and only one
  command names it.
* `RoomOK`: a request that found room and no such track still finds both when it inserts,
  as it holds the control lock and what may happen without the lock only removes rows.

### `RoomStreamProofs`

For all constants that satisfy `RoomStreamAssumption`: `TypeCorrect`,
`NobodyIsForgotten` (`NobodyMissesOut`) and `BusImplementsFeed` (`Spec => Feed!Spec`).

* `TypeInv` has `RegistryOK`, which says of the bus what its own `BusTypeOK` says and what
  `liveStream` adds: a stream is in the two indexes exactly from `Subscribe` to
  `Unregister`, under its own user and its interest; and `JobsOK`, which says how far each
  publisher is with the first of its jobs.
* `PastOK`: nothing that is built, sent or received is newer than the tables.
* `TalkOK`: a stream that is still opening has a talker's room in what it loaded, unless
  it is in `missed`.
* `DebtOK` is what `NobodyMissesOut` lacks to be inductive: while a client does not have
  the newest version of a room, some publisher owes it to it (`OwesVersion`): a job waits
  that will build the snapshot, or carries a newest one and has this user among those it
  has still to send to, or the bus holds its event for this stream. `OwesMine` says the
  same of the member's own settings, which are read for each event and not with the
  snapshot. When every publisher is done nobody owes anything (`OwesNothing`). The debt is
  dropped for who is `hushed`: a quiet change hushes every stream of its rooms and a failing
  query those its job was for, and a built snapshot or a listing takes the debt up again, as
  both are as new as the tables at that moment.
* The refinement has a lemma for each action: subscribing, setting the interest, publishing,
  delivering, reading, closing and unregistering map to the step of `RoomFeed` of that
  name, every other action to none. The steps that pick the streams of an event from the
  indexes use `RegistryOK`.

### `StickerAssetsProofs`

For all constants that satisfy `StickerAssumption`: `TypeCorrect` and
`FilesStayTogether` (`FilesMatchRows`). `IInv` adds who knows what: `CleanerOK` (an asset
that the cleanup removes is shown by no sticker, since it holds the mutex from its second
look to the end, and who would show it again needs that mutex), `UploadsOK` (the cleanup and
other requests know nothing of an asset until its upload is answered, so that undoing an
upload races with nobody), `KnownOK` (stickers, messages and requests name only such
assets) and `RowsHaveFiles` (a row without its file is one the cleanup is about to remove,
or one left `torn`).

### `RoomMessagesProofs`

For all constants that satisfy `MessagesAssumption`: `TypeCorrect`, `MessagesSentOnce`
(`SentOnce`), `RecallsWithdraw` (`MentionsAreWithdrawn`), `BotAnswers`
(`BotTakesUpMentions`), `PagesComplete` (`PagingMissesNothing`) and the action property
`ReadStaysRead` (`UnreadFollowsReading`). `IInv` is `Core`, which speaks of the tables and
the requests, and `ReaderOK` and `PagingOK`, which speak of the client that pages. Every
action but those of the client keeps `Core` and only lets messages grow: none goes, none
changes its sender, stamp or kind, none that is wiped comes back (`Grows`), and
`ReaderKept` shows that such a step leaves the client's pages in order.

* `UniqueOK`, `AnswersOK` and `Fits` (in `CallsOK`): a request that has inserted, or has
  found the message that was there, works on the one row of its sender and client id.
* `OnceOK` for the notifications: who has yet to mention or to push a message is the only
  one, has nobody mentioned and nobody pushed to, and the queue has no message twice.
* `MentionsOK`: who mentions a message that is wiped already was overtaken by the wipe.
* `BotOK`: the bot's reply is a call of its own, and what it replies to is a user's message.
* `Paged`: what the client has still to be given is behind the message it pages from,
  and in a scan behind the message the scan has come to. It rests on the order of messages
  by stamp and id being strict and total (`Order`), on a finite set having a newest and an
  oldest message (`Ends`), and on a page being the newest part of what it is cut from, all
  of it if it is not full (`Pages`).
* `ReadStaysRead` needs that a cursor that is set only moves forward (`CursorsAdvance`) and
  that the newest visible message is unread if any is (`NewestIsLast`).

### What is model-checked only

* Liveness: `DownloadsEnd`, `PumpsAreNotLost`, `TransitionsEnd`,
  `ObservedEmptyRoomsExpire`, `CommandsAreAnswered` and `OrphansGo`. Fairness and ENABLED
  are beyond the prover.
* `JoinsAfterPlayback`, `NoRowStaysDownloading`, `ChangesArePushed`,
  `PlayableUntilRecorded` and `RepairedBeforeRemoval` are false (section 6).

## 6. Findings

`music_request_lost`: the comment in `Enqueue` says that a request always joins after the
playback position, because one sorted before the cursor would never download or play.
`RemoveItem` deletes the row that plays before the player has skipped. A request queued in
between gets its place from the rows that are left and from a cursor that only the skip
moves, and is sorted at or before the row that is still playing; the skip then moves the
cursor past it. PROJECT.json quotes the lines.

Three more comments of the pipeline and a document promise what the code does not keep. No
run of the project checks them. TLC shows each of the first three in the instance of
`MusicBoxMediaEviction.cfg` and the last in that of `RoomStream.cfg`, also with no `Faults`,
when it is added there.

`NoRowStaysDownloading`: the comment in `process` says that a row that could not be read
must not stay downloading, because nothing else clears it and the room would never start
another download. The statement that returns it to pending follows one that has just
failed, and its error is ignored: when it fails as well the row stays downloading, and the
room's pump finds a download under way until the next restart. After a failed `markReady`
it is the same, and `markFailed`, whose error is ignored too, is not even tried twice.

`PlayableUntilRecorded`: the comment of `retireStream` says that a row never looks unplayable
between the end of its transcode and the record of its outcome, and that a newer transcode
of the path is left to its own owner. The owner is known by its row. A process that has
recorded its row and is slow to retire its stream may find that a cleanup of another room
has evicted the file, and that a second process of the same row has registered and
published a newer stream: it retires that one, before the second process has recorded the
row.

`RepairedBeforeRemoval`: the comment of `cleanupBroadcastCache` says that rows are
repaired before a removed file can be selected again. The repair and the removal are two
steps, and a process that has published the file may record its row in between: the row
says ready without a file, players pass over it, and the pump does not prepare it again.

`ChangesArePushed`: `docs/room-stream-sync.md` says (line 9) that members who join and leave
are pushed in real time to the streams that are open. Who joins or leaves in the admin
console, whose account is deleted or whose voice session the sweep ends changes the
snapshot of the room, and no `room_updated` follows. Members keep the old counts until
something else publishes a snapshot of the room or they list their rooms again.

What the code does not prevent and no comment promises is in the notes of the hazards
in PROJECT.json and in the exceptions of section 3.

## 7. Not modelled, and why

Music search, voice moderation and reset codes are planned (section 2). The other pages
of the admin console, profiles, lists and searches are single statements or transactions
with no interleaving of their own. Pure I/O (ffmpeg's process, the upstream HTTP client,
object storage, mail, the push sender), tokens, texts and configuration have no behaviour
to check. Identifiers are one transaction per number over a sequence table.
