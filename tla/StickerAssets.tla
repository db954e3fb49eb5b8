---------------------------- MODULE StickerAssets ----------------------------
(***************************************************************************)
(* The files of stickers, from their upload to their removal:              *)
(* src/internal/chat/uploads.go, stickers.go, sticker_asset_lifecycle.go,  *)
(* the parts of messages_core.go, message_admin.go and room_members.go     *)
(* that attach, quote or delete a sticker, and src/internal/storage.       *)
(*                                                                         *)
(* An asset is a file in the store and a row of assets.  Nobody owns it:   *)
(* it lives while a sticker of a pack or a message shows it, and the table *)
(* sticker_asset_lifecycle says when one that nothing shows may be removed.*)
(* A statement or a transaction is one step.  A request that is refused    *)
(* before it changes anything has no step.  The names and the order of the *)
(* stickers in a pack, avatars and files of other purposes are left out.   *)
(***************************************************************************)
EXTENDS Integers, FiniteSets, Sequences, SequencesExt

CONSTANTS
    Assets,         \* asset ids, each given to one upload
    None,
    Packs,          \* ids of sticker packs
    RoomPacks,      \* those of the room; the others are personal
    OldAsset,       \* the asset of a sticker that was added before,
    OldPack,        \* and its pack
    Handlers,       \* bound: requests at the same time
    Ops,            \* the requests that users make
    MaxCalls,       \* bound: requests in all
    MaxUpsets       \* bound: failed statements and restarts

ASSUME StickerAssumption ==
    /\ None \notin Assets \cup Packs \cup Handlers
    /\ "cleaner" \notin Handlers \cup {None}
    /\ RoomPacks \subseteq Packs
    /\ OldAsset \in Assets /\ OldPack \in Packs
    /\ MaxCalls \in Nat /\ MaxUpsets \in Nat

VARIABLES
    upload,         \* an asset's id: unused, "begun" or "answered" to the client
    object,         \* assets whose file is in the store
    row,            \* assets with a row
    expiry,         \* sticker_asset_lifecycle.expires_at: no row, NULL, to come, past
    packs,          \* sticker_packs: not yet made, live, or deleted
    stickers,       \* the rows of stickers
    room,           \* the room exists
    messages,       \* its messages: the sticker each shows and the one it quotes
    lock,           \* assetLifecycleLocks: who holds each asset's mutex
    call,           \* the requests under way
    cleaner,        \* RunStickerAssetCleanup
    left,           \* what is left of MaxCalls
    upsets,         \* failures and restarts so far
    torn,           \* history: a removal ended between the file and the row
    leaked          \* history: an upload failed or was interrupted and left
                    \* a file without a row or a row without a record

files == <<object, row, expiry, torn, leaked>>
shown == <<packs, stickers, room, messages>>
vars == <<upload, files, shown, lock, call, cleaner, left, upsets>>

Steps == {"idle", "insert", "track", "unrow", "unput", "post", "available",
          "pack", "add", "retain", "forget", "schedule", "settle"}
Sticker == [id : Nat, pack : Packs, asset : Assets]
Message == [shows : Assets \cup {None}, quotes : Assets \cup {None}]
Call == [pc : Steps, asset : Assets \cup {None}, quote : Assets \cup {None},
         pack : Packs \cup {None}, id : Nat, what : {"", "sticker", "pack", "room", "message"},
         assets : SUBSET Assets, seen : BOOLEAN]
Idle == [pc |-> "idle", asset |-> None, quote |-> None, pack |-> None, id |-> 0,
         what |-> "", assets |-> {}, seen |-> FALSE]
Resting == [pc |-> "idle", due |-> {}, asset |-> None]

\* The variables have their types, and an asset's mutex is held by a request that is
\* settling it or by the cleaner while it looks at it.
TypeOK ==
    /\ upload \in [Assets -> {"unused", "begun", "answered"}]
    /\ object \subseteq Assets /\ row \subseteq Assets
    /\ torn \subseteq Assets /\ leaked \subseteq Assets
    /\ expiry \in [Assets -> {"none", "never", "later", "due"}]
    /\ packs \in [Packs -> {"new", "live", "gone"}]
    /\ stickers \subseteq Sticker
    /\ room \in BOOLEAN
    /\ messages \in Seq(Message)
    /\ lock \in [Assets -> Handlers \cup {"cleaner", None}]
    /\ call \in [Handlers -> Call]
    /\ cleaner \in [pc : {"idle", "list", "next", "check", "keep", "object", "row", "record"},
                    due : SUBSET Assets, asset : Assets \cup {None}]
    /\ left \in 0 .. MaxCalls /\ upsets \in 0 .. MaxUpsets
    /\ \A h \in Handlers, a \in Assets :
          (lock[a] = h) <=> (call[h].pc = "settle" /\ call[h].asset = a)
    /\ \A a \in Assets :
          (lock[a] = "cleaner") <=> (cleaner.asset = a)

Known == {a \in Assets : upload[a] = "answered"}
LivePacks == {p \in Packs : packs[p] = "live"}
InPack(p) == {s \in stickers : s.pack = p}
AssetsOf(ss) == {s.asset : s \in ss}
ShownBy(ms) == ({m.shows : m \in ms} \cup {m.quotes : m \in ms}) \ {None}

\* stickerAssetReferenced.  The stickers cannot gain a row of a under its mutex, so
\* reading them before the messages sees what one look at both would see.
Referenced(a) == a \in AssetsOf(stickers) \cup ShownBy(ToSet(messages))

\* retainStickerAsset and setStickerAssetExpiry write nothing for an asset without a row.
SetExpiry(a, when) == expiry' = IF a \in row THEN [expiry EXCEPT ![a] = when] ELSE expiry

\* RegisterRoutes and a database with one sticker.
Init ==
    /\ upload = [a \in Assets |-> IF a = OldAsset THEN "answered" ELSE "unused"]
    /\ object = {OldAsset} /\ row = {OldAsset} /\ torn = {} /\ leaked = {}
    /\ expiry = [a \in Assets |-> IF a = OldAsset THEN "never" ELSE "none"]
    /\ packs = [p \in Packs |-> IF p = OldPack THEN "live" ELSE "new"]
    /\ stickers = {[id |-> 0, pack |-> OldPack, asset |-> OldAsset]}
    /\ room = TRUE
    /\ messages = <<>>
    /\ lock = [a \in Assets |-> None]
    /\ call = [h \in Handlers |-> Idle]
    /\ cleaner = Resting
    /\ left = MaxCalls
    /\ upsets = 0
-----------------------------------------------------------------------------
Begin(h, op) ==
    /\ op \in Ops
    /\ call[h].pc = "idle"
    /\ left > 0
    /\ left' = left - 1

At(h, pc) == call[h].pc = pc /\ left' = left
Continue(h, c) == call' = [call EXCEPT ![h] = c]
Goto(h, pc) == call' = [call EXCEPT ![h].pc = pc]
End(h) == Continue(h, Idle)

Works == upsets' = upsets
Fails == upsets < MaxUpsets /\ upsets' = upsets + 1

(* uploadFile with the purpose sticker *)

\* The bytes are in a temporary file; PutFile renames them into place or fails
\* without a trace.
UploadFile(h) ==
    /\ Begin(h, "upload")
    /\ \E a \in Assets :
          /\ upload[a] = "unused"
          /\ upload' = [upload EXCEPT ![a] = "begun"]
          /\ object' = object \cup {a}
          /\ Continue(h, [Idle EXCEPT !.pc = "insert", !.asset = a])
    /\ UNCHANGED <<row, expiry, torn, leaked, shown, lock, cleaner, upsets>>

InsertAsset(h) ==
    /\ At(h, "insert")
    /\ \/ Works /\ row' = row \cup {call[h].asset} /\ Goto(h, "track")
       \/ Fails /\ row' = row /\ Goto(h, "unput")
    /\ UNCHANGED <<upload, object, expiry, torn, leaked, shown, lock, cleaner>>

\* trackUploadedStickerAsset: an upload that is never used expires.
TrackUploaded(h) ==
    /\ At(h, "track")
    /\ \/ /\ Works
          /\ SetExpiry(call[h].asset, "later")
          /\ upload' = [upload EXCEPT ![call[h].asset] = "answered"]
          /\ End(h)
       \/ Fails /\ Goto(h, "unrow") /\ UNCHANGED <<expiry, upload>>
    /\ UNCHANGED <<object, row, torn, leaked, shown, lock, cleaner>>

\* What an upload that failed has stored is removed; what failed may fail again,
\* and errors are ignored.
UndoInsert(h) ==
    /\ At(h, "unrow")
    /\ Works
    /\ \/ row' = row \ {call[h].asset} /\ leaked' = leaked
       \/ row' = row /\ leaked' = leaked \cup {call[h].asset}
    /\ Goto(h, "unput")
    /\ UNCHANGED <<upload, object, expiry, torn, shown, lock, cleaner>>

UndoPut(h) ==
    /\ At(h, "unput")
    /\ Works
    /\ \/ object' = object \ {call[h].asset} /\ leaked' = leaked
       \/ object' = object /\ leaked' = leaked \cup {call[h].asset}
    /\ End(h)
    /\ UNCHANGED <<upload, row, expiry, torn, shown, lock, cleaner>>

(* sendMessage, as far as stickers go *)

\* A client attaches what it has been told of, deleted or not; a quoted message
\* must be there, and its sticker is copied into the new one.
QuoteMessages(h) ==
    /\ Begin(h, "send")
    /\ room
    /\ \E a \in Known \cup {None}, q \in {None} \cup {m.shows : m \in ToSet(messages)} :
          /\ <<a, q>> # <<None, None>>
          /\ Continue(h, [Idle EXCEPT !.pc = "post", !.asset = a, !.quote = q])
    /\ UNCHANGED <<upload, files, shown, lock, cleaner, upsets>>

InsertMessage(h) ==
    /\ At(h, "post")
    /\ messages' = IF room
                   THEN Append(messages, [shows |-> call[h].asset, quotes |-> call[h].quote])
                   ELSE messages
    /\ End(h)
    /\ UNCHANGED <<upload, files, packs, stickers, room, lock, cleaner, upsets>>

(* createStickerPack, addSticker and saveSticker *)

\* One transaction; with foreign keys a room's pack needs the room.
CreateStickerPack(h) ==
    /\ Begin(h, "createPack")
    /\ \E p \in Packs :
          /\ packs[p] = "new"
          /\ p \in RoomPacks => room
          /\ packs' = [packs EXCEPT ![p] = "live"]
    /\ UNCHANGED <<upload, files, stickers, room, messages, lock, call, cleaner, upsets>>

AddSticker(h) ==
    /\ Begin(h, "add")
    /\ \E p \in LivePacks, a \in Known :
          Continue(h, [Idle EXCEPT !.pc = "add", !.asset = a, !.pack = p, !.id = left])
    /\ UNCHANGED <<upload, files, shown, lock, cleaner, upsets>>

\* A sticker that the user can see is saved as it is.
SaveSticker(h) ==
    /\ Begin(h, "save")
    /\ \E a \in AssetsOf(stickers) :
          Continue(h, [Idle EXCEPT !.pc = "pack", !.asset = a, !.id = left])
    /\ UNCHANGED <<upload, files, shown, lock, cleaner, upsets>>

\* One that is only in a message must still have its file.
SaveStickerOfMessage(h) ==
    /\ Begin(h, "save")
    /\ \E m \in ToSet(messages) :
          /\ m.shows # None
          /\ Continue(h, [Idle EXCEPT !.pc = "available", !.asset = m.shows, !.id = left])
    /\ UNCHANGED <<upload, files, shown, lock, cleaner, upsets>>

StickerAssetAvailable(h) ==
    /\ At(h, "available")
    /\ IF call[h].asset \in row \cap object THEN Goto(h, "pack") ELSE End(h)
    /\ UNCHANGED <<upload, files, shown, lock, cleaner, upsets>>

\* The pack that was named, or the default one, which is made where there is none.
ChoosePack(h) ==
    /\ At(h, "pack")
    /\ \/ \E p \in Packs :
             /\ packs[p] # "gone"
             /\ p \in RoomPacks => room
             /\ packs' = [packs EXCEPT ![p] = "live"]
             /\ call' = [call EXCEPT ![h].pc = "add", ![h].pack = p]
       \/ LivePacks = {} /\ End(h) /\ packs' = packs
    /\ UNCHANGED <<upload, files, stickers, room, messages, lock, cleaner, upsets>>

\* Mutant: the asset's mutex is not taken.
AddStickerUnlocked(h) ==
    LET c == call[h] IN
    /\ At(h, "add")
    /\ IF packs[c.pack] = "live" /\ c.asset \in row
       THEN /\ stickers' = stickers \cup {[id |-> c.id, pack |-> c.pack, asset |-> c.asset]}
            /\ Goto(h, "retain")
       ELSE stickers' = stickers /\ End(h)
    /\ UNCHANGED <<upload, files, packs, room, messages, lock, cleaner, upsets>>

\* The asset's mutex is taken for the transaction only, which finds the pack and
\* fails without the asset's row (stickers.asset_id REFERENCES assets).
AddStickerToPack(h) ==
    LET c == call[h] IN
    /\ At(h, "add")
    /\ lock[c.asset] = None
    /\ IF packs[c.pack] = "live" /\ c.asset \in row
       THEN /\ stickers' = stickers \cup {[id |-> c.id, pack |-> c.pack, asset |-> c.asset]}
            /\ Goto(h, "retain")
       ELSE stickers' = stickers /\ End(h)
    /\ UNCHANGED <<upload, files, packs, room, messages, lock, cleaner, upsets>>

\* After the mutex; an error is logged.
RetainStickerAsset(h) ==
    /\ At(h, "retain")
    /\ \/ Works /\ SetExpiry(call[h].asset, "never")
       \/ Fails /\ expiry' = expiry
    /\ End(h)
    /\ UNCHANGED <<upload, object, row, torn, leaked, shown, lock, cleaner>>

(* deleteSticker, deleteStickerPack, recalls, forced deletions and deleteRoom *)

\* The request reads which assets it is about to drop.
DeleteSticker(h) ==
    /\ Begin(h, "delete")
    /\ \E s \in stickers :
          Continue(h, [Idle EXCEPT !.pc = "forget", !.what = "sticker", !.id = s.id,
                                   !.assets = {s.asset}])
    /\ UNCHANGED <<upload, files, shown, lock, cleaner, upsets>>

DeleteStickerPack(h) ==
    /\ Begin(h, "delete")
    /\ \E p \in LivePacks :
          Continue(h, [Idle EXCEPT !.pc = "forget", !.what = "pack", !.pack = p,
                                   !.assets = AssetsOf(InPack(p))])
    /\ UNCHANGED <<upload, files, shown, lock, cleaner, upsets>>

RecallMessage(h) ==
    /\ Begin(h, "recall")
    /\ \E i \in DOMAIN messages :
          Continue(h, [Idle EXCEPT !.pc = "forget", !.what = "message", !.id = i,
                                   !.assets = ShownBy({messages[i]})])
    /\ UNCHANGED <<upload, files, shown, lock, cleaner, upsets>>

DeleteRoom(h) ==
    /\ Begin(h, "deleteRoom")
    /\ room
    /\ Continue(h, [Idle EXCEPT !.pc = "forget", !.what = "room",
                       !.assets = ShownBy(ToSet(messages))
                                  \cup AssetsOf(UNION {InPack(p) : p \in RoomPacks})])
    /\ UNCHANGED <<upload, files, shown, lock, cleaner, upsets>>

\* The last member leaves, or an account with a personal pack is deleted: nothing
\* is read and nothing will be scheduled.
DeleteByCascade(h) ==
    /\ Begin(h, "cascade")
    /\ \/ room /\ Continue(h, [Idle EXCEPT !.pc = "forget", !.what = "room"])
       \/ \E p \in LivePacks \ RoomPacks :
             Continue(h, [Idle EXCEPT !.pc = "forget", !.what = "pack", !.pack = p])
    /\ UNCHANGED <<upload, files, shown, lock, cleaner, upsets>>

GonePacks(ps) == packs' = [p \in Packs |-> IF p \in ps THEN "gone" ELSE packs[p]]

\* The statement that deletes, with its cascades.
Forget(h) ==
    LET c == call[h] IN
    /\ At(h, "forget")
    /\ \/ /\ c.what = "sticker"
          /\ stickers' = {s \in stickers : s.id # c.id}
          /\ UNCHANGED <<packs, room, messages>>
       \/ /\ c.what = "pack"
          /\ stickers' = stickers \ InPack(c.pack)
          /\ GonePacks({c.pack})
          /\ UNCHANGED <<room, messages>>
       \/ /\ c.what = "message"
          /\ messages' = IF c.id \in DOMAIN messages
                         THEN [messages EXCEPT ![c.id] = [shows |-> None, quotes |-> None]]
                         ELSE messages
          /\ UNCHANGED <<packs, stickers, room>>
       \/ /\ c.what = "room"
          /\ room' = FALSE
          /\ messages' = <<>>
          /\ stickers' = {s \in stickers : s.pack \notin RoomPacks}
          /\ GonePacks(RoomPacks)
    /\ IF c.assets = {} THEN End(h) ELSE Goto(h, "schedule")
    /\ UNCHANGED <<upload, files, lock, cleaner, upsets>>

\* scheduleStickerAssetExpiry for one asset after the other: under its mutex, what
\* is still shown is kept and what is not will expire.
LookForReferences(h) ==
    /\ At(h, "schedule")
    /\ \E a \in call[h].assets :
          /\ lock[a] = None
          /\ lock' = [lock EXCEPT ![a] = h]
          /\ call' = [call EXCEPT ![h].pc = "settle", ![h].asset = a,
                                  ![h].seen = Referenced(a)]
    /\ UNCHANGED <<upload, files, shown, cleaner, upsets>>

\* Mutant: a request with more assets to settle goes on with the mutex of the last.
ScheduleExpiryLocked(h) ==
    LET c == call[h]
        rest == c.assets \ {c.asset}
    IN
    /\ At(h, "settle")
    /\ SetExpiry(c.asset, IF c.seen THEN "never" ELSE "later")
    /\ lock' = [lock EXCEPT ![c.asset] = IF rest = {} THEN None ELSE h]
    /\ IF rest = {} THEN End(h)
       ELSE Continue(h, [Idle EXCEPT !.pc = "schedule", !.assets = rest])
    /\ UNCHANGED <<upload, object, row, torn, leaked, shown, cleaner, upsets>>


ScheduleExpiry(h) ==
    LET c == call[h]
        rest == c.assets \ {c.asset}
    IN
    /\ At(h, "settle")
    /\ SetExpiry(c.asset, IF c.seen THEN "never" ELSE "later")
    /\ lock' = [lock EXCEPT ![c.asset] = None]
    /\ IF rest = {} THEN End(h)
       ELSE Continue(h, [Idle EXCEPT !.pc = "schedule", !.assets = rest])
    /\ UNCHANGED <<upload, object, row, torn, leaked, shown, cleaner, upsets>>

HandlerStep(h) ==
    \/ InsertAsset(h) \/ TrackUploaded(h) \/ UndoInsert(h) \/ UndoPut(h)
    \/ InsertMessage(h)
    \/ StickerAssetAvailable(h) \/ ChoosePack(h) \/ AddStickerToPack(h) \/ RetainStickerAsset(h)
    \/ Forget(h) \/ LookForReferences(h) \/ ScheduleExpiry(h)

NewCall(h) ==
    \/ UploadFile(h) \/ QuoteMessages(h) \/ CreateStickerPack(h) \/ AddSticker(h)
    \/ SaveSticker(h) \/ SaveStickerOfMessage(h)
    \/ DeleteSticker(h) \/ DeleteStickerPack(h) \/ RecallMessage(h)
    \/ DeleteRoom(h) \/ DeleteByCascade(h)
-----------------------------------------------------------------------------
(* cleanupExpiredStickerAssets, at start and at every tick *)

Cleaning(pc) == cleaner.pc = pc
UsersKept == UNCHANGED <<upload, shown, call, left>>

\* The cleaner gives the mutex back and takes the next asset, or ends the round.
NextAsset == /\ lock' = [lock EXCEPT ![cleaner.asset] = None]
             /\ cleaner' = [cleaner EXCEPT !.pc = "next", !.asset = None]
EndRound == /\ lock' = [lock EXCEPT ![cleaner.asset] = None]
            /\ cleaner' = Resting

\* Mutant: nothing is done for what cascades and interrupted requests have left.
ReconcileNothing ==
    /\ Cleaning("idle")
    /\ cleaner' = [cleaner EXCEPT !.pc = "list"]
    /\ UsersKept
    /\ UNCHANGED <<files, lock, upsets>>

\* reconcileUnreferencedStickerAssets: one statement for what cascades and
\* interrupted requests have left behind.
Reconcile ==
    /\ Cleaning("idle")
    /\ expiry' = [a \in Assets |-> IF expiry[a] = "never" /\ a \in row /\ ~Referenced(a)
                                   THEN "later" ELSE expiry[a]]
    /\ cleaner' = [cleaner EXCEPT !.pc = "list"]
    /\ UsersKept
    /\ UNCHANGED <<object, row, torn, leaked, lock, upsets>>

\* A round without candidates ends here.
ListExpired ==
    LET due == {a \in row : expiry[a] = "due"} IN
    /\ Cleaning("list")
    /\ cleaner' = IF due = {} THEN Resting ELSE [Resting EXCEPT !.pc = "next", !.due = due]
    /\ UsersKept
    /\ UNCHANGED <<files, lock, upsets>>

TakeCandidate ==
    /\ Cleaning("next")
    /\ \/ \E a \in cleaner.due :
             /\ lock[a] = None
             /\ IF expiry[a] = "due"
                THEN /\ lock' = [lock EXCEPT ![a] = "cleaner"]
                     /\ cleaner' = [pc |-> "check", due |-> cleaner.due \ {a}, asset |-> a]
                ELSE /\ lock' = lock
                     /\ cleaner' = [cleaner EXCEPT !.due = @ \ {a}]
       \/ cleaner.due = {} /\ cleaner' = Resting /\ lock' = lock
    /\ UsersKept
    /\ UNCHANGED <<files, upsets>>

CheckAgain ==
    /\ Cleaning("check")
    /\ cleaner' = [cleaner EXCEPT !.pc = IF Referenced(cleaner.asset) THEN "keep" ELSE "object"]
    /\ UsersKept
    /\ UNCHANGED <<files, lock, upsets>>

KeepAsset ==
    /\ Cleaning("keep")
    /\ SetExpiry(cleaner.asset, "never")
    /\ NextAsset
    /\ UsersKept
    /\ UNCHANGED <<object, row, torn, leaked, upsets>>

\* The file goes first, so that a row is never lost while its file remains.
DeleteObject ==
    /\ Cleaning("object")
    /\ \/ /\ Works
          /\ object' = object \ {cleaner.asset}
          /\ cleaner' = [cleaner EXCEPT !.pc = "row"]
          /\ lock' = lock
       \/ Fails /\ object' = object /\ EndRound
    /\ UsersKept
    /\ UNCHANGED <<row, expiry, torn, leaked>>

\* DELETE FROM assets, which cascades to the stickers that show it.
DeleteRow ==
    LET a == cleaner.asset IN
    /\ Cleaning("row")
    /\ \/ /\ Works
          /\ row' = row \ {a}
          /\ stickers' = {s \in stickers : s.asset # a}
          /\ cleaner' = [cleaner EXCEPT !.pc = "record"]
          /\ UNCHANGED <<torn, lock>>
       \/ Fails /\ torn' = torn \cup {a} /\ EndRound /\ UNCHANGED <<row, stickers>>
    /\ UNCHANGED <<upload, call, left, packs, room, messages, object, expiry, leaked>>

DeleteLifecycle ==
    /\ Cleaning("record")
    /\ \/ Works /\ expiry' = [expiry EXCEPT ![cleaner.asset] = "none"] /\ NextAsset
       \/ Fails /\ expiry' = expiry /\ EndRound
    /\ UsersKept
    /\ UNCHANGED <<object, row, torn, leaked>>

Clean == \/ Reconcile \/ ListExpired \/ TakeCandidate \/ CheckAgain \/ KeepAsset
         \/ DeleteObject \/ DeleteRow \/ DeleteLifecycle

\* The orphan TTL of an asset passes.
TimePasses(a) ==
    /\ expiry[a] = "later"
    /\ expiry' = [expiry EXCEPT ![a] = "due"]
    /\ UNCHANGED <<upload, object, row, torn, leaked, shown, lock, call, cleaner, left, upsets>>

\* The server stops and starts again.  Requests, mutexes and the cleaner's round are
\* lost; backfillStickerAssetLifecycle gives every asset a lifecycle row.
Restart ==
    /\ Fails
    /\ call' = [h \in Handlers |-> Idle]
    /\ cleaner' = Resting
    /\ lock' = [a \in Assets |-> None]
    /\ expiry' = [a \in Assets |-> IF expiry[a] # "none" \/ a \notin row THEN expiry[a]
                                   ELSE IF Referenced(a) THEN "never" ELSE "later"]
    /\ torn' = torn \cup (IF Cleaning("row") THEN {cleaner.asset} ELSE {})
    /\ leaked' = leaked \cup {call[h].asset : h \in {i \in Handlers :
                                 call[i].pc \in {"insert", "unput"}}}
    /\ UNCHANGED <<upload, object, row, shown, left>>

Next ==
    \/ \E h \in Handlers : NewCall(h) \/ HandlerStep(h)
    \/ Clean
    \/ \E a \in Assets : TimePasses(a)
    \/ Restart

\* A handler that has begun goes on, a mutex goes to each who waits for it in
\* turn, the ticker goes on, and time passes.
Spec ==
    /\ Init /\ [][Next]_vars
    /\ \A h \in Handlers : WF_vars(HandlerStep(h))
    /\ WF_vars(Clean)
    /\ \A a \in Assets : WF_vars(TimePasses(a))
-----------------------------------------------------------------------------
(* Properties *)

\* A sticker can be shown: its asset has a row and a file.  The exception is an asset whose removal
\* was interrupted after its file was gone (sticker_asset_lifecycle.go:360): its row
\* remains, and lets stickers be added that cannot be shown.
StickersHaveFiles ==
    \A s \in stickers : s.asset \in row /\ s.asset \in object \cup torn

\* The store holds no file that the database does not know of.  Uploads under way, and those that were
\* interrupted or could not be undone (uploads.go:125-133), are the exceptions.
FilesHaveRows ==
    object \subseteq row \cup leaked
                     \cup {call[h].asset : h \in {i \in Handlers :
                              call[i].pc \in {"insert", "unput"}}}

\* Stickers, rows and files stay together, whatever is uploaded, added, saved, deleted
\* or cleaned up at the same time: what a sticker shows is there, and what is there can
\* be found by the cleanup, which lists rows.
FilesMatchRows == StickersHaveFiles /\ FilesHaveRows

\* What nothing shows any more goes in the end, with its row and its file, whichever
\* way the last one that showed it went: by a request, by one that was interrupted,
\* or by a cascade that schedules nothing.  The exception is a row that a failed upload
\* could not delete (uploads.go:132): only the next start of the server schedules it.
Orphan(a) == a \in row \ leaked /\ ~Referenced(a)
OrphansGo ==
    \A a \in Assets : Orphan(a) ~> ~Orphan(a)
=============================================================================
