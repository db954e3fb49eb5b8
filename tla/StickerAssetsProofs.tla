------------------------ MODULE StickerAssetsProofs ------------------------
(***************************************************************************)
(* Stickers, rows and files stay together for every number of assets,      *)
(* packs, requests, failures and restarts.                                 *)
(***************************************************************************)
EXTENDS StickerAssets, SequenceTheorems, TLAPS

Uploading(h) == call[h].pc \in {"insert", "track", "unrow", "unput"}

\* What the cleaner looks at was uploaded; a file that it removes is shown by no
\* sticker, since it holds the asset's mutex from its second look on.
CleanerOK ==
    /\ cleaner.asset # None <=> cleaner.pc \in {"check", "keep", "object", "row", "record"}
    /\ \A a \in row \cup object \cup cleaner.due \cup ({cleaner.asset} \ {None}) : upload[a] # "unused"
    /\ cleaner.pc \in {"object", "row"} => cleaner.asset \notin AssetsOf(stickers)
    /\ cleaner.pc = "row" => cleaner.asset \notin object

\* The cleaner and other requests do not know of an asset while it is uploaded.
UploadsOK ==
    /\ \A a \in Assets : upload[a] = "unused" => expiry[a] = "none"
    /\ \A h \in Handlers : Uploading(h) =>
          LET a == call[h].asset IN
          /\ a \in Assets /\ upload[a] = "begun" /\ expiry[a] = "none"
          /\ a \notin cleaner.due /\ a # cleaner.asset
          /\ call[h].pc \in {"insert", "track"} => a \in object
    /\ \A h, i \in Handlers : Uploading(h) /\ Uploading(i) /\ h # i => call[h].asset # call[i].asset

\* What stickers, messages and requests name was answered to a client.
Named(c) ==
    /\ c.pc \in {"available", "pack", "add", "retain", "settle"} => c.asset \in Known
    /\ c.pc = "post" => {c.asset, c.quote} \subseteq Known \cup {None}
    /\ c.pc = "add" \/ c.what = "pack" => c.pack \in Packs
    /\ c.assets \subseteq Known

KnownOK ==
    /\ AssetsOf(stickers) \subseteq Known
    /\ \A i \in DOMAIN messages : {messages[i].shows, messages[i].quotes} \subseteq Known \cup {None}
    /\ \A h \in Handlers : Named(call[h])

\* The cleaner removes a file just before its row.
RowsHaveFiles ==
    \A a \in row \cap Known : \/ a \in object \cup torn
                              \/ cleaner.pc = "row" /\ cleaner.asset = a

IInv == TypeOK /\ CleanerOK /\ UploadsOK /\ KnownOK /\ RowsHaveFiles /\ FilesMatchRows
-----------------------------------------------------------------------------
(* Types                                                                   *)

Tables ==
    /\ upload \in [Assets -> {"unused", "begun", "answered"}]
    /\ object \subseteq Assets /\ row \subseteq Assets
    /\ torn \subseteq Assets /\ leaked \subseteq Assets
    /\ expiry \in [Assets -> {"none", "never", "later", "due"}]
    /\ packs \in [Packs -> {"new", "live", "gone"}]
    /\ stickers \subseteq Sticker
    /\ room \in BOOLEAN
    /\ messages \in Seq(Message)
    /\ left \in 0 .. MaxCalls /\ upsets \in 0 .. MaxUpsets

CleanerType == [pc : {"idle", "list", "next", "check", "keep", "object", "row", "record"},
                due : SUBSET Assets, asset : Assets \cup {None}]

Locks ==
    /\ lock \in [Assets -> Handlers \cup {"cleaner", None}]
    /\ call \in [Handlers -> Call]
    /\ cleaner \in CleanerType
    /\ \A h \in Handlers, a \in Assets :
          (lock[a] = h) <=> (call[h].pc = "settle" /\ call[h].asset = a)
    /\ \A a \in Assets :
          (lock[a] = "cleaner") <=> (cleaner.asset = a)

LEMMA Parts == TypeOK <=> Tables /\ Locks
  BY DEF TypeOK, Tables, Locks, CleanerType

LEMMA IdleOK ==
    /\ Idle \in Call /\ Idle.pc = "idle" /\ Idle.what = "" /\ Idle.assets = {}
    /\ Resting \in CleanerType /\ Resting.pc = "idle" /\ Resting.asset = None /\ Resting.due = {}
  BY DEF Idle, Call, Steps, Resting, CleanerType

\* A request that neither takes nor gives back a mutex.
LEMMA CallChanges ==
    ASSUME Locks, NEW h \in Handlers, call[h].pc # "settle",
           NEW c \in Call, c.pc # "settle", Continue(h, c), UNCHANGED <<lock, cleaner>>
    PROVE  Locks'
<1>1. call' \in [Handlers -> Call] /\ call'[h] = c /\ \A i \in Handlers \ {h} : call'[i] = call[i]
  BY DEF Locks, Continue
<1> QED BY <1>1 DEF Locks

\* The same record with another place.
LEMMA GotoIs ==
    ASSUME Locks, NEW h \in Handlers, NEW pc \in Steps, Goto(h, pc)
    PROVE  LET c == [call[h] EXCEPT !.pc = pc]
           IN  c \in Call /\ c.pc = pc /\ Continue(h, c)
<1>1. call[h] \in Call
  BY DEF Locks
<1> QED BY <1>1 DEF Goto, Continue, Call

\* A new call that uploads nothing.
LEMMA NewCallIs ==
    ASSUME TypeOK, KnownOK, NEW h \in Handlers, NewCall(h), ~UploadFile(h)
    PROVE  /\ call[h].pc = "idle" /\ left > 0 /\ left' = left - 1
           /\ UNCHANGED <<upload, files, stickers, room, messages, lock, cleaner, upsets>>
           /\ packs' \in [Packs -> {"new", "live", "gone"}]
           /\ \E c \in Call : /\ Continue(h, c) /\ Named(c)
                              /\ c.pc \in {"idle", "post", "pack", "add", "available", "forget"}
<1>0. call[h].pc = "idle" /\ left > 0 /\ left' = left - 1
  BY DEF NewCall, QuoteMessages, CreateStickerPack, AddSticker, SaveSticker, SaveStickerOfMessage,
         DeleteSticker, DeleteStickerPack, RecallMessage, DeleteRoom, DeleteByCascade, Begin
<1>1. UNCHANGED <<upload, files, stickers, room, messages, lock, cleaner, upsets>>
  BY DEF NewCall, QuoteMessages, CreateStickerPack, AddSticker, SaveSticker, SaveStickerOfMessage,
         DeleteSticker, DeleteStickerPack, RecallMessage, DeleteRoom, DeleteByCascade, shown, files
<1>2. packs' \in [Packs -> {"new", "live", "gone"}]
  <2>1. CASE CreateStickerPack(h)
    BY <2>1 DEF CreateStickerPack, TypeOK
  <2>2. CASE ~CreateStickerPack(h)
    <3>1. UNCHANGED packs
      BY <2>2 DEF NewCall, QuoteMessages, AddSticker, SaveSticker, SaveStickerOfMessage, DeleteSticker,
                  DeleteStickerPack, RecallMessage, DeleteRoom, DeleteByCascade, shown
    <3> QED BY <3>1 DEF TypeOK
  <2> QED BY <2>1, <2>2
<1>3. \E c \in Call : /\ Continue(h, c) /\ Named(c)
                      /\ c.pc \in {"idle", "post", "pack", "add", "available", "forget"}
  <2>0. /\ Known \subseteq Assets /\ left \in Nat /\ AssetsOf(stickers) \subseteq Known
        /\ \A s \in stickers : s.asset \in Known /\ s.id \in Nat
        /\ \A i \in DOMAIN messages : /\ {messages[i].shows, messages[i].quotes} \subseteq Known \cup {None}
                                      /\ i \in Nat
    BY StickerAssumption DEF Known, KnownOK, AssetsOf, TypeOK, Sticker
  <2>1. CASE QuoteMessages(h)
    <3>1. PICK a \in Known \cup {None}, q \in {None} \cup {m.shows : m \in ToSet(messages)} :
              Continue(h, [Idle EXCEPT !.pc = "post", !.asset = a, !.quote = q])
      BY <2>1 DEF QuoteMessages
    <3>2. q \in Known \cup {None}
      BY <2>0 DEF ToSet
    <3> DEFINE c == [Idle EXCEPT !.pc = "post", !.asset = a, !.quote = q]
    <3>3. c \in Call /\ c.pc = "post" /\ Named(c)
      BY <2>0, <3>2 DEF Idle, Call, Steps, Named
    <3> QED BY <3>1, <3>3
  <2>2. CASE CreateStickerPack(h)
    <3>1. Continue(h, call[h]) /\ call[h] \in Call /\ Named(call[h])
      BY <1>0, <2>2 DEF CreateStickerPack, Continue, TypeOK, Named, KnownOK
    <3> QED BY <1>0, <3>1
  <2>3. CASE AddSticker(h)
    <3>1. PICK p \in Packs, a \in Known :
              Continue(h, [Idle EXCEPT !.pc = "add", !.asset = a, !.pack = p, !.id = left])
      BY <2>3 DEF AddSticker, LivePacks
    <3> DEFINE c == [Idle EXCEPT !.pc = "add", !.asset = a, !.pack = p, !.id = left]
    <3>2. c \in Call /\ c.pc = "add" /\ Named(c)
      BY <2>0 DEF Idle, Call, Steps, Named
    <3> QED BY <3>1, <3>2
  <2>4. CASE SaveSticker(h)
    <3>1. PICK a \in AssetsOf(stickers) : Continue(h, [Idle EXCEPT !.pc = "pack", !.asset = a, !.id = left])
      BY <2>4 DEF SaveSticker
    <3> DEFINE c == [Idle EXCEPT !.pc = "pack", !.asset = a, !.id = left]
    <3>2. c \in Call /\ c.pc = "pack" /\ Named(c)
      BY <2>0 DEF Idle, Call, Steps, Named
    <3> QED BY <3>1, <3>2
  <2>5. CASE SaveStickerOfMessage(h)
    <3>1. PICK m \in ToSet(messages) :
              m.shows # None /\ Continue(h, [Idle EXCEPT !.pc = "available", !.asset = m.shows, !.id = left])
      BY <2>5 DEF SaveStickerOfMessage
    <3>2. m.shows \in Known
      BY <2>0, <3>1 DEF ToSet
    <3> DEFINE c == [Idle EXCEPT !.pc = "available", !.asset = m.shows, !.id = left]
    <3>3. c \in Call /\ c.pc = "available" /\ Named(c)
      BY <2>0, <3>2 DEF Idle, Call, Steps, Named
    <3> QED BY <3>1, <3>3
  <2>6. CASE DeleteSticker(h)
    <3>1. PICK s \in stickers :
              Continue(h, [Idle EXCEPT !.pc = "forget", !.what = "sticker", !.id = s.id, !.assets = {s.asset}])
      BY <2>6 DEF DeleteSticker
    <3> DEFINE c == [Idle EXCEPT !.pc = "forget", !.what = "sticker", !.id = s.id, !.assets = {s.asset}]
    <3>2. c \in Call /\ c.pc = "forget" /\ Named(c)
      BY <2>0 DEF Idle, Call, Steps, Named
    <3> QED BY <3>1, <3>2
  <2>7. CASE DeleteStickerPack(h)
    <3>1. PICK p \in Packs :
              Continue(h, [Idle EXCEPT !.pc = "forget", !.what = "pack", !.pack = p,
                                       !.assets = AssetsOf(InPack(p))])
      BY <2>7 DEF DeleteStickerPack, LivePacks
    <3>2. AssetsOf(InPack(p)) \subseteq Known
      BY <2>0 DEF AssetsOf, InPack
    <3> DEFINE c == [Idle EXCEPT !.pc = "forget", !.what = "pack", !.pack = p, !.assets = AssetsOf(InPack(p))]
    <3>3. c \in Call /\ c.pc = "forget" /\ Named(c)
      BY <2>0, <3>2 DEF Idle, Call, Steps, Named
    <3> QED BY <3>1, <3>3
  <2>8. CASE RecallMessage(h)
    <3>1. PICK i \in DOMAIN messages :
              Continue(h, [Idle EXCEPT !.pc = "forget", !.what = "message", !.id = i,
                                       !.assets = ShownBy({messages[i]})])
      BY <2>8 DEF RecallMessage
    <3>2. ShownBy({messages[i]}) \subseteq Known
      BY <2>0 DEF ShownBy
    <3> DEFINE c == [Idle EXCEPT !.pc = "forget", !.what = "message", !.id = i,
                                 !.assets = ShownBy({messages[i]})]
    <3>3. c \in Call /\ c.pc = "forget" /\ Named(c)
      BY <2>0, <3>2 DEF Idle, Call, Steps, Named
    <3> QED BY <3>1, <3>3
  <2>9. CASE DeleteRoom(h)
    <3> DEFINE S == ShownBy(ToSet(messages)) \cup AssetsOf(UNION {InPack(p) : p \in RoomPacks})
               c == [Idle EXCEPT !.pc = "forget", !.what = "room", !.assets = S]
    <3>1. Continue(h, c)
      BY <2>9 DEF DeleteRoom
    <3>2. S \subseteq Known
      <4>1. ShownBy(ToSet(messages)) \subseteq Known
        BY <2>0 DEF ShownBy, ToSet
      <4>2. AssetsOf(UNION {InPack(p) : p \in RoomPacks}) \subseteq Known
        BY <2>0 DEF AssetsOf, InPack
      <4> QED BY <4>1, <4>2
    <3>3. c \in Call /\ c.pc = "forget" /\ Named(c)
      <4> HIDE DEF S
      <4> QED BY <2>0, <3>2 DEF Idle, Call, Steps, Named
    <3> QED BY <3>1, <3>3
  <2>10. CASE DeleteByCascade(h)
    <3>1. CASE Continue(h, [Idle EXCEPT !.pc = "forget", !.what = "room"])
      <4> DEFINE c == [Idle EXCEPT !.pc = "forget", !.what = "room"]
      <4>1. c \in Call /\ c.pc = "forget" /\ Named(c)
        BY DEF Idle, Call, Steps, Named
      <4> QED BY <3>1, <4>1
    <3>2. CASE \E p \in LivePacks : Continue(h, [Idle EXCEPT !.pc = "forget", !.what = "pack", !.pack = p])
      <4>1. PICK p \in Packs : Continue(h, [Idle EXCEPT !.pc = "forget", !.what = "pack", !.pack = p])
        BY <3>2 DEF LivePacks
      <4> DEFINE c == [Idle EXCEPT !.pc = "forget", !.what = "pack", !.pack = p]
      <4>2. c \in Call /\ c.pc = "forget" /\ Named(c)
        BY DEF Idle, Call, Steps, Named
      <4> QED BY <4>1, <4>2
    <3> QED BY <2>10, <3>1, <3>2 DEF DeleteByCascade
  <2> QED BY <2>1, <2>2, <2>3, <2>4, <2>5, <2>6, <2>7, <2>8, <2>9, <2>10 DEF NewCall
<1> QED BY <1>0, <1>1, <1>2, <1>3

-----------------------------------------------------------------------------
(* Requests                                                                *)

Uploads == {"insert", "track", "unrow", "unput"}

\* A request that uploads nothing goes on: nothing is lost of what is known of
\* the others.
LEMMA RequestGoesOn ==
    ASSUME TypeOK, UploadsOK, KnownOK, NEW h \in Handlers, call[h].pc \notin Uploads,
           NEW c \in Call, c.pc \notin Uploads, Named(c), Continue(h, c),
           UNCHANGED <<upload, object, cleaner>>,
           \A a \in Assets : expiry[a] = "none" /\ a \notin Known => expiry'[a] = "none"
    PROVE  /\ UploadsOK'
           /\ \A i \in Handlers : Named(call[i])'
           /\ {call'[i].asset : i \in {j \in Handlers : call'[j].pc \in {"insert", "unput"}}}
              = {call[i].asset : i \in {j \in Handlers : call[j].pc \in {"insert", "unput"}}}
<1>2. call'[h] = c /\ \A i \in Handlers : i # h => call'[i] = call[i]
  BY DEF Continue, TypeOK
<1>3. \A i \in Handlers : (Uploading(i)' <=> Uploading(i)) /\ (Uploading(i) => i # h /\ call'[i] = call[i])
  BY <1>2 DEF Uploading, Uploads
<1>4. \A i \in Handlers : Uploading(i) => upload[call[i].asset] = "begun" /\ call[i].asset \notin Known
  BY DEF UploadsOK, Known
<1>5. UploadsOK'
  <2>1. \A a \in Assets : upload'[a] = "unused" => expiry'[a] = "none"
    BY DEF UploadsOK, Known
  <2> QED BY <1>3, <1>4, <2>1 DEF UploadsOK
<1>6. \A i \in Handlers : Named(call[i])'
  BY <1>2 DEF KnownOK, Named, Known
<1>7. \A i \in Handlers : call'[i].pc \in {"insert", "unput"} <=> call[i].pc \in {"insert", "unput"}
  BY <1>2 DEF Uploads
<1>8. \A i \in Handlers : call[i].pc \in {"insert", "unput"} => call'[i] = call[i]
  BY <1>2 DEF Uploads
<1>9. {call'[i].asset : i \in {j \in Handlers : call'[j].pc \in {"insert", "unput"}}}
      = {call[i].asset : i \in {j \in Handlers : call[j].pc \in {"insert", "unput"}}}
  BY <1>7, <1>8
<1> QED BY <1>5, <1>6, <1>9

\* The invariant, where the files stay as they are.
LEMMA FilesStay ==
    ASSUME IInv, TypeOK', UploadsOK', KnownOK', UNCHANGED <<upload, object, row, torn, leaked, cleaner>>,
           \A s \in stickers' : s.asset \in row \cap AssetsOf(stickers) \/
                                (s.asset \in row \cap Known /\ s.asset # cleaner.asset),
           {call'[i].asset : i \in {j \in Handlers : call'[j].pc \in {"insert", "unput"}}}
           = {call[i].asset : i \in {j \in Handlers : call[j].pc \in {"insert", "unput"}}}
    PROVE  IInv'
<1>1. Known' = Known
  BY DEF Known
<1>2. CleanerOK'
  <2>1. cleaner.pc \in {"object", "row"} => cleaner.asset \notin AssetsOf(stickers')
    BY DEF IInv, CleanerOK, AssetsOf
  <2> QED BY <2>1 DEF IInv, CleanerOK, AssetsOf
<1>3. RowsHaveFiles'
  BY <1>1 DEF IInv, RowsHaveFiles
<1>4. StickersHaveFiles'
  BY DEF IInv, FilesMatchRows, StickersHaveFiles, RowsHaveFiles, AssetsOf
<1>5. FilesHaveRows'
  BY DEF IInv, FilesMatchRows, FilesHaveRows
<1> QED BY <1>2, <1>3, <1>4, <1>5 DEF IInv, FilesMatchRows

\* The invariant, when a request that uploads nothing goes on.
LEMMA QuietStep ==
    ASSUME IInv, NEW h \in Handlers, call[h].pc \notin Uploads,
           NEW c \in Call, c.pc \notin Uploads, Named(c), Continue(h, c),
           UNCHANGED <<upload, object, row, torn, leaked, cleaner>>,
           \A a \in Assets : expiry[a] = "none" /\ a \notin Known => expiry'[a] = "none",
           \A s \in stickers' : s.asset \in AssetsOf(stickers) \/
                                (s.asset \in row \cap Known /\ s.asset # cleaner.asset),
           \A i \in DOMAIN messages' :
               {messages'[i].shows, messages'[i].quotes} \subseteq Known \cup {None},
           Tables', Locks'
    PROVE  IInv'
<1> USE DEF IInv
<1>1. /\ UploadsOK'
      /\ \A i \in Handlers : Named(call[i])'
      /\ {call'[i].asset : i \in {j \in Handlers : call'[j].pc \in {"insert", "unput"}}}
         = {call[i].asset : i \in {j \in Handlers : call[j].pc \in {"insert", "unput"}}}
  BY RequestGoesOn
<1>2. TypeOK'
  BY Parts, PTL
<1>3. AssetsOf(stickers) \subseteq Known \cap row
  BY DEF KnownOK, FilesMatchRows, StickersHaveFiles, AssetsOf
<1>4. KnownOK'
  BY <1>1, <1>3 DEF KnownOK, Known, AssetsOf
<1>5. \A s \in stickers' : s.asset \in row \cap AssetsOf(stickers) \/
                           (s.asset \in row \cap Known /\ s.asset # cleaner.asset)
  BY <1>3
<1> QED BY <1>1, <1>2, <1>4, <1>5, FilesStay

LEMMA NewCallStep ==
    ASSUME IInv, NEW h \in Handlers, NewCall(h), ~UploadFile(h)
    PROVE  IInv'
<1> USE DEF IInv
<1>0. /\ call[h].pc = "idle" /\ left > 0 /\ left' = left - 1
      /\ UNCHANGED <<upload, files, stickers, room, messages, lock, cleaner, upsets>>
      /\ packs' \in [Packs -> {"new", "live", "gone"}]
  BY NewCallIs
<1>1. PICK c \in Call : /\ Continue(h, c) /\ Named(c)
                        /\ c.pc \in {"idle", "post", "pack", "add", "available", "forget"}
  BY NewCallIs
<1>2. Locks'
  BY <1>0, <1>1, CallChanges, Parts
<1>3. Tables'
  <2>1. left' \in 0 .. MaxCalls
    BY <1>0, StickerAssumption DEF TypeOK
  <2> QED BY <1>0, <2>1 DEF Tables, TypeOK, files
<1>4. /\ UNCHANGED <<upload, object, row, torn, leaked, cleaner, expiry, stickers, messages>>
      /\ call[h].pc \notin Uploads /\ c.pc \notin Uploads
  BY <1>0, <1>1 DEF files, Uploads
<1>5. /\ \A s \in stickers' : s.asset \in AssetsOf(stickers)
      /\ \A i \in DOMAIN messages' :
               {messages'[i].shows, messages'[i].quotes} \subseteq Known \cup {None}
  BY <1>4 DEF AssetsOf, KnownOK
<1> QED BY <1>1, <1>2, <1>3, <1>4, <1>5, QuietStep

\* Another place for a request whose names stay known.
LEMMA GotoNamed ==
    ASSUME TypeOK, KnownOK, NEW h \in Handlers, NEW pc \in Steps, Goto(h, pc),
           pc \in {"available", "pack", "add", "retain", "settle"} => call[h].asset \in Known,
           pc # "post", pc = "add" => call[h].pack \in Packs
    PROVE  \E c \in Call : c.pc = pc /\ Named(c) /\ Continue(h, c)
<1> DEFINE c == [call[h] EXCEPT !.pc = pc]
<1>1. c \in Call /\ c.pc = pc /\ Continue(h, c)
  BY GotoIs, Parts
<1>2. call[h] \in Call /\ Named(call[h])
  BY DEF TypeOK, KnownOK
<1>3. c.asset = call[h].asset /\ c.pack = call[h].pack /\ c.what = call[h].what /\ c.assets = call[h].assets
  BY <1>2 DEF Call
<1>4. Named(c)
  BY <1>1, <1>2, <1>3 DEF Named
<1> QED BY <1>1, <1>4

\* A request that ends.
LEMMA IdleNamed == Idle \in Call /\ Named(Idle) /\ Idle.pc = "idle" /\ Idle.pc \notin Uploads \cup {"settle"}
  BY IdleOK DEF Idle, Named, Uploads

LEMMA InsertMessageStep ==
    ASSUME IInv, NEW h \in Handlers, InsertMessage(h)
    PROVE  IInv'
<1> USE DEF IInv
<1>1. /\ call[h].pc = "post" /\ Continue(h, Idle) /\ left' = left
      /\ UNCHANGED <<upload, object, row, expiry, torn, leaked, packs, stickers, room, lock, cleaner, upsets>>
  BY DEF InsertMessage, At, End, files
<1>2. Locks'
  BY <1>1, CallChanges, Parts, IdleNamed
<1>3. call[h] \in Call /\ call[h].asset \in Known \cup {None} /\ call[h].quote \in Known \cup {None}
  BY <1>1 DEF TypeOK, KnownOK, Named
<1> DEFINE m == [shows |-> call[h].asset, quotes |-> call[h].quote]
<1>4. m \in Message /\ messages \in Seq(Message)
  BY <1>3 DEF Call, Message, TypeOK
<1>5. messages' \in {messages, Append(messages, m)}
  BY DEF InsertMessage
<1>6. messages' \in Seq(Message)
  BY <1>4, <1>5
<1>7. Tables'
  BY <1>1, <1>6 DEF Tables, TypeOK
<1>8. \A i \in DOMAIN messages' : {messages'[i].shows, messages'[i].quotes} \subseteq Known \cup {None}
  <2>1. CASE messages' = messages
    BY <2>1 DEF KnownOK
  <2>2. CASE messages' = Append(messages, m)
    <3> SUFFICES ASSUME NEW i \in DOMAIN messages'
                 PROVE  {messages'[i].shows, messages'[i].quotes} \subseteq Known \cup {None}
      OBVIOUS
    <3>1. \/ i \in DOMAIN messages /\ messages'[i] = messages[i]
          \/ messages'[i] = m
      BY <1>4, <2>2
    <3> QED BY <3>1, <1>3 DEF KnownOK
  <2> QED BY <2>1, <2>2, <1>5
<1>9. \A s \in stickers' : s.asset \in AssetsOf(stickers)
  BY <1>1 DEF AssetsOf
<1>10. call[h].pc \notin Uploads
  BY <1>1 DEF Uploads
<1> QED BY <1>1, <1>2, <1>7, <1>8, <1>9, <1>10, IdleNamed, QuietStep

LEMMA StickerAssetAvailableStep ==
    ASSUME IInv, NEW h \in Handlers, StickerAssetAvailable(h)
    PROVE  IInv'
<1> USE DEF IInv
<1>1. /\ call[h].pc = "available" /\ left' = left
      /\ UNCHANGED <<upload, object, row, expiry, torn, leaked, packs, stickers, room, messages, lock, cleaner, upsets>>
  BY DEF StickerAssetAvailable, At, files, shown
<1>2. PICK c \in Call : c.pc \notin Uploads \cup {"settle"} /\ Named(c) /\ Continue(h, c)
  <2>1. CASE Goto(h, "pack")
    <3>1. call[h].asset \in Known
      BY <1>1 DEF KnownOK, Named
    <3>2. \E c \in Call : c.pc = "pack" /\ Named(c) /\ Continue(h, c)
      BY <2>1, <3>1, GotoNamed DEF Steps
    <3> QED BY <3>2 DEF Uploads
  <2>2. CASE Continue(h, Idle)
    BY <2>2, IdleNamed
  <2> QED BY <2>1, <2>2 DEF StickerAssetAvailable, End
<1>3. Locks'
  BY <1>1, <1>2, CallChanges, Parts
<1>4. Tables'
  BY <1>1 DEF Tables, TypeOK
<1>5. /\ \A s \in stickers' : s.asset \in AssetsOf(stickers)
      /\ \A i \in DOMAIN messages' :
               {messages'[i].shows, messages'[i].quotes} \subseteq Known \cup {None}
  BY <1>1 DEF AssetsOf, KnownOK
<1>6. call[h].pc \notin Uploads
  BY <1>1 DEF Uploads
<1> QED BY <1>1, <1>2, <1>3, <1>4, <1>5, <1>6, QuietStep

LEMMA ChoosePackStep ==
    ASSUME IInv, NEW h \in Handlers, ChoosePack(h)
    PROVE  IInv'
<1> USE DEF IInv
<1>1. /\ call[h].pc = "pack" /\ left' = left
      /\ UNCHANGED <<upload, object, row, expiry, torn, leaked, stickers, room, messages, lock, cleaner, upsets>>
  BY DEF ChoosePack, At, files
<1>2. call[h] \in Call /\ Named(call[h]) /\ call[h].asset \in Known
  BY <1>1 DEF TypeOK, KnownOK, Named
<1>3. /\ packs' \in [Packs -> {"new", "live", "gone"}]
      /\ \E c \in Call : c.pc \notin Uploads \cup {"settle"} /\ Named(c) /\ Continue(h, c)
  <2>1. CASE \E p \in Packs : /\ packs' = [packs EXCEPT ![p] = "live"]
                              /\ call' = [call EXCEPT ![h].pc = "add", ![h].pack = p]
    <3>1. PICK p \in Packs : /\ packs' = [packs EXCEPT ![p] = "live"]
                             /\ call' = [call EXCEPT ![h].pc = "add", ![h].pack = p]
      BY <2>1
    <3> DEFINE c == [call[h] EXCEPT !.pc = "add", !.pack = p]
    <3>2. c \in Call /\ c.pc = "add" /\ c.pack = p /\ c.asset = call[h].asset /\ c.what = call[h].what
          /\ c.assets = call[h].assets
      BY <1>2 DEF Call, Steps
    <3>3. Named(c)
      BY <1>2, <3>2 DEF Named
    <3>4. Continue(h, c)
      <4> DEFINE moved == [call EXCEPT ![h] = [call[h] EXCEPT !.pc = "add"]]
      <4>1. call \in [Handlers -> Call]
        BY DEF TypeOK
      <4>2. call' = [moved EXCEPT ![h] = [moved[h] EXCEPT !.pack = p]]
        BY <3>1
      <4>3. [moved[h] EXCEPT !.pack = p] = c
        BY <4>1
      <4>4. moved = [g \in Handlers |-> IF g = h THEN [call[h] EXCEPT !.pc = "add"] ELSE call[g]]
        BY <4>1
      <4> HIDE DEF moved, c
      <4>5. [moved EXCEPT ![h] = c] = [call EXCEPT ![h] = c]
        BY <4>1, <4>4
      <4> QED BY <4>2, <4>3, <4>5 DEF Continue
    <3>5. packs' \in [Packs -> {"new", "live", "gone"}]
      BY <3>1 DEF TypeOK
    <3>6. c.pc \notin Uploads \cup {"settle"}
      BY <3>2 DEF Uploads
    <3> HIDE DEF c
    <3> QED BY <3>2, <3>3, <3>4, <3>5, <3>6
  <2>2. CASE Continue(h, Idle) /\ packs' = packs
    BY <2>2, IdleNamed DEF TypeOK
  <2> QED BY <2>1, <2>2 DEF ChoosePack, End
<1>4. Locks'
  BY <1>1, <1>3, CallChanges, Parts
<1>5. Tables'
  BY <1>1, <1>3 DEF Tables, TypeOK
<1>6. /\ \A s \in stickers' : s.asset \in AssetsOf(stickers)
      /\ \A i \in DOMAIN messages' :
               {messages'[i].shows, messages'[i].quotes} \subseteq Known \cup {None}
  BY <1>1 DEF AssetsOf, KnownOK
<1>7. call[h].pc \notin Uploads
  BY <1>1 DEF Uploads
<1> QED BY <1>1, <1>3, <1>4, <1>5, <1>6, <1>7, QuietStep

\* The new sticker's asset is not the one that the cleaner looks at, since its mutex
\* is free.
LEMMA AddStickerToPackStep ==
    ASSUME IInv, NEW h \in Handlers, AddStickerToPack(h)
    PROVE  IInv'
<1> USE DEF IInv
<1>1. /\ call[h].pc = "add" /\ left' = left /\ lock[call[h].asset] = None
      /\ UNCHANGED <<upload, object, row, expiry, torn, leaked, packs, room, messages, lock, cleaner, upsets>>
  BY DEF AddStickerToPack, At, files
<1>2. call[h] \in Call /\ call[h].asset \in Known /\ call[h].pack \in Packs
  BY <1>1 DEF TypeOK, KnownOK, Named
<1>3. call[h].asset \in Assets /\ call[h].asset # cleaner.asset
  BY <1>1, <1>2, StickerAssumption DEF TypeOK, Known
<1> DEFINE s0 == [id |-> call[h].id, pack |-> call[h].pack, asset |-> call[h].asset]
<1>4. s0 \in Sticker
  BY <1>2, <1>3 DEF Sticker, Call
<1>5. PICK c \in Call : c.pc \notin Uploads \cup {"settle"} /\ Named(c) /\ Continue(h, c)
  <2>1. CASE Goto(h, "retain")
    <3>1. \E c \in Call : c.pc = "retain" /\ Named(c) /\ Continue(h, c)
      BY <2>1, <1>2, GotoNamed DEF Steps
    <3> QED BY <3>1 DEF Uploads
  <2>2. CASE Continue(h, Idle)
    BY <2>2, IdleNamed
  <2> QED BY <2>1, <2>2 DEF AddStickerToPack, End
<1>6. stickers' = stickers \/ (stickers' = stickers \cup {s0} /\ call[h].asset \in row)
  BY DEF AddStickerToPack
<1>7. Locks'
  BY <1>1, <1>5, CallChanges, Parts
<1>8. Tables'
  BY <1>1, <1>4, <1>6 DEF Tables, TypeOK
<1>9. /\ \A s \in stickers' : s.asset \in AssetsOf(stickers) \/
                              (s.asset \in row \cap Known /\ s.asset # cleaner.asset)
      /\ \A i \in DOMAIN messages' :
               {messages'[i].shows, messages'[i].quotes} \subseteq Known \cup {None}
  BY <1>1, <1>2, <1>3, <1>6 DEF AssetsOf, KnownOK
<1>10. call[h].pc \notin Uploads
  BY <1>1 DEF Uploads
<1> QED BY <1>1, <1>5, <1>7, <1>8, <1>9, <1>10, QuietStep

LEMMA SetExpiryOK ==
    ASSUME TypeOK, NEW a, NEW when \in {"never", "later"}, SetExpiry(a, when)
    PROVE  /\ expiry' \in [Assets -> {"none", "never", "later", "due"}]
           /\ \A b \in Assets : b # a => expiry'[b] = expiry[b]
  BY DEF SetExpiry, TypeOK

LEMMA RetainStickerAssetStep ==
    ASSUME IInv, NEW h \in Handlers, RetainStickerAsset(h)
    PROVE  IInv'
<1> USE DEF IInv
<1>1. /\ call[h].pc = "retain" /\ left' = left /\ Continue(h, Idle)
      /\ UNCHANGED <<upload, object, row, torn, leaked, packs, stickers, room, messages, lock, cleaner>>
      /\ SetExpiry(call[h].asset, "never") \/ expiry' = expiry
      /\ upsets' \in 0 .. MaxUpsets
  BY StickerAssumption DEF RetainStickerAsset, At, shown, End, Works, Fails, TypeOK
<1>2. call[h].asset \in Known
  BY <1>1 DEF KnownOK, Named
<1>3. /\ expiry' \in [Assets -> {"none", "never", "later", "due"}]
      /\ \A a \in Assets : expiry[a] = "none" /\ a \notin Known => expiry'[a] = "none"
  <2>1. CASE expiry' = expiry
    BY <2>1 DEF TypeOK
  <2>2. CASE SetExpiry(call[h].asset, "never")
    BY <2>2, <1>2, SetExpiryOK
  <2> QED BY <1>1, <2>1, <2>2
<1>4. Locks'
  BY <1>1, IdleNamed, CallChanges, Parts
<1>5. Tables'
  BY <1>1, <1>3 DEF Tables, TypeOK
<1>6. /\ \A s \in stickers' : s.asset \in AssetsOf(stickers)
      /\ \A i \in DOMAIN messages' :
               {messages'[i].shows, messages'[i].quotes} \subseteq Known \cup {None}
  BY <1>1 DEF AssetsOf, KnownOK
<1>7. call[h].pc \notin Uploads
  BY <1>1 DEF Uploads
<1> QED BY <1>1, <1>3, <1>4, <1>5, <1>6, <1>7, IdleNamed, QuietStep

LEMMA ForgetStep ==
    ASSUME IInv, NEW h \in Handlers, Forget(h)
    PROVE  IInv'
<1> USE DEF IInv
<1>1. /\ call[h].pc = "forget" /\ left' = left
      /\ UNCHANGED <<upload, object, row, expiry, torn, leaked, lock, cleaner, upsets>>
  BY DEF Forget, At, files
<1>2. stickers' \subseteq stickers /\ room' \in BOOLEAN
  BY DEF Forget, TypeOK
<1>3. packs' \in [Packs -> {"new", "live", "gone"}]
  BY DEF Forget, TypeOK, GonePacks
<1> DEFINE Blank == [shows |-> None, quotes |-> None]
<1>4. /\ messages' \in Seq(Message)
      /\ \A i \in DOMAIN messages' : {messages'[i].shows, messages'[i].quotes} \subseteq Known \cup {None}
  <2>1. CASE messages' = messages
    BY <2>1 DEF TypeOK, KnownOK
  <2>2. CASE messages' = <<>>
    BY <2>2
  <2>3. CASE call[h].id \in DOMAIN messages /\ messages' = [messages EXCEPT ![call[h].id] = Blank]
    <3>1. Blank \in Message
      BY DEF Message
    <3>2. messages' \in Seq(Message)
      BY <2>3, <3>1 DEF TypeOK
    <3>3. \A i \in DOMAIN messages' : i \in DOMAIN messages /\ messages'[i] \in {messages[i], Blank}
      BY <2>3 DEF TypeOK
    <3> QED BY <3>2, <3>3 DEF KnownOK
  <2> QED BY <2>1, <2>2, <2>3 DEF Forget
<1>5. PICK c \in Call : c.pc \notin Uploads \cup {"settle"} /\ Named(c) /\ Continue(h, c)
  <2>1. CASE Goto(h, "schedule")
    <3>1. \E c \in Call : c.pc = "schedule" /\ Named(c) /\ Continue(h, c)
      BY <2>1, GotoNamed DEF Steps
    <3> QED BY <3>1 DEF Uploads
  <2>2. CASE Continue(h, Idle)
    BY <2>2, IdleNamed
  <2> QED BY <2>1, <2>2 DEF Forget, End
<1>6. Locks'
  BY <1>1, <1>5, CallChanges, Parts
<1>7. Tables'
  BY <1>1, <1>2, <1>3, <1>4 DEF Tables, TypeOK
<1>8. \A s \in stickers' : s.asset \in AssetsOf(stickers)
  BY <1>2 DEF AssetsOf
<1>9. call[h].pc \notin Uploads
  BY <1>1 DEF Uploads
<1> QED BY <1>1, <1>4, <1>5, <1>6, <1>7, <1>8, <1>9, QuietStep

LEMMA LookForReferencesStep ==
    ASSUME IInv, NEW h \in Handlers, LookForReferences(h)
    PROVE  IInv'
<1> USE DEF IInv
<1>1. /\ call[h].pc = "schedule" /\ left' = left
      /\ UNCHANGED <<upload, object, row, expiry, torn, leaked, packs, stickers, room, messages, cleaner, upsets>>
  BY DEF LookForReferences, At, files, shown
<1>2. PICK a \in call[h].assets :
          /\ lock[a] = None
          /\ lock' = [lock EXCEPT ![a] = h]
          /\ call' = [call EXCEPT ![h].pc = "settle", ![h].asset = a, ![h].seen = Referenced(a)]
  BY DEF LookForReferences
<1>3. call[h] \in Call /\ Named(call[h]) /\ a \in Known /\ a \in Assets
  BY <1>2 DEF TypeOK, KnownOK, Named, Known
<1> DEFINE c == [call[h] EXCEPT !.pc = "settle", !.asset = a, !.seen = Referenced(a)]
<1>4. /\ c \in Call /\ c.pc = "settle" /\ c.asset = a /\ c.pack = call[h].pack /\ c.what = call[h].what
      /\ c.assets = call[h].assets
  <2>1. Referenced(a) \in BOOLEAN
    BY DEF Referenced
  <2> QED BY <1>3, <2>1 DEF Call, Steps
<1>5. Named(c)
  BY <1>3, <1>4 DEF Named
<1>6. Continue(h, c)
  <2> DEFINE moved == [call EXCEPT ![h] = [call[h] EXCEPT !.pc = "settle"]]
             named == [moved EXCEPT ![h] = [moved[h] EXCEPT !.asset = a]]
  <2>1. call \in [Handlers -> Call]
    BY DEF TypeOK
  <2>2. call' = [named EXCEPT ![h] = [named[h] EXCEPT !.seen = Referenced(a)]]
    BY <1>2
  <2>3. [named[h] EXCEPT !.seen = Referenced(a)] = c
    BY <2>1
  <2>4. \E x : named = [g \in Handlers |-> IF g = h THEN x ELSE call[g]]
    BY <2>1
  <2> HIDE DEF moved, named, c
  <2>5. [named EXCEPT ![h] = c] = [call EXCEPT ![h] = c]
    BY <2>1, <2>4
  <2> QED BY <2>2, <2>3, <2>5 DEF Continue
<1> HIDE DEF c
<1>7. /\ call' \in [Handlers -> Call] /\ call'[h] = c
      /\ \A i \in Handlers : i # h => call'[i] = call[i]
  BY <1>4, <1>6 DEF Continue, TypeOK
<1>8. /\ lock' \in [Assets -> Handlers \cup {"cleaner", None}] /\ lock'[a] = h
      /\ \A b \in Assets : b # a => lock'[b] = lock[b]
  BY <1>2, <1>3 DEF TypeOK
<1>9. Locks'
  <2>1. ASSUME NEW i \in Handlers, NEW b \in Assets
        PROVE  (lock'[b] = i) <=> (call'[i].pc = "settle" /\ call'[i].asset = b)
    <3>1. (lock[b] = i) <=> (call[i].pc = "settle" /\ call[i].asset = b)
      BY DEF TypeOK
    <3>2. (lock[a] = i) <=> (call[i].pc = "settle" /\ call[i].asset = a)
      BY <1>3 DEF TypeOK
    <3>3. i # None
      BY StickerAssumption
    <3> QED BY <1>1, <1>2, <1>4, <1>7, <1>8, <3>1, <3>2, <3>3
  <2>2. ASSUME NEW b \in Assets
        PROVE  (lock'[b] = "cleaner") <=> (cleaner'.asset = b)
    <3>1. /\ (lock[b] = "cleaner") <=> (cleaner.asset = b)
          /\ (lock[a] = "cleaner") <=> (cleaner.asset = a)
      BY <1>3 DEF TypeOK
    <3> QED BY <1>1, <1>2, <1>8, <3>1, StickerAssumption
  <2> QED BY <1>1, <1>7, <1>8, <2>1, <2>2 DEF Locks, TypeOK, CleanerType
<1>10. Tables'
  BY <1>1 DEF Tables, TypeOK
<1>11. /\ \A s \in stickers' : s.asset \in AssetsOf(stickers)
       /\ \A i \in DOMAIN messages' :
               {messages'[i].shows, messages'[i].quotes} \subseteq Known \cup {None}
  BY <1>1 DEF AssetsOf, KnownOK
<1>12. call[h].pc \notin Uploads /\ c.pc \notin Uploads
  BY <1>1, <1>4 DEF Uploads
<1> QED BY <1>1, <1>4, <1>5, <1>6, <1>9, <1>10, <1>11, <1>12, QuietStep

LEMMA ScheduleExpiryStep ==
    ASSUME IInv, NEW h \in Handlers, ScheduleExpiry(h)
    PROVE  IInv'
<1> USE DEF IInv
<1> DEFINE a == call[h].asset
           rest == call[h].assets \ {a}
<1>1. /\ call[h].pc = "settle" /\ left' = left
      /\ UNCHANGED <<upload, object, row, torn, leaked, packs, stickers, room, messages, cleaner, upsets>>
      /\ SetExpiry(a, "never") \/ SetExpiry(a, "later")
      /\ lock' = [lock EXCEPT ![a] = None]
  BY DEF ScheduleExpiry, At, shown
<1>2. call[h] \in Call /\ Named(call[h]) /\ a \in Known /\ a \in Assets /\ lock[a] = h
  BY <1>1 DEF TypeOK, KnownOK, Named, Known
<1>3. PICK c \in Call : c.pc \notin Uploads \cup {"settle"} /\ Named(c) /\ Continue(h, c)
  <2>1. CASE Continue(h, [Idle EXCEPT !.pc = "schedule", !.assets = rest])
    <3> DEFINE c == [Idle EXCEPT !.pc = "schedule", !.assets = rest]
    <3>1. rest \subseteq Known /\ rest \subseteq Assets
      BY <1>2 DEF Named, Known
    <3>2. c \in Call /\ c.pc = "schedule" /\ Named(c)
      <4> HIDE DEF rest
      <4> QED BY <3>1 DEF Idle, Call, Steps, Named
    <3>3. c.pc \notin Uploads \cup {"settle"}
      BY <3>2 DEF Uploads
    <3> QED BY <2>1, <3>2, <3>3
  <2>2. CASE Continue(h, Idle)
    BY <2>2, IdleNamed
  <2> QED BY <2>1, <2>2 DEF ScheduleExpiry, End
<1>4. /\ call' \in [Handlers -> Call] /\ call'[h] = c
      /\ \A i \in Handlers : i # h => call'[i] = call[i]
  BY <1>3 DEF Continue, TypeOK
<1>5. /\ lock' \in [Assets -> Handlers \cup {"cleaner", None}] /\ lock'[a] = None
      /\ \A b \in Assets : b # a => lock'[b] = lock[b]
  BY <1>1, <1>2 DEF TypeOK
<1>6. Locks'
  <2>1. ASSUME NEW i \in Handlers, NEW b \in Assets
        PROVE  (lock'[b] = i) <=> (call'[i].pc = "settle" /\ call'[i].asset = b)
    <3>1. (lock[b] = i) <=> (call[i].pc = "settle" /\ call[i].asset = b)
      BY DEF TypeOK
    <3>2. i # None
      BY StickerAssumption
    <3> QED BY <1>1, <1>2, <1>3, <1>4, <1>5, <3>1, <3>2
  <2>2. ASSUME NEW b \in Assets
        PROVE  (lock'[b] = "cleaner") <=> (cleaner'.asset = b)
    <3>1. /\ (lock[b] = "cleaner") <=> (cleaner.asset = b)
          /\ (lock[a] = "cleaner") <=> (cleaner.asset = a)
      BY <1>2 DEF TypeOK
    <3> QED BY <1>1, <1>2, <1>5, <3>1, StickerAssumption
  <2> QED BY <1>1, <1>4, <1>5, <2>1, <2>2 DEF Locks, TypeOK, CleanerType
<1>7. /\ expiry' \in [Assets -> {"none", "never", "later", "due"}]
      /\ \A b \in Assets : expiry[b] = "none" /\ b \notin Known => expiry'[b] = "none"
  BY <1>1, <1>2, SetExpiryOK
<1>8. Tables'
  BY <1>1, <1>7 DEF Tables, TypeOK
<1>9. /\ \A s \in stickers' : s.asset \in AssetsOf(stickers)
      /\ \A i \in DOMAIN messages' :
               {messages'[i].shows, messages'[i].quotes} \subseteq Known \cup {None}
  BY <1>1 DEF AssetsOf, KnownOK
<1>10. call[h].pc \notin Uploads
  BY <1>1 DEF Uploads
<1> QED BY <1>1, <1>3, <1>6, <1>7, <1>8, <1>9, <1>10, QuietStep
-----------------------------------------------------------------------------
(* Uploads                                                                 *)

\* An upload that goes on keeps what is named, since it was begun and not answered.
LEMMA UploadNames ==
    ASSUME IInv, NEW h \in Handlers, Uploading(h)
    PROVE  /\ call[h] \in Call /\ Named(call[h])
           /\ call[h].asset \in Assets \ Known
           /\ upload[call[h].asset] = "begun" /\ expiry[call[h].asset] = "none"
           /\ call[h].asset \notin cleaner.due /\ call[h].asset # cleaner.asset
           /\ call[h].asset \notin AssetsOf(stickers)
           /\ \A i \in Handlers : Uploading(i) /\ i # h => call[i].asset # call[h].asset
  BY DEF IInv, UploadsOK, KnownOK, Known, TypeOK

\* A step of an upload changes one asset.
LEMMA UploadStep ==
    ASSUME IInv, NEW h \in Handlers, NEW a \in Assets \ Known, NEW c \in Call,
           call[h].pc # "settle", c.pc # "settle", Continue(h, c),
           call[h].pc \in Uploads => call[h].asset = a,
           UNCHANGED <<torn, packs, stickers, room, messages, lock, cleaner>>, Tables',
           a \notin AssetsOf(stickers), a # cleaner.asset, a \notin cleaner.due,
           \A i \in Handlers : Uploading(i) /\ i # h => call[i].asset # a,
           \A b \in Assets \ {a} :
               /\ b \in object' <=> b \in object
               /\ b \in row' <=> b \in row
               /\ b \in leaked' <=> b \in leaked
               /\ upload'[b] = upload[b] /\ expiry'[b] = expiry[b],
           upload'[a] # "unused",
           c.pc \in Uploads => /\ c.asset = a /\ upload'[a] = "begun" /\ expiry'[a] = "none"
                               /\ c.pc \in {"insert", "track"} => a \in object',
           Named(c), a \in row' /\ upload'[a] = "answered" => a \in object',
           a \in object' => a \in row' \cup leaked' \/ c.pc \in {"insert", "unput"}
    PROVE  IInv'
<1> USE DEF IInv
<1>1. /\ call' \in [Handlers -> Call] /\ call'[h] = c
      /\ \A i \in Handlers : i # h => call'[i] = call[i]
  BY DEF Continue, TypeOK
<1>2. Locks'
  BY CallChanges, Parts
<1>3. TypeOK'
  BY <1>2, Parts, PTL
<1>4. Known \subseteq Known'
  BY DEF Known
<1>5. CleanerOK'
  <2>1. \A b \in row' \cup object' \cup cleaner.due \cup ({cleaner.asset} \ {None}) : upload'[b] # "unused"
    <3> SUFFICES ASSUME NEW b \in row' \cup object' \cup cleaner.due \cup ({cleaner.asset} \ {None}), b # a
                 PROVE  upload'[b] # "unused"
      OBVIOUS
    <3>1. b \in Assets
      BY <1>3 DEF TypeOK
    <3> QED BY <3>1 DEF CleanerOK
  <2>2. cleaner.pc = "row" => cleaner.asset \notin object'
    <3>1. cleaner.pc = "row" => cleaner.asset \in Assets
      BY DEF CleanerOK, TypeOK
    <3> QED BY <3>1 DEF CleanerOK
  <2> QED BY <2>1, <2>2 DEF CleanerOK, AssetsOf
<1>6. UploadsOK'
  <2>1. \A i \in Handlers : i # h => (Uploading(i)' <=> Uploading(i)) /\ call'[i] = call[i]
    BY <1>1 DEF Uploading
  <2>2. Uploading(h)' <=> c.pc \in Uploads
    BY <1>1 DEF Uploading, Uploads
  <2>3. \A b \in Assets : upload'[b] = "unused" => expiry'[b] = "none"
    BY DEF UploadsOK
  <2>4. ASSUME NEW i \in Handlers, Uploading(i)'
        PROVE  /\ call'[i].asset \in Assets /\ upload'[call'[i].asset] = "begun"
               /\ expiry'[call'[i].asset] = "none"
               /\ call'[i].asset \notin cleaner.due /\ call'[i].asset # cleaner.asset
               /\ call'[i].pc \in {"insert", "track"} => call'[i].asset \in object'
    <3>1. CASE i = h
      BY <3>1, <2>4, <1>1 DEF Uploading, Uploads
    <3>2. CASE i # h
      BY <3>2, <2>4, <2>1 DEF UploadsOK
    <3> QED BY <3>1, <3>2
  <2>5. ASSUME NEW i \in Handlers, NEW j \in Handlers, Uploading(i)', Uploading(j)', i # j
        PROVE  call'[i].asset # call'[j].asset
    <3>1. CASE i = h
      <4>1. call'[i].asset = a /\ call'[j].asset # a
        BY <3>1, <2>5, <2>1, <1>1 DEF Uploading, Uploads
      <4> QED BY <4>1
    <3>2. CASE j = h
      <4>1. call'[j].asset = a /\ call'[i].asset # a
        BY <3>2, <2>5, <2>1, <1>1 DEF Uploading, Uploads
      <4> QED BY <4>1
    <3>3. CASE i # h /\ j # h
      BY <3>3, <2>5, <2>1 DEF UploadsOK
    <3> QED BY <3>1, <3>2, <3>3
  <2> QED BY <2>3, <2>4, <2>5 DEF UploadsOK
<1>7. KnownOK'
  <2>1. \A i \in Handlers : Named(call'[i])
    BY <1>1 DEF KnownOK
  <2>2. \A i \in Handlers : Named(call[i])'
    BY <2>1, <1>4 DEF Named
  <2> QED BY <2>2, <1>4 DEF KnownOK, AssetsOf
<1>8. RowsHaveFiles'
  <2> SUFFICES ASSUME NEW b \in Assets, b \in row', b \in Known'
               PROVE  b \in object' \cup torn \/ (cleaner.pc = "row" /\ cleaner.asset = b)
    BY DEF RowsHaveFiles, Known
  <2>1. CASE b = a
    BY <2>1 DEF Known
  <2>2. CASE b # a
    BY <2>2 DEF RowsHaveFiles, Known
  <2> QED BY <2>1, <2>2
<1>9. StickersHaveFiles'
  <2> SUFFICES ASSUME NEW s \in stickers
               PROVE  s.asset \in row' /\ s.asset \in object' \cup torn
    BY DEF StickersHaveFiles
  <2>1. s.asset \in Assets /\ s.asset # a /\ s.asset \in row /\ s.asset \in object \cup torn
    BY DEF FilesMatchRows, StickersHaveFiles, TypeOK, Sticker, AssetsOf
  <2> QED BY <2>1
<1>10. FilesHaveRows'
  <2> SUFFICES ASSUME NEW b \in object'
               PROVE  b \in row' \cup leaked'
                        \/ \E i \in Handlers : call'[i].pc \in {"insert", "unput"} /\ call'[i].asset = b
    BY DEF FilesHaveRows
  <2>1. CASE b = a
    <3>1. c.pc \in {"insert", "unput"} => c.asset = a
      BY DEF Uploads
    <3> QED BY <2>1, <3>1, <1>1
  <2>2. CASE b # a
    <3>1. b \in object
      BY <2>2, <1>3 DEF TypeOK
    <3>2. \/ b \in row \cup leaked
          \/ \E i \in Handlers : call[i].pc \in {"insert", "unput"} /\ call[i].asset = b
      BY <3>1 DEF FilesMatchRows, FilesHaveRows
    <3>3. CASE b \in row \cup leaked
      BY <3>3, <2>2 DEF TypeOK
    <3>4. CASE \E i \in Handlers : call[i].pc \in {"insert", "unput"} /\ call[i].asset = b
      BY <3>4, <2>2, <1>1 DEF Uploads
    <3> QED BY <3>2, <3>3, <3>4
  <2> QED BY <2>1, <2>2
<1> QED BY <1>3, <1>5, <1>6, <1>7, <1>8, <1>9, <1>10 DEF FilesMatchRows

LEMMA UploadFileStep ==
    ASSUME IInv, NEW h \in Handlers, UploadFile(h)
    PROVE  IInv'
<1> USE DEF IInv
<1>1. /\ call[h].pc = "idle" /\ left > 0 /\ left' = left - 1
      /\ UNCHANGED <<row, expiry, torn, leaked, packs, stickers, room, messages, lock, cleaner, upsets>>
  BY DEF UploadFile, Begin, shown
<1>2. PICK a \in Assets :
          /\ upload[a] = "unused"
          /\ upload' = [upload EXCEPT ![a] = "begun"]
          /\ object' = object \cup {a}
          /\ Continue(h, [Idle EXCEPT !.pc = "insert", !.asset = a])
  BY DEF UploadFile
<1> DEFINE c == [Idle EXCEPT !.pc = "insert", !.asset = a]
<1>3. c \in Call /\ c.pc = "insert" /\ c.asset = a /\ Named(c)
  BY DEF Idle, Call, Steps, Named
<1>4. Continue(h, c)
  BY <1>2
<1> HIDE DEF c
<1>5. /\ call' \in [Handlers -> Call] /\ call'[h] = c
      /\ \A i \in Handlers : i # h => call'[i] = call[i]
  BY <1>3, <1>4 DEF Continue, TypeOK
<1>6. /\ upload' \in [Assets -> {"unused", "begun", "answered"}] /\ upload'[a] = "begun"
      /\ \A b \in Assets : b # a => upload'[b] = upload[b]
  BY <1>2 DEF TypeOK
<1>7. a \notin Known /\ a # None
  BY <1>2, StickerAssumption DEF Known
<1>8. /\ a \notin row /\ a \notin cleaner.due /\ a # cleaner.asset /\ a \notin AssetsOf(stickers)
      /\ \A i \in Handlers : Uploading(i) => call[i].asset # a
      /\ expiry[a] = "none"
  BY <1>2, <1>7 DEF CleanerOK, UploadsOK, KnownOK, Known
<1>9. Tables'
  <2>1. left' \in 0 .. MaxCalls
    BY <1>1, StickerAssumption DEF TypeOK
  <2> QED BY <1>1, <1>2, <1>6, <2>1 DEF Tables, TypeOK
<1>10. call[h].pc \notin Uploads
  BY <1>1 DEF Uploads
<1>11. \A b \in Assets \ {a} :
           /\ b \in object' <=> b \in object
           /\ b \in row' <=> b \in row
           /\ b \in leaked' <=> b \in leaked
           /\ upload'[b] = upload[b] /\ expiry'[b] = expiry[b]
  BY <1>1, <1>2, <1>6
<1>12. c.asset = a /\ upload'[a] = "begun" /\ expiry'[a] = "none" /\ a \in object'
  BY <1>1, <1>2, <1>3, <1>6, <1>8
<1> QED BY <1>1, <1>3, <1>4, <1>7, <1>8, <1>9, <1>10, <1>11, <1>12, UploadStep

LEMMA UploadGoesOn ==
    ASSUME IInv, NEW h \in Handlers, Uploading(h), NEW pc \in {"track", "unrow", "unput"}, Goto(h, pc)
    PROVE  LET c == [call[h] EXCEPT !.pc = pc]
           IN  c \in Call /\ c.pc = pc /\ Continue(h, c) /\ Named(c) /\ c.asset = call[h].asset
<1>1. call[h] \in Call /\ Named(call[h])
  BY UploadNames
<1> DEFINE c == [call[h] EXCEPT !.pc = pc]
<1>2. c \in Call /\ c.pc = pc /\ Continue(h, c)
  <2>1. pc \in Steps /\ Locks
    BY Parts DEF IInv, Steps
  <2> QED BY <2>1, GotoIs
<1>3. c.asset = call[h].asset /\ c.what = call[h].what /\ c.pack = call[h].pack /\ c.assets = call[h].assets
  BY <1>1 DEF Call
<1>4. Named(c)
  BY <1>1, <1>2, <1>3 DEF Named
<1> QED BY <1>2, <1>3, <1>4

LEMMA InsertAssetStep ==
    ASSUME IInv, NEW h \in Handlers, InsertAsset(h)
    PROVE  IInv'
<1> USE DEF IInv
<1> DEFINE a == call[h].asset
<1>1. /\ call[h].pc = "insert" /\ left' = left /\ upsets' \in 0 .. MaxUpsets
      /\ UNCHANGED <<upload, object, expiry, torn, leaked, packs, stickers, room, messages, lock, cleaner>>
  BY StickerAssumption DEF InsertAsset, At, Works, Fails, shown, TypeOK
<1>2. /\ Uploading(h) /\ call[h].pc \in Uploads
  BY <1>1 DEF Uploading, Uploads
<1>3. a \in object
  BY <1>1, <1>2 DEF UploadsOK
<1>4. PICK pc \in {"track", "unput"} :
          Goto(h, pc) /\ row' = IF pc = "track" THEN row \cup {a} ELSE row
  BY DEF InsertAsset
<1> DEFINE c == [call[h] EXCEPT !.pc = pc]
<1>5. /\ c \in Call /\ c.pc = pc /\ Continue(h, c) /\ Named(c) /\ c.asset = a
  BY <1>2, <1>4, UploadGoesOn DEF Steps
<1> HIDE DEF c
<1>6. Tables'
  BY <1>1, <1>4, UploadNames, <1>2 DEF Tables, TypeOK
<1> QED BY <1>1, <1>2, <1>3, <1>4, <1>5, <1>6, UploadNames, UploadStep DEF Uploads

LEMMA TrackUploadedStep ==
    ASSUME IInv, NEW h \in Handlers, TrackUploaded(h)
    PROVE  IInv'
<1> USE DEF IInv
<1> DEFINE a == call[h].asset
<1>1. /\ call[h].pc = "track" /\ left' = left /\ upsets' \in 0 .. MaxUpsets
      /\ UNCHANGED <<object, row, torn, leaked, packs, stickers, room, messages, lock, cleaner>>
  BY StickerAssumption DEF TrackUploaded, At, Works, Fails, shown, TypeOK
<1>2. /\ Uploading(h) /\ call[h].pc \in Uploads
  BY <1>1 DEF Uploading, Uploads
<1>3. a \in object /\ a \in Assets \ Known
  BY <1>1, <1>2, UploadNames DEF UploadsOK
<1>4. CASE Goto(h, "unrow") /\ UNCHANGED <<expiry, upload>>
  <2> DEFINE c == [call[h] EXCEPT !.pc = "unrow"]
  <2>1. /\ c \in Call /\ c.pc = "unrow" /\ Continue(h, c) /\ Named(c) /\ c.asset = a
    BY <1>2, <1>4, UploadGoesOn
  <2> HIDE DEF c
  <2>2. Tables'
    BY <1>1, <1>4 DEF Tables, TypeOK
  <2>3. a \in row \cup leaked
    BY <1>1, <1>3, <1>2 DEF FilesMatchRows, FilesHaveRows, UploadsOK, Uploading
  <2> QED BY <1>1, <1>2, <1>3, <1>4, <2>1, <2>2, <2>3, UploadNames, UploadStep DEF Uploads
<1>5. CASE SetExpiry(a, "later") /\ upload' = [upload EXCEPT ![a] = "answered"] /\ Continue(h, Idle)
  <2>1. /\ expiry' \in [Assets -> {"none", "never", "later", "due"}]
        /\ \A b \in Assets : b # a => expiry'[b] = expiry[b]
    BY <1>5, SetExpiryOK
  <2>2. /\ upload' \in [Assets -> {"unused", "begun", "answered"}] /\ upload'[a] = "answered"
        /\ \A b \in Assets : b # a => upload'[b] = upload[b]
    BY <1>3, <1>5 DEF TypeOK
  <2>3. Tables'
    BY <1>1, <2>1, <2>2 DEF Tables, TypeOK
  <2>4. a \in row \cup leaked
    BY <1>1, <1>3, <1>2 DEF FilesMatchRows, FilesHaveRows, UploadsOK, Uploading
  <2> HIDE DEF a
  <2>5. call[h].pc # "settle" /\ call[h].asset = a
    BY <1>1 DEF a
  <2> QED BY <1>1, <1>2, <1>3, <1>5, <2>1, <2>2, <2>3, <2>4, <2>5, UploadNames, IdleNamed, UploadStep
<1> QED BY <1>4, <1>5 DEF TrackUploaded, End

LEMMA UndoInsertStep ==
    ASSUME IInv, NEW h \in Handlers, UndoInsert(h)
    PROVE  IInv'
<1> USE DEF IInv
<1> DEFINE a == call[h].asset
           c == [call[h] EXCEPT !.pc = "unput"]
<1>1. /\ call[h].pc = "unrow" /\ left' = left /\ upsets' = upsets /\ Goto(h, "unput")
      /\ UNCHANGED <<upload, object, expiry, torn, packs, stickers, room, messages, lock, cleaner>>
      /\ row' \subseteq row /\ row \ {a} \subseteq row'
      /\ leaked \subseteq leaked' /\ leaked' \subseteq leaked \cup {a}
  BY DEF UndoInsert, At, Works, shown
<1>2. /\ Uploading(h) /\ call[h].pc \in Uploads
  BY <1>1 DEF Uploading, Uploads
<1>3. /\ c \in Call /\ c.pc = "unput" /\ Continue(h, c) /\ Named(c) /\ c.asset = a
  BY <1>1, <1>2, UploadGoesOn
<1> HIDE DEF c
<1>4. Tables'
  BY <1>1, <1>2, UploadNames DEF Tables, TypeOK
<1> QED BY <1>1, <1>2, <1>3, <1>4, UploadNames, UploadStep DEF Uploads

LEMMA UndoPutStep ==
    ASSUME IInv, NEW h \in Handlers, UndoPut(h)
    PROVE  IInv'
<1> USE DEF IInv
<1> DEFINE a == call[h].asset
<1>1. /\ call[h].pc = "unput" /\ left' = left /\ upsets' = upsets /\ Continue(h, Idle)
      /\ UNCHANGED <<upload, row, expiry, torn, packs, stickers, room, messages, lock, cleaner>>
      /\ object' \subseteq object /\ object \ {a} \subseteq object'
      /\ leaked \subseteq leaked' /\ leaked' \subseteq leaked \cup {a}
      /\ a \in object' => a \in leaked'
  BY DEF UndoPut, At, Works, shown, End
<1>2. /\ Uploading(h) /\ call[h].pc \in Uploads
  BY <1>1 DEF Uploading, Uploads
<1>3. Tables'
  BY <1>1, <1>2, UploadNames DEF Tables, TypeOK
<1> QED BY <1>1, <1>2, <1>3, UploadNames, IdleNamed, UploadStep DEF Uploads
-----------------------------------------------------------------------------
(* The cleaner, time and restarts                                          *)

\* Nothing here disturbs what requests and uploads know, as long as an asset that is
\* being uploaded gets no lifecycle record.
LEMMA RequestsStay ==
    ASSUME IInv, UNCHANGED <<upload, call, messages>>, stickers' \subseteq stickers,
           \A a \in Assets : expiry[a] = "none" => expiry'[a] = "none",
           \A h \in Handlers : Uploading(h) => /\ call[h].asset \notin cleaner'.due
                                               /\ call[h].asset # cleaner'.asset
                                               /\ call[h].asset \in object => call[h].asset \in object'
    PROVE  UploadsOK' /\ KnownOK'
<1> USE DEF IInv
<1>1. UploadsOK'
  BY DEF UploadsOK, Uploading
<1>2. KnownOK'
  BY DEF KnownOK, Known, Named, AssetsOf
<1> QED BY <1>1, <1>2

\* A step that changes only the cleaner's place and lifecycle records.
LEMMA CleanerQuiet ==
    ASSUME IInv, UNCHANGED <<upload, object, row, torn, leaked, stickers, messages, call>>,
           Tables', Locks', CleanerOK',
           \A a \in Assets : expiry[a] = "none" => expiry'[a] = "none",
           \A h \in Handlers : Uploading(h) => call[h].asset \notin cleaner'.due /\ call[h].asset # cleaner'.asset,
           cleaner.pc = "row" => cleaner'.pc = "row" /\ cleaner'.asset = cleaner.asset
    PROVE  IInv'
<1> USE DEF IInv
<1>1. UploadsOK' /\ KnownOK'
  BY RequestsStay
<1>2. TypeOK'
  BY Parts, PTL
<1>3. RowsHaveFiles'
  BY DEF RowsHaveFiles, Known
<1>4. FilesMatchRows'
  BY DEF FilesMatchRows, StickersHaveFiles, FilesHaveRows
<1> QED BY <1>1, <1>2, <1>3, <1>4

LEMMA ReconcileStep ==
    ASSUME IInv, Reconcile
    PROVE  IInv'
<1> USE DEF IInv
<1>1. /\ cleaner.pc = "idle" /\ cleaner' = [cleaner EXCEPT !.pc = "list"]
      /\ UNCHANGED <<upload, call, left, packs, stickers, room, messages, object, row, torn, leaked, lock, upsets>>
  BY DEF Reconcile, Cleaning, UsersKept, shown
<1>2. cleaner \in CleanerType /\ cleaner.asset = None
  BY <1>1 DEF TypeOK, CleanerType, CleanerOK
<1>3. cleaner' \in CleanerType /\ cleaner'.pc = "list" /\ cleaner'.asset = None /\ cleaner'.due = cleaner.due
  BY <1>1, <1>2 DEF CleanerType
<1>4. /\ expiry' \in [Assets -> {"none", "never", "later", "due"}]
      /\ \A a \in Assets : expiry[a] = "none" => expiry'[a] = "none"
  BY DEF Reconcile, TypeOK
<1>5. Tables'
  BY <1>1, <1>4 DEF Tables, TypeOK
<1>6. Locks'
  BY <1>1, <1>2, <1>3 DEF Locks, TypeOK
<1>7. CleanerOK'
  BY <1>1, <1>2, <1>3 DEF CleanerOK
<1>8. \A h \in Handlers : Uploading(h) => call[h].asset \notin cleaner'.due /\ call[h].asset # cleaner'.asset
  BY <1>2, <1>3 DEF UploadsOK
<1> QED BY <1>1, <1>4, <1>5, <1>6, <1>7, <1>8, CleanerQuiet

LEMMA ListExpiredStep ==
    ASSUME IInv, ListExpired
    PROVE  IInv'
<1> USE DEF IInv
<1> DEFINE due == {a \in row : expiry[a] = "due"}
           c == [Resting EXCEPT !.pc = "next", !.due = due]
<1>1. /\ cleaner.pc = "list" /\ cleaner' \in {Resting, c}
      /\ UNCHANGED <<upload, call, left, packs, stickers, room, messages, object, row, expiry, torn, leaked, lock, upsets>>
  BY DEF ListExpired, Cleaning, UsersKept, shown, files
<1>2. cleaner \in CleanerType /\ cleaner.asset = None
  BY <1>1 DEF TypeOK, CleanerType, CleanerOK
<1>3. c \in CleanerType /\ c.pc = "next" /\ c.asset = None /\ c.due = due
  <2>1. due \subseteq Assets
    BY DEF TypeOK
  <2> HIDE DEF due
  <2> QED BY <2>1 DEF CleanerType, Resting
<1> HIDE DEF c
<1>4. cleaner' \in CleanerType /\ cleaner'.pc \in {"idle", "next"} /\ cleaner'.asset = None /\ cleaner'.due \subseteq due
  BY <1>1, <1>3, IdleOK
<1>5. Tables'
  BY <1>1 DEF Tables, TypeOK
<1>6. Locks'
  BY <1>1, <1>2, <1>4 DEF Locks, TypeOK
<1>7. CleanerOK'
  BY <1>1, <1>2, <1>4 DEF CleanerOK
<1>8. \A h \in Handlers : Uploading(h) => call[h].asset \notin cleaner'.due /\ call[h].asset # cleaner'.asset
  BY <1>2, <1>4 DEF UploadsOK
<1> QED BY <1>1, <1>5, <1>6, <1>7, <1>8, CleanerQuiet

LEMMA TakeCandidateStep ==
    ASSUME IInv, TakeCandidate
    PROVE  IInv'
<1> USE DEF IInv
<1>1. /\ cleaner.pc = "next"
      /\ UNCHANGED <<upload, call, left, packs, stickers, room, messages, object, row, expiry, torn, leaked, upsets>>
  BY DEF TakeCandidate, Cleaning, UsersKept, shown, files
<1>2. cleaner \in CleanerType /\ cleaner.asset = None /\ cleaner.due \subseteq Assets
  BY <1>1 DEF TypeOK, CleanerType, CleanerOK
<1>3. Tables'
  BY <1>1 DEF Tables, TypeOK
<1>4. CASE \E a \in cleaner.due : /\ lock[a] = None
                                  /\ lock' = [lock EXCEPT ![a] = "cleaner"]
                                  /\ cleaner' = [pc |-> "check", due |-> cleaner.due \ {a}, asset |-> a]
  <2>1. PICK a \in cleaner.due : /\ lock[a] = None
                                 /\ lock' = [lock EXCEPT ![a] = "cleaner"]
                                 /\ cleaner' = [pc |-> "check", due |-> cleaner.due \ {a}, asset |-> a]
    BY <1>4
  <2>2. a \in Assets /\ a # None /\ "cleaner" \notin Handlers
    BY <1>2, StickerAssumption
  <2>3. cleaner' \in CleanerType /\ cleaner'.pc = "check" /\ cleaner'.asset = a /\ cleaner'.due = cleaner.due \ {a}
    BY <1>2, <2>1, <2>2 DEF CleanerType
  <2>4. Locks'
    <3>1. /\ lock' \in [Assets -> Handlers \cup {"cleaner", None}] /\ lock'[a] = "cleaner"
          /\ \A b \in Assets : b # a => lock'[b] = lock[b]
      BY <2>1, <2>2 DEF TypeOK
    <3>2. ASSUME NEW i \in Handlers, NEW b \in Assets
          PROVE  (lock'[b] = i) <=> (call'[i].pc = "settle" /\ call'[i].asset = b)
      <4>1. (lock[b] = i) <=> (call[i].pc = "settle" /\ call[i].asset = b)
        BY DEF TypeOK
      <4> QED BY <1>1, <2>1, <2>2, <3>1, <4>1, StickerAssumption
    <3>3. ASSUME NEW b \in Assets
          PROVE  (lock'[b] = "cleaner") <=> (cleaner'.asset = b)
      <4>1. (lock[b] = "cleaner") <=> (cleaner.asset = b)
        BY DEF TypeOK
      <4> QED BY <1>2, <2>1, <2>2, <2>3, <3>1, <4>1, StickerAssumption
    <3> QED BY <1>1, <2>3, <3>1, <3>2, <3>3 DEF Locks, TypeOK
  <2>5. CleanerOK'
    BY <1>1, <2>2, <2>3 DEF CleanerOK
  <2>6. \A h \in Handlers : Uploading(h) => call[h].asset \notin cleaner'.due /\ call[h].asset # cleaner'.asset
    BY <2>3 DEF UploadsOK
  <2> QED BY <1>1, <1>3, <2>4, <2>5, <2>6, CleanerQuiet
<1>5. CASE lock' = lock /\ (cleaner' = Resting \/ \E a \in cleaner.due : cleaner' = [cleaner EXCEPT !.due = cleaner.due \ {a}])
  <2>1. cleaner' \in CleanerType /\ cleaner'.pc \in {"idle", "next"} /\ cleaner'.asset = None /\ cleaner'.due \subseteq cleaner.due
    <3>1. CASE cleaner' = Resting
      BY <3>1, IdleOK
    <3>2. CASE \E a \in cleaner.due : cleaner' = [cleaner EXCEPT !.due = cleaner.due \ {a}]
      BY <3>2, <1>1, <1>2 DEF CleanerType
    <3> QED BY <1>5, <3>1, <3>2
  <2>2. Locks'
    BY <1>1, <1>2, <1>5, <2>1 DEF Locks, TypeOK
  <2>3. CleanerOK'
    BY <1>1, <1>2, <2>1 DEF CleanerOK
  <2>4. \A h \in Handlers : Uploading(h) => call[h].asset \notin cleaner'.due /\ call[h].asset # cleaner'.asset
    BY <1>2, <2>1 DEF UploadsOK
  <2> QED BY <1>1, <1>3, <2>2, <2>3, <2>4, CleanerQuiet
<1> QED BY <1>4, <1>5 DEF TakeCandidate

LEMMA CheckAgainStep ==
    ASSUME IInv, CheckAgain
    PROVE  IInv'
<1> USE DEF IInv
<1>1. /\ cleaner.pc = "check"
      /\ UNCHANGED <<upload, call, left, packs, stickers, room, messages, object, row, expiry, torn, leaked, lock, upsets>>
  BY DEF CheckAgain, Cleaning, UsersKept, shown, files
<1>2. cleaner \in CleanerType
  BY DEF TypeOK, CleanerType
<1>3. PICK pc \in {"keep", "object"} : /\ cleaner' = [cleaner EXCEPT !.pc = pc]
                                       /\ pc = "object" => ~Referenced(cleaner.asset)
  BY DEF CheckAgain
<1>4. cleaner' \in CleanerType /\ cleaner'.pc = pc /\ cleaner'.asset = cleaner.asset /\ cleaner'.due = cleaner.due
  BY <1>2, <1>3 DEF CleanerType
<1>5. Tables'
  BY <1>1 DEF Tables, TypeOK
<1>6. Locks'
  BY <1>1, <1>4 DEF Locks, TypeOK
<1>7. CleanerOK'
  BY <1>1, <1>3, <1>4 DEF CleanerOK, Referenced
<1>8. \A h \in Handlers : Uploading(h) => call[h].asset \notin cleaner'.due /\ call[h].asset # cleaner'.asset
  BY <1>4 DEF UploadsOK
<1> QED BY <1>1, <1>5, <1>6, <1>7, <1>8, CleanerQuiet

\* The cleaner gives the mutex back.
LEMMA GiveBack ==
    ASSUME TypeOK, cleaner.asset \in Assets, lock' = [lock EXCEPT ![cleaner.asset] = None],
           cleaner' \in CleanerType, cleaner'.asset = None, UNCHANGED call
    PROVE  Locks'
<1>1. /\ lock' \in [Assets -> Handlers \cup {"cleaner", None}] /\ lock'[cleaner.asset] = None
      /\ \A b \in Assets : b # cleaner.asset => lock'[b] = lock[b]
      /\ lock[cleaner.asset] = "cleaner"
  BY DEF TypeOK
<1>2. ASSUME NEW i \in Handlers, NEW b \in Assets
      PROVE  (lock'[b] = i) <=> (call'[i].pc = "settle" /\ call'[i].asset = b)
  <2>1. (lock[b] = i) <=> (call[i].pc = "settle" /\ call[i].asset = b)
    BY DEF TypeOK
  <2> QED BY <1>1, <2>1, StickerAssumption
<1>3. ASSUME NEW b \in Assets
      PROVE  (lock'[b] = "cleaner") <=> (cleaner'.asset = b)
  <2>1. (lock[b] = "cleaner") <=> (cleaner.asset = b)
    BY DEF TypeOK
  <2> QED BY <1>1, <2>1, StickerAssumption
<1> QED BY <1>1, <1>2, <1>3 DEF Locks, TypeOK

LEMMA NextOrEnd ==
    ASSUME TypeOK, CleanerOK, cleaner.pc \in {"check", "keep", "object", "row", "record"},
           NextAsset \/ EndRound, UNCHANGED call
    PROVE  /\ Locks' /\ cleaner.asset \in Assets
           /\ cleaner'.pc \in {"idle", "next"} /\ cleaner'.asset = None
           /\ cleaner'.due \subseteq cleaner.due
<1>1. cleaner \in CleanerType /\ cleaner.asset \in Assets
  BY DEF TypeOK, CleanerType, CleanerOK
<1>2. /\ cleaner' \in CleanerType /\ cleaner'.pc \in {"idle", "next"} /\ cleaner'.asset = None
      /\ cleaner'.due \subseteq cleaner.due
  <2>1. CASE NextAsset
    BY <1>1, <2>1 DEF NextAsset, CleanerType
  <2>2. CASE EndRound
    BY <2>2, IdleOK DEF EndRound
  <2> QED BY <2>1, <2>2
<1>3. Locks'
  BY <1>1, <1>2, GiveBack DEF NextAsset, EndRound
<1> QED BY <1>1, <1>2, <1>3

LEMMA KeepAssetStep ==
    ASSUME IInv, KeepAsset
    PROVE  IInv'
<1> USE DEF IInv
<1>1. /\ cleaner.pc = "keep" /\ SetExpiry(cleaner.asset, "never") /\ NextAsset
      /\ UNCHANGED <<upload, call, left, packs, stickers, room, messages, object, row, torn, leaked, upsets>>
  BY DEF KeepAsset, Cleaning, UsersKept, shown
<1>2. /\ Locks' /\ cleaner.asset \in Assets
      /\ cleaner'.pc \in {"idle", "next"} /\ cleaner'.asset = None /\ cleaner'.due \subseteq cleaner.due
  BY <1>1, NextOrEnd
<1>3. /\ expiry' \in [Assets -> {"none", "never", "later", "due"}]
      /\ \A b \in Assets : b # cleaner.asset => expiry'[b] = expiry[b]
  BY <1>1, SetExpiryOK
<1>4. TypeOK'
  <2>1. Tables'
    BY <1>1, <1>3 DEF Tables, TypeOK
  <2> QED BY <1>2, <2>1, Parts, PTL
<1>5. CleanerOK'
  BY <1>1, <1>2 DEF CleanerOK
<1>6. UploadsOK'
  <2>1. \A h \in Handlers : Uploading(h) => /\ call[h].asset \notin cleaner'.due
                                            /\ call[h].asset # cleaner'.asset
                                            /\ expiry'[call[h].asset] = "none"
    BY <1>2, <1>3, StickerAssumption DEF UploadsOK
  <2>2. \A a \in Assets : upload[a] = "unused" => expiry'[a] = "none"
    BY <1>2, <1>3, StickerAssumption DEF UploadsOK, CleanerOK
  <2> QED BY <1>1, <2>1, <2>2 DEF UploadsOK, Uploading
<1>7. KnownOK'
  BY <1>1 DEF KnownOK, Known, Named, AssetsOf
<1>8. RowsHaveFiles'
  BY <1>1 DEF RowsHaveFiles, Known
<1>9. FilesMatchRows'
  BY <1>1 DEF FilesMatchRows, StickersHaveFiles, FilesHaveRows
<1> QED BY <1>4, <1>5, <1>6, <1>7, <1>8, <1>9

LEMMA DeleteObjectStep ==
    ASSUME IInv, DeleteObject
    PROVE  IInv'
<1> USE DEF IInv
<1> DEFINE a == cleaner.asset
<1>1. /\ cleaner.pc = "object" /\ upsets' \in 0 .. MaxUpsets
      /\ UNCHANGED <<upload, call, left, packs, stickers, room, messages, row, expiry, torn, leaked>>
  BY StickerAssumption DEF DeleteObject, Cleaning, UsersKept, shown, Works, Fails, TypeOK
<1>2. cleaner \in CleanerType /\ a \in Assets
  BY <1>1 DEF TypeOK, CleanerType, CleanerOK
<1>3. CASE object' = object \ {a} /\ cleaner' = [cleaner EXCEPT !.pc = "row"] /\ lock' = lock
  <2>1. cleaner' \in CleanerType /\ cleaner'.pc = "row" /\ cleaner'.asset = a /\ cleaner'.due = cleaner.due
    BY <1>2, <1>3 DEF CleanerType
  <2>2. TypeOK'
    <3>1. Tables'
      BY <1>1, <1>3 DEF Tables, TypeOK
    <3>2. Locks'
      BY <1>1, <1>3, <2>1 DEF Locks, TypeOK
    <3> QED BY <3>1, <3>2, Parts, PTL
  <2>3. CleanerOK'
    BY <1>1, <1>3, <2>1 DEF CleanerOK
  <2>4. UploadsOK' /\ KnownOK'
    <3>1. \A h \in Handlers : Uploading(h) => /\ call[h].asset \notin cleaner'.due
                                              /\ call[h].asset # cleaner'.asset
                                              /\ call[h].asset \in object => call[h].asset \in object'
      BY <1>3, <2>1 DEF UploadsOK
    <3> QED BY <1>1, <3>1, RequestsStay
  <2>5. RowsHaveFiles'
    BY <1>1, <1>3, <2>1 DEF RowsHaveFiles, Known
  <2>6. StickersHaveFiles'
    BY <1>1, <1>3 DEF FilesMatchRows, StickersHaveFiles, CleanerOK, AssetsOf
  <2>7. FilesHaveRows'
    BY <1>1, <1>3 DEF FilesMatchRows, FilesHaveRows
  <2> QED BY <2>2, <2>3, <2>4, <2>5, <2>6, <2>7 DEF FilesMatchRows
<1>4. CASE object' = object /\ EndRound
  <2>1. /\ Locks' /\ cleaner'.pc \in {"idle", "next"} /\ cleaner'.asset = None /\ cleaner'.due \subseteq cleaner.due
    BY <1>1, <1>4, NextOrEnd
  <2>2. Tables'
    BY <1>1, <1>4 DEF Tables, TypeOK
  <2>3. CleanerOK'
    BY <1>1, <1>4, <2>1 DEF CleanerOK
  <2>4. \A h \in Handlers : Uploading(h) => call[h].asset \notin cleaner'.due /\ call[h].asset # cleaner'.asset
    BY <2>1, StickerAssumption DEF UploadsOK
  <2> QED BY <1>1, <1>4, <2>1, <2>2, <2>3, <2>4, CleanerQuiet
<1> QED BY <1>3, <1>4 DEF DeleteObject

LEMMA DeleteRowStep ==
    ASSUME IInv, DeleteRow
    PROVE  IInv'
<1> USE DEF IInv
<1> DEFINE a == cleaner.asset
<1>1. /\ cleaner.pc = "row" /\ upsets' \in 0 .. MaxUpsets
      /\ UNCHANGED <<upload, call, left, packs, room, messages, object, expiry, leaked>>
  BY StickerAssumption DEF DeleteRow, Cleaning, Works, Fails, TypeOK
<1>2. cleaner \in CleanerType /\ a \in Assets /\ a \notin object /\ a \notin AssetsOf(stickers)
  BY <1>1 DEF TypeOK, CleanerType, CleanerOK
<1>3. CASE /\ row' = row \ {a} /\ stickers' = {s \in stickers : s.asset # a}
           /\ cleaner' = [cleaner EXCEPT !.pc = "record"] /\ UNCHANGED <<torn, lock>>
  <2>1. cleaner' \in CleanerType /\ cleaner'.pc = "record" /\ cleaner'.asset = a /\ cleaner'.due = cleaner.due
    BY <1>2, <1>3 DEF CleanerType
  <2>2. TypeOK'
    <3>1. Tables'
      BY <1>1, <1>3 DEF Tables, TypeOK
    <3>2. Locks'
      BY <1>1, <1>3, <2>1 DEF Locks, TypeOK
    <3> QED BY <3>1, <3>2, Parts, PTL
  <2>3. CleanerOK'
    BY <1>1, <1>3, <2>1 DEF CleanerOK
  <2>4. UploadsOK' /\ KnownOK'
    <3>1. \A h \in Handlers : Uploading(h) => /\ call[h].asset \notin cleaner'.due
                                              /\ call[h].asset # cleaner'.asset
                                              /\ call[h].asset \in object => call[h].asset \in object'
      BY <1>1, <2>1 DEF UploadsOK
    <3> QED BY <1>1, <1>3, <3>1, RequestsStay
  <2>5. RowsHaveFiles'
    BY <1>1, <1>3, <2>1 DEF RowsHaveFiles, Known
  <2>6. StickersHaveFiles'
    BY <1>1, <1>3 DEF FilesMatchRows, StickersHaveFiles
  <2>7. FilesHaveRows'
    BY <1>1, <1>2, <1>3 DEF FilesMatchRows, FilesHaveRows
  <2> QED BY <2>2, <2>3, <2>4, <2>5, <2>6, <2>7 DEF FilesMatchRows
<1>4. CASE torn' = torn \cup {a} /\ EndRound /\ UNCHANGED <<row, stickers>>
  <2>1. /\ Locks' /\ cleaner'.pc \in {"idle", "next"} /\ cleaner'.asset = None /\ cleaner'.due \subseteq cleaner.due
    BY <1>1, <1>4, NextOrEnd
  <2>2. TypeOK'
    <3>1. Tables'
      BY <1>1, <1>2, <1>4 DEF Tables, TypeOK
    <3> QED BY <2>1, <3>1, Parts, PTL
  <2>3. CleanerOK'
    BY <1>1, <1>4, <2>1 DEF CleanerOK
  <2>4. UploadsOK' /\ KnownOK'
    <3>1. \A h \in Handlers : Uploading(h) => /\ call[h].asset \notin cleaner'.due
                                              /\ call[h].asset # cleaner'.asset
                                              /\ call[h].asset \in object => call[h].asset \in object'
      BY <1>1, <2>1, StickerAssumption DEF UploadsOK
    <3> QED BY <1>1, <1>4, <3>1, RequestsStay
  <2>5. RowsHaveFiles'
    BY <1>1, <1>4, <2>1 DEF RowsHaveFiles, Known
  <2>6. FilesMatchRows'
    BY <1>1, <1>4 DEF FilesMatchRows, StickersHaveFiles, FilesHaveRows
  <2> QED BY <2>2, <2>3, <2>4, <2>5, <2>6
<1> QED BY <1>3, <1>4 DEF DeleteRow

LEMMA DeleteLifecycleStep ==
    ASSUME IInv, DeleteLifecycle
    PROVE  IInv'
<1> USE DEF IInv
<1>1. /\ cleaner.pc = "record" /\ upsets' \in 0 .. MaxUpsets
      /\ NextAsset \/ EndRound
      /\ UNCHANGED <<upload, call, left, packs, stickers, room, messages, object, row, torn, leaked>>
      /\ expiry' = expiry \/ expiry' = [expiry EXCEPT ![cleaner.asset] = "none"]
  BY StickerAssumption DEF DeleteLifecycle, Cleaning, UsersKept, shown, Works, Fails, TypeOK
<1>2. /\ Locks' /\ cleaner'.pc \in {"idle", "next"} /\ cleaner'.asset = None /\ cleaner'.due \subseteq cleaner.due
  BY <1>1, NextOrEnd
<1>3. Tables' /\ \A a \in Assets : expiry[a] = "none" => expiry'[a] = "none"
  BY <1>1 DEF Tables, TypeOK
<1>4. CleanerOK'
  BY <1>1, <1>2 DEF CleanerOK
<1>5. \A h \in Handlers : Uploading(h) => call[h].asset \notin cleaner'.due /\ call[h].asset # cleaner'.asset
  BY <1>2, StickerAssumption DEF UploadsOK
<1> QED BY <1>1, <1>2, <1>3, <1>4, <1>5, CleanerQuiet

LEMMA TimePassesStep ==
    ASSUME IInv, NEW a \in Assets, TimePasses(a)
    PROVE  IInv'
<1> USE DEF IInv
<1>1. /\ expiry[a] = "later" /\ expiry' = [expiry EXCEPT ![a] = "due"]
      /\ UNCHANGED <<upload, object, row, torn, leaked, packs, stickers, room, messages, lock, call, cleaner, left, upsets>>
  BY DEF TimePasses, shown
<1>2. Tables' /\ \A b \in Assets : expiry[b] = "none" => expiry'[b] = "none"
  BY <1>1 DEF Tables, TypeOK
<1>3. Locks'
  BY <1>1, Parts DEF Locks
<1>4. CleanerOK'
  BY <1>1 DEF CleanerOK
<1>5. \A h \in Handlers : Uploading(h) => call[h].asset \notin cleaner'.due /\ call[h].asset # cleaner'.asset
  BY <1>1 DEF UploadsOK
<1> QED BY <1>1, <1>2, <1>3, <1>4, <1>5, CleanerQuiet

\* What the calls that end leave behind is recorded.
LEMMA RestartStep ==
    ASSUME IInv, Restart
    PROVE  IInv'
<1> USE DEF IInv
<1>1. /\ upsets' \in 0 .. MaxUpsets
      /\ call' = [h \in Handlers |-> Idle] /\ cleaner' = Resting /\ lock' = [a \in Assets |-> None]
      /\ UNCHANGED <<upload, object, row, packs, stickers, room, messages, left>>
      /\ torn \subseteq torn' /\ leaked \subseteq leaked'
      /\ cleaner.pc = "row" => cleaner.asset \in torn'
      /\ \A h \in Handlers : call[h].pc \in {"insert", "unput"} => call[h].asset \in leaked'
  BY StickerAssumption DEF Restart, Fails, Cleaning, shown, TypeOK
<1>2. \A h \in Handlers : call'[h] = Idle
  BY <1>1
<1>3. /\ expiry' \in [Assets -> {"none", "never", "later", "due"}]
      /\ \A a \in Assets : expiry[a] = "none" /\ a \notin row => expiry'[a] = "none"
  BY DEF Restart, TypeOK
<1>4. torn' \subseteq Assets /\ leaked' \subseteq Assets
  <2>1. torn' \subseteq Assets
    <3>1. cleaner.pc = "row" => cleaner.asset \in Assets
      BY DEF CleanerOK, TypeOK
    <3> QED BY <3>1 DEF Restart, Cleaning, TypeOK
  <2>2. \A h \in Handlers : call[h].pc \in {"insert", "unput"} => call[h].asset \in Assets
    BY DEF UploadsOK, Uploading
  <2>3. leaked' \subseteq Assets
    BY <2>2 DEF Restart, TypeOK
  <2> QED BY <2>1, <2>3
<1>5. TypeOK'
  <2>1. Tables'
    BY <1>1, <1>3, <1>4 DEF Tables, TypeOK
  <2>2. /\ lock' \in [Assets -> Handlers \cup {"cleaner", None}] /\ call' \in [Handlers -> Call]
        /\ cleaner' \in CleanerType
    BY <1>1, IdleOK
  <2>3. \A h \in Handlers, a \in Assets : (lock'[a] = h) <=> (call'[h].pc = "settle" /\ call'[h].asset = a)
    BY <1>1, <1>2, IdleOK, StickerAssumption
  <2>4. \A a \in Assets : (lock'[a] = "cleaner") <=> (cleaner'.asset = a)
    BY <1>1, IdleOK, StickerAssumption
  <2>5. Locks'
    BY <2>2, <2>3, <2>4 DEF Locks
  <2> QED BY <2>1, <2>5, Parts, PTL
<1>6. CleanerOK'
  BY <1>1, IdleOK DEF CleanerOK
<1>7. UploadsOK'
  <2>1. \A h \in Handlers : ~(call'[h].pc \in {"insert", "track", "unrow", "unput"})
    BY <1>2, IdleOK
  <2>2. \A a \in Assets : upload'[a] = "unused" => expiry'[a] = "none"
    BY <1>1, <1>3 DEF UploadsOK, CleanerOK
  <2> QED BY <2>1, <2>2 DEF UploadsOK, Uploading
<1>8. KnownOK'
  <2>1. \A h \in Handlers : Named(call[h])'
    BY <1>2, IdleOK DEF Named
  <2> QED BY <1>1, <2>1 DEF KnownOK, Known, AssetsOf
<1>9. RowsHaveFiles'
  BY <1>1 DEF RowsHaveFiles, Known
<1>10. StickersHaveFiles'
  BY <1>1 DEF FilesMatchRows, StickersHaveFiles
<1>11. FilesHaveRows'
  BY <1>1 DEF FilesMatchRows, FilesHaveRows
<1> QED BY <1>5, <1>6, <1>7, <1>8, <1>9, <1>10, <1>11 DEF FilesMatchRows
-----------------------------------------------------------------------------
(* The theorems                                                            *)

LEMMA InitOK == Init => IInv
<1> SUFFICES ASSUME Init PROVE IInv
  OBVIOUS
<1> USE DEF Init
<1>1. call \in [Handlers -> Call] /\ \A h \in Handlers : call[h] = Idle
  BY IdleOK
<1>2. cleaner \in CleanerType /\ cleaner.pc = "idle" /\ cleaner.asset = None /\ cleaner.due = {}
  BY IdleOK
<1>3. TypeOK
  <2>1. stickers \subseteq Sticker
    BY StickerAssumption DEF Sticker
  <2>2. Tables
    BY <2>1, StickerAssumption DEF Tables
  <2>3. Locks
    BY <1>1, <1>2, IdleOK, StickerAssumption DEF Locks
  <2> QED BY <2>2, <2>3, Parts
<1>4. Known = {OldAsset} /\ AssetsOf(stickers) = {OldAsset}
  BY StickerAssumption DEF Known, AssetsOf
<1>5. CleanerOK
  BY <1>2, <1>4 DEF CleanerOK, Known
<1>6. UploadsOK
  <2>1. \A h \in Handlers : call[h].pc = "idle"
    BY <1>1, IdleOK
  <2> QED BY <2>1 DEF UploadsOK, Uploading
<1>7. KnownOK
  <2>1. \A h \in Handlers : Named(call[h])
    BY <1>1, IdleOK DEF Named
  <2>2. DOMAIN messages = {}
    BY EmptySeq
  <2> QED BY <1>4, <2>1, <2>2 DEF KnownOK
<1>8. RowsHaveFiles /\ FilesMatchRows
  BY DEF RowsHaveFiles, FilesMatchRows, StickersHaveFiles, FilesHaveRows
<1> QED BY <1>3, <1>5, <1>6, <1>7, <1>8 DEF IInv

LEMMA Step ==
    ASSUME IInv, [Next]_vars
    PROVE  IInv'
<1>1. ASSUME NEW h \in Handlers, NewCall(h)
      PROVE  IInv'
  BY <1>1, NewCallStep, UploadFileStep
<1>2. ASSUME NEW h \in Handlers, HandlerStep(h)
      PROVE  IInv'
  BY <1>2, InsertAssetStep, TrackUploadedStep, UndoInsertStep, UndoPutStep, InsertMessageStep,
     StickerAssetAvailableStep, ChoosePackStep, AddStickerToPackStep, RetainStickerAssetStep,
     ForgetStep, LookForReferencesStep, ScheduleExpiryStep DEF HandlerStep
<1>3. CASE Clean
  BY <1>3, ReconcileStep, ListExpiredStep, TakeCandidateStep, CheckAgainStep, KeepAssetStep,
     DeleteObjectStep, DeleteRowStep, DeleteLifecycleStep DEF Clean
<1>4. ASSUME NEW a \in Assets, TimePasses(a)
      PROVE  IInv'
  BY <1>4, TimePassesStep
<1>5. CASE Restart
  BY <1>5, RestartStep
<1>6. CASE UNCHANGED vars
  <2>1. UNCHANGED <<upload, object, row, expiry, torn, leaked, packs, stickers, room, messages, lock,
                    call, cleaner, left, upsets>>
    BY <1>6 DEF vars, files, shown
  <2>2. Tables' /\ Locks'
    BY <2>1, Parts DEF IInv, Tables, Locks
  <2>3. CleanerOK'
    BY <2>1 DEF IInv, CleanerOK
  <2>4. \A h \in Handlers : Uploading(h) => call[h].asset \notin cleaner'.due /\ call[h].asset # cleaner'.asset
    BY <2>1 DEF IInv, UploadsOK
  <2> QED BY <2>1, <2>2, <2>3, <2>4, CleanerQuiet
<1> QED BY <1>1, <1>2, <1>3, <1>4, <1>5, <1>6 DEF Next

LEMMA Inductive == Spec => []IInv
  BY InitOK, Step, PTL DEF Spec

\* The variables keep their types, and an asset's mutex is held by one at a time: by a request
\* while it settles the asset, or by the cleaner from its second look at the asset until
\* it is done with it (assetLifecycleLocks).
THEOREM TypeCorrect == Spec => []TypeOK
<1>1. IInv => TypeOK
  BY DEF IInv
<1> QED BY <1>1, Inductive, PTL

\* Whatever requests upload, add, save, send and delete at the same time, whatever the cleaner
\* removes, and wherever statements fail or the server stops: a sticker's asset has its
\* row and its file, and a file has its row, but for what a removal or an upload that
\* was interrupted has left (cleanupExpiredStickerAssets, addStickerToPack, uploadFile).
THEOREM FilesStayTogether == Spec => []FilesMatchRows
<1>1. IInv => FilesMatchRows
  BY DEF IInv
<1> QED BY <1>1, Inductive, PTL
=============================================================================
