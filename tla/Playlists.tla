------------------------------- MODULE Playlists -------------------------------
(***************************************************************************)
(* Saved playlists: src/internal/musicbox/playlist_store.go,               *)
(* playlist_batch_add_store.go, playlist_merge_store.go,                   *)
(* room_playlist_store.go and room_playlist_clone_store.go, with their     *)
(* requests in src/internal/chat (music_playlists.go and                   *)
(* music_room_playlists.go) and the two of music_box.go that read a        *)
(* playlist without a lock: activating one in a room and cloning the       *)
(* active one.                                                             *)
(*                                                                         *)
(* A playlist belongs to a scope: a user or a room.  Every edit is one     *)
(* immediate transaction and one step; the two requests read in several    *)
(* statements, each a step.  Both orders of rows (sort_order, in gaps of   *)
(* ten, then created_at and id) are kept as sequences.  Items are named by *)
(* their places: a request that names an item which is not there is        *)
(* refused or ignored, and has no step.  Accounts are deleted too: the     *)
(* schema cascades to the playlists of the user and to the rows that the   *)
(* user added to those of the room (src/internal/db/schema.sql).           *)
(***************************************************************************)
EXTENDS Integers, FiniteSets, Sequences, SequencesExt

CONSTANTS
    Users, Room,
    Admins,         \* the users who administrate the room
    Links,          \* tracks: a source and an id of that source
    Names,          \* names of playlists
    None,
    MaxItems,       \* MaxPlaylistItems
    MaxPlaylists,   \* MaxUserPlaylists, MaxRoomPlaylists
    PageSize,       \* MaxPlaylistPage
    Library,        \* the playlists at the start: scope, name and links, by id
    Playing,        \* and the one that the room plays
    MaxMade,        \* bound: playlists ever made
    MaxEdits,       \* bound: edits of playlists, of their items and of what is
                    \* played, and deletions of accounts
    MaxSnapshots    \* bound: activations

Scopes == Users \cup {Room}
Ids == 1..MaxMade
Snapshots == 1..MaxSnapshots
LibraryOf(s) == {p \in DOMAIN Library : Library[p].scope = s}

ASSUME PlaylistsAssumption ==
    /\ Room \notin Users /\ Admins \subseteq Users /\ None \notin Scopes \cup Names \cup Links
    /\ {MaxItems, MaxPlaylists, PageSize} \subseteq Nat \ {0}
    /\ {MaxMade, MaxEdits, MaxSnapshots} \subseteq Nat
    /\ IsFiniteSet(Names) /\ Cardinality(Names) > MaxPlaylists
    /\ Len(Library) <= MaxMade /\ Playing \in DOMAIN Library /\ MaxSnapshots > 0
    /\ Library \in Seq([scope : Scopes, name : Names, links : Seq(Links)])
    /\ \A p \in DOMAIN Library : Len(Library[p].links) <= MaxItems
    /\ \A s \in Scopes : Cardinality(LibraryOf(s)) <= MaxPlaylists
    /\ \A s \in Scopes : \A p, q \in LibraryOf(s) : p # q => Library[p].name # Library[q].name

VARIABLES
    lists,          \* the playlists of each scope, in order
    name,           \* music_playlists.name
    items,          \* the links of each playlist, in order
    revision,       \* music_playlists.revision
    made,           \* playlists made so far: ids are never used again
    edits,          \* edits made so far
    active,         \* the room's active source: snapshot, playlist and owner
    rows,           \* the queue rows of each snapshot
    taken,          \* snapshots made so far
    activation,     \* a request that activates a playlist
    clone,          \* a request that clones the active one
    shared,         \* the links of the playlist that a message of the room shows
    deleted         \* users whose accounts were deleted

saved == <<lists, name, items, revision, made, edits, shared, deleted>>
played == <<active, rows, taken>>
requests == <<active, rows, taken, activation, clone, deleted>>
playlistsVars == <<saved, played, activation, clone>>

Idle == [at |-> "idle"]

\* RoomState.ActivePlaylistOwnerID.
Owner(s) == IF s = Room THEN None ELSE s

\* What seq has at these places, in order.
Kept(seq, places) ==
    FlattenSeq([i \in DOMAIN seq |-> IF i \in places THEN <<seq[i]>> ELSE << >>])

PlaylistsInit ==
    /\ made = Len(Library)
    /\ lists = [s \in Scopes |-> Kept([p \in 1..made |-> p], LibraryOf(s))]
    /\ name = [p \in Ids |-> IF p <= made THEN Library[p].name ELSE None]
    /\ items = [p \in Ids |-> IF p <= made THEN Library[p].links ELSE << >>]
    /\ revision = [p \in Ids |-> IF p <= made THEN 1 ELSE 0]
    /\ active = [snapshot |-> 1, list |-> Playing, owner |-> Owner(Library[Playing].scope)]
    /\ rows = [n \in Snapshots |-> IF n = 1 THEN items[Playing] ELSE << >>] /\ taken = 1
    /\ activation = Idle /\ clone = Idle /\ edits = 0
    /\ shared = << >> /\ deleted = {}

-----------------------------------------------------------------------------
(* Sequences of links and of playlists.                                    *)

Upto(seq, n) == SubSeq(seq, 1, IF n < Len(seq) THEN n ELSE Len(seq))

\* The first row of each link.
Distinct(links) ==
    Kept(links, {i \in DOMAIN links : \A j \in 1..i - 1 : links[j] # links[i]})

Without(seq, gone) == Kept(seq, {i \in DOMAIN seq : seq[i] \notin gone})
Swapped(seq, i, j) == [seq EXCEPT ![i] = seq[j], ![j] = seq[i]]

\* Ordered selections of between m and n different members of S.
Selections(S, m, n) == UNION {{q \in [1..k -> S] : IsInjective(q)} : k \in m..n}

\* playlistSummary: p is a playlist of scope s.
Has(s, p) == p \in ToSet(lists[s])

NameTaken(s, n, except) == \E p \in ToSet(lists[s]) \ except : name[p] = n

\* availableUserPlaylistName: the base name or the first suffix that is free.
FreeName(s) == CHOOSE n \in Names : ~NameTaken(s, n, {})

-----------------------------------------------------------------------------
(* Making, deleting, naming and ordering playlists.                        *)

\* Whole rows of a new playlist, at the end of its scope.
Make(s, n, links) ==
    /\ made < MaxMade
    /\ made' = made + 1
    /\ name' = [name EXCEPT ![made + 1] = n]
    /\ items' = [items EXCEPT ![made + 1] = links]
    /\ revision' = [revision EXCEPT ![made + 1] = 1]
    /\ lists' = [lists EXCEPT ![s] = Append(@, made + 1)]

\* CreateUserPlaylist and CreateRoomPlaylist; the unique index refuses a
\* user's second playlist of a name, a query a room's.
Create(s, n) ==
    /\ Len(lists[s]) < MaxPlaylists
    /\ ~NameTaken(s, n, {})
    /\ Make(s, n, << >>)
    /\ UNCHANGED <<shared, requests>>

\* CreateRoomPlaylistFromUserPlaylist.
Import(u, p, n) ==
    /\ Has(u, p)
    /\ Len(items[p]) <= MaxItems
    /\ Len(lists[Room]) < MaxPlaylists
    /\ ~NameTaken(Room, n, {})
    /\ Make(Room, n, items[p])
    /\ UNCHANGED <<shared, requests>>

CloneRoomPlaylist(u, p) ==
    /\ Len(lists[u]) < MaxPlaylists
    /\ Has(Room, p)
    /\ Len(items[p]) <= MaxItems
    /\ Make(u, FreeName(u), items[p])
    /\ UNCHANGED <<shared, requests>>

\* playlistSnapshot, one read-only transaction.
Snapshot(p) == Upto(items[p], MaxItems)

\* sharedPlaylistAttachment: a message gets a copy; an empty playlist is no
\* different from a message without one.
Share(u, p) ==
    /\ Has(u, p)
    /\ shared' = Snapshot(p)
    /\ UNCHANGED <<lists, name, items, revision, made, requests>>

\* cloneSharedPlaylistToMe.
CloneShared(u) ==
    /\ shared # << >>
    /\ Len(lists[u]) < MaxPlaylists
    /\ Make(u, FreeName(u), shared)
    /\ UNCHANGED <<shared, requests>>

Delete(s, p) ==
    /\ Has(s, p)
    /\ lists' = [lists EXCEPT ![s] = Without(@, {p})]
    /\ items' = [items EXCEPT ![p] = << >>]
    /\ name' = [name EXCEPT ![p] = None]
    /\ UNCHANGED <<revision, made, shared, requests>>

\* Every request that edits a playlist's name or items gives it a new revision.
Revise(p) ==
    /\ revision' = [revision EXCEPT ![p] = @ + 1]

Rename(s, p, n) ==
    /\ Has(s, p)
    /\ ~NameTaken(s, n, {p})
    /\ name' = [name EXCEPT ![p] = n]
    /\ Revise(p)
    /\ UNCHANGED <<lists, items, made, shared, requests>>

\* The chosen playlists first, in the order of the request.
Pin(s, chosen) ==
    /\ ToSet(chosen) \subseteq ToSet(lists[s])
    /\ lists' = [lists EXCEPT ![s] = chosen \o Without(@, ToSet(chosen))]
    /\ UNCHANGED <<name, items, revision, made, shared, requests>>

Move(s, i, direction) ==
    /\ {i, i + direction} \subseteq DOMAIN lists[s]
    /\ lists' = [lists EXCEPT ![s] = Swapped(@, i, i + direction)]
    /\ UNCHANGED <<name, items, revision, made, shared, requests>>

-----------------------------------------------------------------------------
(* The items of a playlist.                                                *)

Edit(p, links) ==
    /\ items' = [items EXCEPT ![p] = links]
    /\ Revise(p)
    /\ UNCHANGED <<lists, name, made, shared, requests>>

AddItem(s, p, l) ==
    /\ Has(s, p)
    /\ l \notin ToSet(items[p])
    /\ Len(items[p]) < MaxItems
    /\ Edit(p, Append(items[p], l))

\* Mutant: a deletion that leaves the revision as it was.
DeleteQuietly(s, p, places) ==
    /\ Has(s, p)
    /\ items' = [items EXCEPT ![p] = Kept(@, (DOMAIN @) \ places)]
    /\ UNCHANGED <<lists, name, revision, made, shared, requests>>

\* places: those of the named items that are there; none of them, no edit.
DeleteItems(s, p, places) ==
    /\ Has(s, p)
    /\ Edit(p, Kept(items[p], (DOMAIN items[p]) \ places))

\* The order must name every item of the playlist once.
ReorderItems(s, p, order) ==
    /\ Has(s, p)
    /\ order \in Selections(DOMAIN items[p], Len(items[p]), Len(items[p]))
    /\ Edit(p, [i \in DOMAIN items[p] |-> items[p][order[i]]])

MoveItem(s, p, i, direction) ==
    /\ Has(s, p)
    /\ {i, i + direction} \subseteq DOMAIN items[p]
    /\ Edit(p, Swapped(items[p], i, i + direction))

\* Mutant: the room left in the target is not counted.
BatchAddAll(s, from, to, chosen) ==
    /\ from # to /\ Has(s, from) /\ Has(s, to)
    /\ LET added == Without(Distinct([k \in DOMAIN chosen |-> items[from][chosen[k]]]),
                            ToSet(items[to]))
       IN  /\ added # << >>
           /\ Edit(to, items[to] \o Upto(added, MaxItems))

\* Copies chosen items of one playlist to another: each link once, those that
\* the target lacks, as many as fit.
BatchAdd(s, from, to, chosen) ==
    /\ from # to /\ Has(s, from) /\ Has(s, to)
    /\ LET fresh == Without(Distinct([k \in DOMAIN chosen |-> items[from][chosen[k]]]),
                            ToSet(items[to]))
           added == Upto(fresh, MaxItems - Len(items[to]))
       IN  /\ added # << >>
           /\ Edit(to, items[to] \o added)

-----------------------------------------------------------------------------
(* Merging.                                                                *)

All(sources) == FlattenSeq([i \in DOMAIN sources |-> items[sources[i]]])

Merged(sources) == Upto(Distinct(All(sources)), MaxItems)

\* Mutant: the row that did not fit is consumed with those before it.
ConsumedPastTheEnd(sources) ==
    LET misfits == {k \in DOMAIN All(sources) : All(sources)[k] \notin ToSet(Merged(sources))}
    IN  IF misfits = {} THEN Len(All(sources))
        ELSE CHOOSE k \in misfits : \A j \in misfits : k <= j

\* The sources are consumed in order, up to the first link that does not fit.
Consumed(sources) ==
    LET misfits == {k \in DOMAIN All(sources) : All(sources)[k] \notin ToSet(Merged(sources))}
    IN  IF misfits = {} THEN Len(All(sources))
        ELSE (CHOOSE k \in misfits : \A j \in misfits : k <= j) - 1

\* Where the rows of the i-th source begin and end among those of all.
Offset(sources, i) == Len(All(SubSeq(sources, 1, i - 1)))
End(sources, i) == Offset(sources, i) + Len(items[sources[i]])

\* Sources that were consumed whole; the loop stops at the first that was not.
Emptied(sources) ==
    {sources[i] : i \in {j \in DOMAIN sources : End(sources, j) <= Consumed(sources)}}
Cut(sources) ==
    {i \in DOMAIN sources : Offset(sources, i) < Consumed(sources) /\ Consumed(sources) < End(sources, i)}

Merge(s, sources, n) ==
    LET gone == Emptied(sources) IN
    /\ ToSet(sources) \subseteq ToSet(lists[s])
    /\ ~NameTaken(s, n, gone)
    /\ Len(lists[s]) - Cardinality(gone) < MaxPlaylists
    /\ made < MaxMade
    /\ made' = made + 1
    /\ lists' = [lists EXCEPT ![s] = Append(Without(@, gone), made + 1)]
    /\ name' = [p \in Ids |-> IF p = made + 1 THEN n
                              ELSE IF p \in gone THEN None ELSE name[p]]
    /\ items' = [p \in Ids |->
                   IF p = made + 1 THEN Merged(sources)
                   ELSE IF p \in gone THEN << >>
                   ELSE IF \E i \in Cut(sources) : sources[i] = p
                   THEN LET i == CHOOSE i \in Cut(sources) : sources[i] = p
                        IN  SubSeq(items[p], Consumed(sources) - Offset(sources, i) + 1,
                                   Len(items[p]))
                   ELSE items[p]]
    /\ revision' = [p \in Ids |->
                      IF p = made + 1 THEN 1
                      ELSE IF \E i \in Cut(sources) : sources[i] = p
                      THEN revision[p] + 1 ELSE revision[p]]
    /\ UNCHANGED <<shared, requests>>

-----------------------------------------------------------------------------
(* Activating a playlist: its pages are read one by one, each with a       *)
(* summary, a count and the rows.                                          *)

BeginActivation(u, s, p) ==
    /\ activation.at = "idle" /\ taken < MaxSnapshots
    /\ s \in {u, Room} /\ Has(s, p)
    /\ activation' = [at |-> "count", scope |-> s, list |-> p, page |-> 1, total |-> 0,
                      got |-> << >>, revision |-> revision[p], accounts |-> deleted]
    /\ UNCHANGED <<saved, played, clone>>

\* The summary of a later page: the request fails when the playlist is gone.
ReadSummary ==
    /\ activation.at = "summary"
    /\ activation' = IF Has(activation.scope, activation.list)
                     THEN [activation EXCEPT !.at = "count"] ELSE Idle
    /\ UNCHANGED <<saved, played, clone>>

CountItems ==
    /\ activation.at = "count"
    /\ activation' = [activation EXCEPT !.at = "rows", !.total = Len(items[activation.list])]
    /\ UNCHANGED <<saved, played, clone>>

PageRows(p, page) ==
    SubSeq(Upto(items[p], page * PageSize), (page - 1) * PageSize + 1,
           Len(Upto(items[p], page * PageSize)))

ReadPage ==
    /\ activation.at = "rows"
    /\ activation' =
         [activation EXCEPT
            !.got = @ \o PageRows(activation.list, activation.page),
            !.page = @ + 1,
            !.at = IF activation.page * PageSize < activation.total
                   THEN "summary" ELSE "activate"]
    /\ UNCHANGED <<saved, played, clone>>

\* ActivatePlaylist: rows of a new snapshot, which nobody reads before the
\* state of the room names them.
Activate ==
    /\ activation.at = "activate"
    /\ taken' = taken + 1
    /\ rows' = [rows EXCEPT ![taken + 1] = activation.got]
    /\ active' = [snapshot |-> taken + 1, list |-> activation.list,
                  owner |-> Owner(activation.scope)]
    /\ activation' = [activation EXCEPT !.at = "clean"]
    /\ UNCHANGED <<saved, clone>>

\* deleteSavedSnapshotsExcept.
CleanSnapshots ==
    /\ activation.at = "clean"
    /\ rows' = [n \in Snapshots |-> IF n = active.snapshot THEN rows[n] ELSE << >>]
    /\ activation' = Idle
    /\ UNCHANGED <<saved, active, taken, clone>>

\* ActivatePlaylist for the queue of requests, which is of no playlist.  It waits
\* for the room's lock, which an activation has until its rows are cleaned up.
PlayQueue ==
    /\ activation.at # "clean"
    /\ active' = [snapshot |-> 0, list |-> 0, owner |-> None]
    /\ rows' = [n \in Snapshots |-> << >>]
    /\ UNCHANGED <<lists, name, items, revision, made, shared, taken, activation, clone, deleted>>

-----------------------------------------------------------------------------
(* Cloning the playlist that another user plays in the room.               *)

\* State reads the room's state; the request must name what it says.
LoadActive(u) ==
    /\ clone.at = "idle"
    /\ active.owner \in Users \ {u}
    /\ clone' = [at |-> "rows", user |-> u, snapshot |-> active.snapshot]
    /\ UNCHANGED <<saved, played, activation>>

\* Then it lists the rows of that snapshot.
LoadRows ==
    /\ clone.at = "rows"
    /\ clone' = [at |-> "copy", user |-> clone.user, links |-> rows[clone.snapshot]]
    /\ UNCHANGED <<saved, played, activation>>

\* CloneSnapshotToUserPlaylist, or its refusal: a playlist needs an account.
CloneSnapshot ==
    /\ clone.at = "copy"
    /\ clone' = Idle
    /\ IF /\ clone.user \notin deleted
          /\ Len(clone.links) <= MaxItems /\ Len(lists[clone.user]) < MaxPlaylists
       THEN Make(clone.user, FreeName(clone.user), clone.links)
       ELSE UNCHANGED <<lists, name, items, revision, made>>
    /\ UNCHANGED <<played, edits, shared, activation, deleted>>

-----------------------------------------------------------------------------
(* Deleting an account.                                                    *)

\* The rows of the room's playlists that a deletion may leave, by their places:
\* who added a row is not kept, so that any of them may have been the user's.
Leftovers == [ToSet(lists[Room]) -> SUBSET (1..MaxItems)]

\* deleteUserAccount, and deleteAccount of the console: the playlists of the user
\* go, and the rows that the user added to the room's, whose revisions stay.  A
\* playlist of another user has rows of its owner only.
DeleteAccount(u, left) ==
    /\ deleted' = deleted \cup {u}
    /\ lists' = [lists EXCEPT ![u] = << >>]
    /\ name' = [p \in Ids |-> IF Has(u, p) THEN None ELSE name[p]]
    /\ items' = [p \in Ids |-> IF Has(u, p) THEN << >>
                               ELSE IF Has(Room, p) THEN Kept(items[p], left[p]) ELSE items[p]]
    /\ UNCHANGED <<revision, made, shared, active, rows, taken, activation, clone>>

-----------------------------------------------------------------------------
(* Requests.  A user edits their own playlists; the administrators of a    *)
(* room, which only they may edit, send the same requests for the room's.  *)

\* Create and merge.
MakeRequest(s) ==
    \E n \in Names :
       \/ Create(s, n)
       \/ \E sources \in Selections(ToSet(lists[s]), 2, MaxPlaylists) : Merge(s, sources, n)

\* Delete, rename and reorder: either one place, or some playlists first.
ChangeRequest(s) ==
    \/ \E p \in Ids : Delete(s, p)
    \/ \E p \in Ids, n \in Names : Rename(s, p, n)
    \/ \E i \in DOMAIN lists[s], d \in {-1, 1} : Move(s, i, d)
    \/ \E chosen \in Selections(ToSet(lists[s]), 1, MaxPlaylists) : Pin(s, chosen)

\* One track, or tracks of another playlist of the scope.
AddRequest(s) ==
    \E p \in Ids :
       \/ \E l \in Links : AddItem(s, p, l)
       \/ \E to \in Ids, chosen \in Selections(DOMAIN items[p], 1, MaxItems) :
             BatchAdd(s, p, to, chosen)

\* Delete items, move one by a place or give all of them an order.
ItemsRequest(s) ==
    \E p \in Ids :
       \/ \E places \in (SUBSET DOMAIN items[p]) \ {{}} : DeleteItems(s, p, places)
       \/ \E i \in DOMAIN items[p], d \in {-1, 1} : MoveItem(s, p, i, d)
       \/ \E order \in Selections(DOMAIN items[p], Len(items[p]), Len(items[p])) :
             ReorderItems(s, p, order)

\* requireRoomPlaylistAdmin.  Only an administrator copies a playlist of
\* their own into the room.
RoomMakeRequest(u) ==
    /\ u \in Admins
    /\ MakeRequest(Room) \/ \E p \in Ids, n \in Names : Import(u, p, n)

RoomChangeRequest(u) == u \in Admins /\ ChangeRequest(Room)
RoomAddRequest(u) == u \in Admins /\ AddRequest(Room)
RoomItemsRequest(u) == u \in Admins /\ ItemsRequest(Room)

\* Whoever has access to the room may copy its playlists.
RoomCloneRequest(u) == \E p \in Ids : CloneRoomPlaylist(u, p)

EditRequest(u) ==
    \/ MakeRequest(u) \/ ChangeRequest(u) \/ AddRequest(u) \/ ItemsRequest(u)
    \/ RoomMakeRequest(u) \/ RoomChangeRequest(u) \/ RoomAddRequest(u)
    \/ RoomItemsRequest(u) \/ RoomCloneRequest(u)
    \/ \E p \in Ids : Share(u, p)
    \/ CloneShared(u)

\* Who has an account.
Accounts == Users \ deleted

PlaylistsNext ==
    \/ /\ edits < MaxEdits /\ edits' = edits + 1
       /\ \/ \E u \in Accounts : EditRequest(u)
          \/ \E u \in Accounts, left \in Leftovers : DeleteAccount(u, left)
          \/ PlayQueue
    \/ \E u \in Accounts, s \in Scopes, p \in Ids : BeginActivation(u, s, p)
    \/ ReadSummary \/ CountItems \/ ReadPage \/ Activate \/ CleanSnapshots
    \/ \E u \in Accounts : LoadActive(u)
    \/ LoadRows \/ CloneSnapshot

PlaylistsSpec == PlaylistsInit /\ [][PlaylistsNext]_playlistsVars

-----------------------------------------------------------------------------
LinksOf(s) == UNION {ToSet(items[p]) : p \in ToSet(lists[s])}

\* Every playlist is in one scope, has a name that no other of the scope has,
\* and neither it nor its scope is longer than the code's limits; a user without
\* an account has none.
PlaylistsTypeOK ==
    /\ made \in 0..MaxMade /\ taken \in 0..MaxSnapshots
    /\ lists \in [Scopes -> Seq(1..made)]
    /\ \A s \in Scopes : IsInjective(lists[s]) /\ Len(lists[s]) <= MaxPlaylists
    /\ \A s, t \in Scopes : s # t => ToSet(lists[s]) \cap ToSet(lists[t]) = {}
    /\ name \in [Ids -> Names \cup {None}]
    /\ \A s \in Scopes : \A p \in ToSet(lists[s]) :
          name[p] # None /\ ~NameTaken(s, name[p], {p})
    /\ items \in [Ids -> Seq(Links)] /\ \A p \in Ids : Len(items[p]) <= MaxItems
    /\ revision \in [Ids -> 0..MaxEdits + 1] /\ edits \in 0..MaxEdits
    /\ rows \in [Snapshots -> Seq(Links)]
    /\ shared \in Seq(Links) /\ Len(shared) <= MaxItems
    /\ deleted \subseteq Users /\ \A u \in deleted : lists[u] = << >>
    /\ active.snapshot \in 0..taken /\ active.owner \in Users \cup {None}
    /\ activation.at \in {"idle", "summary", "count", "rows", "activate", "clean"}
    /\ clone.at \in {"idle", "rows", "copy"}

\* Making a playlist, by a merge above all, takes no track out of a scope: what
\* the merged playlist has no room for stays in the playlists it came from.
MakingLosesNothing ==
    [][made' > made => \A s \in Scopes : LinksOf(s) \subseteq LinksOf(s)']_playlistsVars

\* The pages of a playlist are not read in one transaction.  Its revision tells
\* whether that mattered: when it is still the one of the first page, the room
\* plays the playlist as it is, every track once and in order.  For a playlist of
\* the room that holds only if no account was deleted meanwhile: the rows that go
\* with one (src/internal/db/schema.sql:480) go without a new revision.
UnrevisedIsPlayedWhole ==
    activation.at = "activate"
       /\ Has(activation.scope, activation.list)
       /\ revision[activation.list] = activation.revision
       /\ (activation.scope = Room => deleted = activation.accounts)
    => activation.got = items[activation.list]
=============================================================================
