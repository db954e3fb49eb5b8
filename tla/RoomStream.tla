------------------------------ MODULE RoomStream ------------------------------
(***************************************************************************)
(* The stream of a client and the room snapshots that are pushed into it:  *)
(* liveStream of src/internal/chat/stream.go and the publishing of         *)
(* src/internal/chat/room_stream.go, on the event bus of EventBus.         *)
(*                                                                         *)
(* A handler commits a change of a room and then does a list of jobs: it   *)
(* builds a snapshot, reads whom it goes to and publishes it to each user. *)
(* Every change gives the room a new version, which is all that is kept of *)
(* a snapshot's content.  A stream's own goroutine publishes as well, when *)
(* it opens and after it closed, since both change who is online.          *)
(*                                                                         *)
(* Not every change is announced: no snapshot follows what the admin       *)
(* console does (src/internal/admin/accounts.go), the deletion of an       *)
(* account or the sweep of the voice rooms, and a publisher drops a job    *)
(* when a query of it fails.                                               *)
(***************************************************************************)
EXTENDS EventBus, FiniteSetsExt, SequencesExt

CONSTANTS
    Handlers,       \* requests that change a room
    Ghosts,         \* superusers, who see and talk in every room and join none
    Members,        \* room_memberships at the start
    Watchers,       \* bound: the users who open a stream
    Faults,         \* which queries of a publisher may fail
    MaxVersion      \* bound: changes of a room, those of the settings for it included

ASSUME RoomStreamAssumption ==
    /\ Publishers = Handlers \cup Conns
    /\ None \notin Users \cup Conns \cup Handlers /\ Handlers \cap Conns = {}
    /\ IsFiniteSet(Rooms) /\ Faults \subseteq {"build", "audience", "settings"}
    /\ BufferSize \in Nat \ {0} /\ MaxVersion \in Nat \ {0}
    /\ Ghosts \cup Watchers \subseteq Users /\ Members \in [Rooms -> SUBSET Users]

VARIABLES
    accounts,       \* users
    members,        \* room_memberships
    talking,        \* live_participants: <<user, room>>
    version,        \* of each room
    mine,           \* of each user's own settings for a room
    changes,        \* of a room so far: what MaxVersion bounds
    conn,           \* the goroutine of each stream
    jobs,           \* what a publisher has still to do
    draft,          \* the snapshot it builds and the users it goes to
    latest,         \* history: the newest versions of a room put in a stream
    listening,      \* history: talkers whose interest was added
    missed,         \* history: streams that were opening at that time
    hushed          \* history: streams that were not told of a change of a room, since
                    \* it was announced to nobody or in vain

data == <<accounts, members, talking, version, mine, changes>>
vars == <<bus, data, conn, jobs, draft, latest, listening, missed, hushed>>

NoDraft == [at |-> "build", version |-> 0, to |-> {}]

RoomsOf(u) == {r \in Rooms : u \in members[r] \/ <<u, r>> \in talking}

Init ==
    /\ BusInit
    /\ accounts = Users /\ members = Members /\ talking = {} /\ version = [r \in Rooms |-> 1]
    /\ mine = [u \in Users |-> [r \in Rooms |-> 0]] /\ changes = [r \in Rooms |-> 1]
    /\ conn = [c \in Conns |-> [at |-> "off", user |-> None, rooms |-> {}, fetched |-> FALSE]]
    /\ jobs = [p \in Publishers |-> << >>]
    /\ draft = [p \in Publishers |-> NoDraft]
    /\ latest = [c \in Conns |-> [r \in Rooms |-> [version |-> 0, mine |-> 0]]]
    /\ listening = {} /\ missed = {} /\ hushed = {}

-----------------------------------------------------------------------------
(* The jobs of a publisher.                                                *)

Updated(r, except) == [kind |-> "updated", room |-> r, user |-> except]
Added(r, u) == [kind |-> "added", room |-> r, user |-> u]
Deleted(r, u) == [kind |-> "deleted", room |-> r, user |-> u]
Live(r) == [kind |-> "live", room |-> r, user |-> None]
Interest(r, u) == [kind |-> "interest", room |-> r, user |-> u]

\* publishRoomsUpdated.
UpdateAll(rooms) == SetToSeq({Updated(r, None) : r \in rooms})

Busy(p) == jobs[p] # << >>
Job(p) == Head(jobs[p])
Event(p) == [kind |-> Job(p).kind, room |-> Job(p).room, version |-> draft[p].version, mine |-> 0]

\* applyRoomSnapshotPersonalFields: what a member has set is read for each event.
EventFor(p, u) ==
    [Event(p) EXCEPT !.mine = IF Job(p).kind # "deleted" /\ u \in members[Job(p).room]
                              THEN mine[u][Job(p).room] ELSE 0]

stream == <<conn, listening, missed>>

\* A publisher goes on with its job or, once all of it was delivered, with the next.
Proceed(p, d) ==
    IF d.to = {} /\ sending'[p].to = {}
    THEN jobs' = [jobs EXCEPT ![p] = Tail(@)] /\ draft' = [draft EXCEPT ![p] = NoDraft]
    ELSE draft' = [draft EXCEPT ![p] = d] /\ UNCHANGED jobs

\* A job that gives u the snapshot of r.
Announces(job, u, r) ==
    /\ job.room = r
    /\ \/ job.kind = "updated" /\ job.user # u
       \/ job.kind = "added" /\ job.user = u

\* The streams that p's job is for.
Addressed(p) == {t \in Conns \X Rooms : Announces(Job(p), conn[t[1]].user, t[2])}

\* The publication ends without a word when a query of it fails.
Drop(p) ==
    /\ jobs' = [jobs EXCEPT ![p] = Tail(@)]
    /\ draft' = [draft EXCEPT ![p] = NoDraft]
    /\ hushed' = hushed \cup Addressed(p)
    /\ UNCHANGED <<bus, data, stream, latest>>

\* buildRoomSnapshot, or the live state, which has no version; room_deleted has no
\* snapshot.
Build(p) ==
    /\ Busy(p) /\ draft[p].at = "build" /\ Job(p).kind # "interest"
    /\ draft' = [draft EXCEPT ![p] =
                   [at |-> IF Job(p).kind = "updated" THEN "audience" ELSE "send",
                    version |-> IF Job(p).kind \in {"deleted", "live"} THEN 0 ELSE version[Job(p).room],
                    to |-> IF Job(p).kind \in {"added", "deleted"} THEN {Job(p).user} ELSE {}]]
    /\ hushed' = hushed \ Addressed(p)
    /\ UNCHANGED <<bus, data, jobs, stream, latest>>

BuildFails(p) ==
    /\ "build" \in Faults
    /\ Busy(p) /\ draft[p].at = "build" /\ Job(p).kind \notin {"interest", "deleted"}
    /\ Drop(p)

\* roomMemberIDs, less the excluded user.
Audience(p) ==
    /\ Busy(p) /\ draft[p].at = "audience"
    /\ UNCHANGED <<bus, data, stream, latest, hushed>>
    /\ Proceed(p, [draft[p] EXCEPT !.at = "send", !.to = members[Job(p).room] \ {Job(p).user}])

AudienceFails(p) ==
    /\ "audience" \in Faults
    /\ Busy(p) /\ draft[p].at = "audience"
    /\ Drop(p)

\* Mutant: only to the streams that are interested in the room.
SendToRoom(p, u) ==
    /\ Busy(p) /\ draft[p].at = "send" /\ u \in draft[p].to
    /\ Publish(p, byUser[u] \cap byRoom[Job(p).room], EventFor(p, u))
    /\ Proceed(p, [draft[p] EXCEPT !.to = @ \ {u}])
    /\ UNCHANGED <<data, stream, latest, hushed>>

\* PublishUser: to every stream of the user, whatever its interest.
SendToUser(p, u) ==
    /\ Busy(p) /\ draft[p].at = "send" /\ u \in draft[p].to
    /\ Publish(p, byUser[u], EventFor(p, u))
    /\ Proceed(p, [draft[p] EXCEPT !.to = @ \ {u}])
    /\ UNCHANGED <<data, stream, latest, hushed>>

\* applyRoomSnapshotPersonalFields fails: the snapshot goes without the settings.
SendBare(p, u) ==
    /\ "settings" \in Faults
    /\ Busy(p) /\ draft[p].at = "send" /\ u \in draft[p].to
    /\ Job(p).kind # "deleted" /\ u \in members[Job(p).room]
    /\ Publish(p, byUser[u], Event(p))
    /\ Proceed(p, [draft[p] EXCEPT !.to = @ \ {u}])
    /\ hushed' = hushed \cup {t \in Addressed(p) : conn[t[1]].user = u}
    /\ UNCHANGED <<data, stream, latest>>

\* PublishLiveSnapshot: PublishRoom, to the streams with an interest.
SendLive(p) ==
    /\ Busy(p) /\ draft[p].at = "send" /\ Job(p).kind = "live"
    /\ Publish(p, byRoom[Job(p).room], Event(p))
    /\ Proceed(p, [draft[p] EXCEPT !.at = "sent"])
    /\ UNCHANGED <<data, stream, latest, hushed>>

Hand(p, c) ==
    /\ Deliver(p, c)
    /\ LET e == sending[p].event
       IN  latest' = IF closed[c] \/ e.kind \notin {"added", "updated"} THEN latest
                     ELSE [latest EXCEPT ![c][e.room] =
                             [version |-> Max({@.version, e.version}), mine |-> Max({@.mine, e.mine})]]
    /\ Proceed(p, draft[p])
    /\ UNCHANGED <<data, stream, hushed>>

\* A talker's streams get the room's live events from now on.
AddInterest(p) ==
    /\ Busy(p) /\ Job(p).kind = "interest"
    /\ LET u == Job(p).user
           r == Job(p).room
       IN  /\ AddUserRoomInterest(u, r)
           /\ listening' = IF <<u, r>> \in talking THEN listening \cup {<<u, r>>} ELSE listening
           /\ missed' = missed \cup {<<c, r>> : c \in {d \in Conns :
                           /\ conn[d].at \in {"loaded", "subscribed"}
                           /\ conn[d].user = u /\ r \notin conn[d].rooms}}
    /\ jobs' = [jobs EXCEPT ![p] = Tail(@)]
    /\ UNCHANGED <<data, conn, draft, latest, hushed>>

-----------------------------------------------------------------------------
(* Requests that change a room.                                            *)

CountChange(r) ==
    /\ changes[r] < MaxVersion
    /\ changes' = [changes EXCEPT ![r] = @ + 1]

\* Commit a change of r, with what is to be published after it.
Commit(h, r, todo) ==
    /\ ~Busy(h) /\ CountChange(r)
    /\ version' = [version EXCEPT ![r] = @ + 1]
    /\ jobs' = [jobs EXCEPT ![h] = todo]
    /\ UNCHANGED <<bus, accounts, mine, conn, draft, latest, missed, hushed>>

UpdateRoom(h, r) ==
    /\ Commit(h, r, <<Updated(r, None)>>)
    /\ UNCHANGED <<members, talking, listening>>

JoinRoom(h, u, r) ==
    /\ u \in accounts \ (members[r] \cup Ghosts)
    /\ members' = [members EXCEPT ![r] = @ \cup {u}]
    /\ Commit(h, r, <<Added(r, u), Updated(r, u)>>)
    /\ UNCHANGED <<talking, listening>>

\* updateMyRoomSettings: of interest only to the user, whose streams get the room
\* with the event room_updated; a superuser has settings as well.
UpdateMine(h, u, r) ==
    /\ u \in members[r] \cup Ghosts
    /\ ~Busy(h) /\ CountChange(r)
    /\ mine' = [mine EXCEPT ![u][r] = @ + 1]
    /\ jobs' = [jobs EXCEPT ![h] = <<Added(r, u)>>]
    /\ UNCHANGED <<bus, accounts, members, talking, version, draft, stream, latest, hushed>>

\* A superuser who joins only looks in.
LookIn(h, u, r) ==
    /\ u \in Ghosts /\ ~Busy(h)
    /\ jobs' = [jobs EXCEPT ![h] = <<Interest(r, u)>>]
    /\ UNCHANGED <<bus, data, draft, stream, latest, hushed>>

\* The last member takes the room along, which is not modelled here.
LeaveRoom(h, u, r) ==
    /\ u \in members[r] \ Ghosts /\ members[r] # {u}
    /\ members' = [members EXCEPT ![r] = @ \ {u}]
    /\ talking' = talking \ {<<u, r>>}
    /\ listening' = listening \ {<<u, r>>}
    /\ Commit(h, r, <<Deleted(r, u), Updated(r, None)>> \o
                    IF <<u, r>> \in talking THEN <<Live(r)>> ELSE << >>)

JoinLive(h, u, r) ==
    /\ u \in members[r] \cup Ghosts /\ <<u, r>> \notin talking
    /\ talking' = talking \cup {<<u, r>>}
    /\ Commit(h, r, <<Interest(r, u), Live(r), Updated(r, None)>>)
    /\ UNCHANGED <<members, listening>>

LeaveLive(h, u, r) ==
    /\ <<u, r>> \in talking
    /\ talking' = talking \ {<<u, r>>}
    /\ listening' = listening \ {<<u, r>>}
    /\ Commit(h, r, <<Updated(r, None), Live(r)>>)
    /\ UNCHANGED members

-----------------------------------------------------------------------------
(* Changes that no snapshot follows.                                       *)

\* Commit a change of some rooms that no member is told of.
CommitQuietly(rooms) ==
    /\ \A r \in rooms : changes[r] < MaxVersion
    /\ changes' = [r \in Rooms |-> IF r \in rooms THEN changes[r] + 1 ELSE changes[r]]
    /\ version' = [r \in Rooms |-> IF r \in rooms THEN version[r] + 1 ELSE version[r]]
    /\ hushed' = hushed \cup (Conns \X rooms)
    /\ UNCHANGED <<bus, mine, conn, draft, latest, missed>>

\* The sweep of the voice rooms (cleanupExpiredLiveTransitions) deletes a row that
\* expired, and only the streams with an interest hear of it.  It publishes a room
\* once for all rows that went, here for each.
SweepLive(h, u, r) ==
    /\ <<u, r>> \in talking /\ ~Busy(h)
    /\ talking' = talking \ {<<u, r>>}
    /\ listening' = listening \ {<<u, r>>}
    /\ CommitQuietly({r})
    /\ jobs' = [jobs EXCEPT ![h] = <<Live(r)>>]
    /\ UNCHANGED <<accounts, members>>

\* addMembership of the console.
ConsoleAdd(u, r) ==
    /\ u \in accounts \ (members[r] \cup Ghosts)
    /\ members' = [members EXCEPT ![r] = @ \cup {u}]
    /\ CommitQuietly({r})
    /\ UNCHANGED <<accounts, talking, listening, jobs>>

\* removeMembership of the console; it spares the owner, which is not kept here.
ConsoleRemove(u, r) ==
    /\ u \in members[r]
    /\ members' = [members EXCEPT ![r] = @ \ {u}]
    /\ talking' = talking \ {<<u, r>>}
    /\ listening' = listening \ {<<u, r>>}
    /\ CommitQuietly({r})
    /\ UNCHANGED <<accounts, jobs>>

\* updateMembership of the console: a new owner changes the room's updated_at.
ConsoleOwner(r) ==
    /\ members[r] # {}
    /\ CommitQuietly({r})
    /\ UNCHANGED <<accounts, members, talking, listening, jobs>>

\* deleteUserAccount, and deleteAccount of the console: the rows of the user go
\* from every room.  A superuser's account is not deleted.
DeleteAccount(u) ==
    /\ u \in accounts \ Ghosts
    /\ accounts' = accounts \ {u}
    /\ members' = [r \in Rooms |-> members[r] \ {u}]
    /\ talking' = talking \ ({u} \X Rooms)
    /\ listening' = listening \ ({u} \X Rooms)
    /\ CommitQuietly(RoomsOf(u))
    /\ UNCHANGED jobs

-----------------------------------------------------------------------------
(* The stream of a connection, and the client that lists its rooms.        *)

Goto(c, at) == conn' = [conn EXCEPT ![c].at = at]

\* userRoomIDs, before the response is committed.
OpenStream(c, u) ==
    /\ conn[c].at = "off" /\ u \in accounts
    /\ conn' = [conn EXCEPT ![c] = [@ EXCEPT !.at = "loaded", !.user = u, !.rooms = RoomsOf(u)]]
    /\ UNCHANGED <<bus, data, jobs, draft, latest, listening, missed, hushed>>

SubscribeStream(c) ==
    /\ conn[c].at = "loaded"
    /\ Subscribe(c, conn[c].user)
    /\ Goto(c, "subscribed")
    /\ UNCHANGED <<data, jobs, draft, latest, listening, missed, hushed>>

\* The interest as it was loaded; then the ready event, unless the peer is gone.
SetInterest(c) ==
    /\ conn[c].at = "subscribed"
    /\ SetRooms(c, conn[c].rooms)
    /\ Goto(c, "open")
    /\ \E todo \in {UpdateAll(conn[c].rooms), << >>} : jobs' = [jobs EXCEPT ![c] = todo]
    /\ UNCHANGED <<data, draft, latest, listening, missed, hushed>>

\* The client lists its rooms (GET /rooms) after the ready event.
FetchRooms(c) ==
    /\ conn[c].at = "open" /\ ~conn[c].fetched
    /\ conn' = [conn EXCEPT ![c].fetched = TRUE]
    /\ latest' = [latest EXCEPT ![c] =
                    [r \in Rooms |-> IF conn[c].user \in members[r] \cup Ghosts
                                     THEN [version |-> version[r], mine |-> mine[conn[c].user][r]]
                                     ELSE @[r]]]
    /\ hushed' = hushed \ ({c} \X Rooms)
    /\ UNCHANGED <<bus, data, jobs, draft, listening, missed>>

ReadEvent(c) ==
    /\ conn[c].at = "open" /\ ~Busy(c)
    /\ Receive(c)
    /\ UNCHANGED <<data, conn, jobs, draft, latest, listening, missed, hushed>>

\* The peer is gone: the deferred Close, and the news that the user may be
\* offline.
HangUp(c) ==
    /\ conn[c].at = "open" /\ ~Busy(c)
    /\ CloseChannel(c)
    /\ Goto(c, "closing")
    /\ UNCHANGED <<data, jobs, draft, latest, listening, missed, hushed>>

LeaveBus(c) ==
    /\ conn[c].at = "closing"
    /\ Unregister(c)
    /\ Goto(c, "gone")
    /\ jobs' = [jobs EXCEPT ![c] = UpdateAll(conn[c].rooms)]
    /\ UNCHANGED <<data, draft, latest, listening, missed, hushed>>

-----------------------------------------------------------------------------
Next ==
    \/ \E p \in Publishers :
          \/ Build(p) \/ Audience(p) \/ BuildFails(p) \/ AudienceFails(p)
          \/ SendLive(p) \/ AddInterest(p)
          \/ \E u \in Users : SendToUser(p, u) \/ SendBare(p, u)
          \/ \E c \in Conns : Hand(p, c)
    \/ \E h \in Handlers, r \in Rooms :
          \/ UpdateRoom(h, r)
          \/ \E u \in Users : JoinRoom(h, u, r) \/ LookIn(h, u, r) \/ LeaveRoom(h, u, r) \/ UpdateMine(h, u, r)
                              \/ JoinLive(h, u, r) \/ LeaveLive(h, u, r) \/ SweepLive(h, u, r)
    \/ \E u \in Users : DeleteAccount(u)
    \/ \E r \in Rooms :
          \/ ConsoleOwner(r)
          \/ \E u \in Users : ConsoleAdd(u, r) \/ ConsoleRemove(u, r)
    \/ \E c \in Conns :
          \/ \E u \in Watchers : OpenStream(c, u)
          \/ SubscribeStream(c) \/ SetInterest(c) \/ FetchRooms(c) \/ ReadEvent(c)
          \/ HangUp(c) \/ LeaveBus(c)

Spec == Init /\ [][Next]_vars

-----------------------------------------------------------------------------
\* The registry of the bus, and streams that are registered while they serve.
TypeOK ==
    /\ BusTypeOK
    /\ accounts \subseteq Users /\ members \in [Rooms -> SUBSET accounts]
    /\ talking \subseteq accounts \X Rooms
    /\ version \in [Rooms -> 1..MaxVersion] /\ mine \in [Users -> [Rooms -> 0..MaxVersion]]
    /\ changes \in [Rooms -> 1..MaxVersion]
    /\ \A c \in Conns : Registered(c) <=> conn[c].at \in {"subscribed", "open", "closing"}
    /\ \A p \in Publishers : draft[p].at \in {"build", "audience", "send", "sent"}

\* How far each stream is, as RoomFeed sees it.
FeedStream == [c \in Conns |-> IF owner[c] = None THEN "off"
                               ELSE IF ~closed[c] THEN "open"
                               ELSE IF Registered(c) THEN "closing" ELSE "gone"]

\* The bus keeps what RoomFeed promises: no event goes to a stream that does not
\* listen, to a closed one, out of order, or at the price of a newer event.
Feed == INSTANCE RoomFeed WITH
    Events <- [kind : {"updated", "added", "deleted", "live"}, room : Rooms, version : 0..MaxVersion,
               mine : 0..MaxVersion],
    stream <- FeedStream,
    listens <- interest, box <- events, pending <- sending

KeepsItsPromise == Feed!Spec

\* A client whose stream is open and that has listed its rooms, and one of them.
Follows(c, r) == conn[c].at = "open" /\ conn[c].fetched /\ conn[c].user \in members[r]

\* It was given the newest version of the room and its own settings.
UpToDate(c, r) == latest[c][r] = [version |-> version[r], mine |-> mine[conn[c].user][r]]

\* Once nobody has anything left to publish, every client that follows a room was
\* given its newest version, whatever happened while its stream opened, or while
\* it joined or left; unless, since the last snapshot that was built for it, the
\* room changed without an announcement or an announcement failed.
NewestIsDelivered ==
    (\A p \in Publishers : ~Busy(p)) =>
        \A c \in Conns, r \in Rooms :
            Follows(c, r) /\ <<c, r>> \notin hushed => UpToDate(c, r)

\* What docs/room-stream-sync.md:9 says of members who come and go, names and
\* messages: all such changes are pushed into the streams that are open.  The code
\* does not keep it even if no query fails, and no run checks it: some changes are
\* announced to nobody.
ChangesArePushed ==
    (\A p \in Publishers : ~Busy(p)) =>
        \A c \in Conns, r \in Rooms : Follows(c, r) => UpToDate(c, r)

\* A user who talks in a room hears its live events on every stream, unless the
\* stream had loaded its interest and not yet set it when the user joined.
TalkersListen ==
    \A c \in Conns, r \in Rooms :
        conn[c].at = "open" /\ <<conn[c].user, r>> \in listening /\ <<c, r>> \notin missed
        => c \in byRoom[r]

\* Nobody misses what a stream is for: the snapshots of the user's rooms, and
\* the live events of the room they talk in.
NobodyMissesOut == NewestIsDelivered /\ TalkersListen
=============================================================================
