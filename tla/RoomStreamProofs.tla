--------------------------- MODULE RoomStreamProofs ---------------------------
(***************************************************************************)
(* The safety properties of RoomStream hold for every number of users,     *)
(* rooms, streams and requests, and EventBus implements RoomFeed.          *)
(***************************************************************************)
EXTENDS RoomStream, FiniteSetTheorems, SequenceTheorems, TLAPS

AnEvent == [kind : {"updated", "added", "deleted", "live"}, room : Rooms,
            version : 0..MaxVersion, mine : 0..MaxVersion]

AJob == [kind : {"updated", "live"}, room : Rooms, user : Users \cup {None}]
        \cup [kind : {"added", "deleted", "interest"}, room : Rooms, user : Users]

Serving(c) == conn[c].at \in {"subscribed", "open", "closing"}

\* The tables.
DataOK ==
    /\ accounts \subseteq Users /\ Ghosts \subseteq accounts
    /\ members \in [Rooms -> SUBSET accounts] /\ talking \subseteq accounts \X Rooms
    /\ changes \in [Rooms -> 1..MaxVersion]
    /\ version \in [Rooms -> 1..MaxVersion]
    /\ mine \in [Users -> [Rooms -> 0..MaxVersion]]
    /\ \A r \in Rooms : version[r] <= changes[r] /\ \A u \in Users : mine[u][r] <= changes[r]

\* Streams, and the bus's indexes as their goroutines leave them.
ConnOK ==
    /\ conn \in [Conns -> [at : {"off", "loaded", "subscribed", "open", "closing", "gone"},
                           user : Users \cup {None}, rooms : SUBSET Rooms, fetched : BOOLEAN]]
    /\ \A c \in Conns :
          /\ conn[c].at # "off" => conn[c].user \in Users
          /\ conn[c].at \in {"off", "loaded"} => interest[c] = {}
          /\ conn[c].at \in {"off", "loaded", "subscribed"} => ~conn[c].fetched
          /\ conn[c].at \notin {"open", "gone"} => jobs[c] = << >>

RegistryOK ==
    /\ interest \in [Conns -> SUBSET Rooms]
    /\ owner = [c \in Conns |-> IF conn[c].at \in {"off", "loaded"} THEN None ELSE conn[c].user]
    /\ closed = [c \in Conns |-> conn[c].at \in {"closing", "gone"}]
    /\ byUser = [u \in Users |-> {c \in Conns : Serving(c) /\ conn[c].user = u}]
    /\ byRoom = [r \in Rooms |-> {c \in Conns : Serving(c) /\ r \in interest[c]}]

\* What publishers send, and where it arrives.
BoxOK == events \in [Conns -> Seq(AnEvent)] /\ \A c \in Conns : Len(events[c]) <= BufferSize

SendOK ==
    /\ sending \in [Publishers -> [to : SUBSET Conns, event : AnEvent \cup {None}]]
    /\ \A p \in Publishers :
          /\ sending[p].to = {} => sending[p] = Nothing
          /\ sending[p].to # {} => sending[p].event \in AnEvent
          /\ \A c \in sending[p].to : conn[c].at \notin {"off", "loaded"}

\* The jobs of publishers, and how far each is with the first of them.
JobsOK ==
    /\ jobs \in [Publishers -> Seq(AJob)]
    /\ draft \in [Publishers -> [at : {"build", "audience", "send", "sent"},
                                 version : 0..MaxVersion, to : SUBSET Users]]
    /\ \A p \in Publishers :
          /\ ~Busy(p) \/ draft[p].at = "build" => draft[p] = NoDraft /\ sending[p] = Nothing
          /\ draft[p].at = "audience" => /\ Job(p).kind = "updated"
                                         /\ draft[p].to = {} /\ sending[p] = Nothing
          /\ draft[p].at # "build" => Job(p).kind # "interest"

\* Nothing that is built, sent or received is newer than the tables.
PastOK ==
    /\ latest \in [Conns -> [Rooms -> [version : 0..MaxVersion, mine : 0..MaxVersion]]]
    /\ \A c \in Conns, r \in Rooms :
          /\ latest[c][r].version <= version[r]
          /\ conn[c].at = "off" => latest[c][r].mine = 0
          /\ conn[c].at # "off" => latest[c][r].mine <= mine[conn[c].user][r]
    /\ \A p \in Publishers : Busy(p) => draft[p].version <= version[Job(p).room]
    /\ \A p \in Publishers : \A c \in sending[p].to :
          /\ sending[p].event.version <= version[sending[p].event.room]
          /\ sending[p].event.mine <= mine[conn[c].user][sending[p].event.room]

TypeInv == DataOK /\ ConnOK /\ RegistryOK /\ BoxOK /\ SendOK /\ JobsOK

\* A talker whose interest was added is heard of by a stream that is still
\* opening, in what it loaded or in what it missed.
TalkOK ==
    /\ listening \subseteq talking
    /\ \A c \in Conns, r \in Rooms :
          /\ <<conn[c].user, r>> \in listening /\ <<c, r>> \notin missed
          => /\ conn[c].at \in {"loaded", "subscribed"} => r \in conn[c].rooms
             /\ conn[c].at = "open" => r \in interest[c]

\* Such a job waits: its snapshot is still to be built.
Waiting(p, u, r) ==
    \E i \in DOMAIN jobs[p] : /\ i = 1 => draft[p].at = "build"
                              /\ Announces(jobs[p][i], u, r)

\* Its snapshot is built, and the job has yet to reach u.
Carrying(p, u, r) ==
    /\ Busy(p) /\ Announces(Job(p), u, r)
    /\ \/ draft[p].at = "audience"
       \/ draft[p].at = "send" /\ u \in draft[p].to

\* The bus has the event for the stream c.
Handing(p, c, r) ==
    /\ c \in sending[p].to
    /\ sending[p].event.room = r /\ sending[p].event.kind \in {"added", "updated"}

OwesVersion(p, c, r) ==
    \/ Waiting(p, conn[c].user, r)
    \/ Carrying(p, conn[c].user, r) /\ draft[p].version = version[r]
    \/ Handing(p, c, r) /\ sending[p].event.version = version[r]

OwesMine(p, c, r) ==
    \/ Waiting(p, conn[c].user, r)
    \/ Carrying(p, conn[c].user, r)
    \/ Handing(p, c, r) /\ sending[p].event.mine = mine[conn[c].user][r]

\* A client that listed its rooms lacks nothing that no publisher owes it, but for
\* what was left out of the announcements.
DebtOK ==
    \A c \in Conns, r \in Rooms : Follows(c, r) /\ <<c, r>> \notin hushed =>
        /\ latest[c][r].version = version[r] \/ \E p \in Publishers : OwesVersion(p, c, r)
        /\ latest[c][r].mine = mine[conn[c].user][r] \/ \E p \in Publishers : OwesMine(p, c, r)

IInv == TypeInv /\ PastOK /\ TalkOK /\ DebtOK
-----------------------------------------------------------------------------
(* Lists of jobs                                                           *)

LEMMA JobTypes ==
    /\ \A r \in Rooms, u \in Users \cup {None} : Updated(r, u) \in AJob
    /\ \A r \in Rooms : Live(r) \in AJob
    /\ \A r \in Rooms, u \in Users :
          Added(r, u) \in AJob /\ Deleted(r, u) \in AJob /\ Interest(r, u) \in AJob
  BY DEF AJob, Updated, Live, Added, Deleted, Interest

\* UpdateAll puts a job for each of the rooms into some order.
LEMMA UpdateAllOK ==
    ASSUME NEW rooms \in SUBSET Rooms
    PROVE  UpdateAll(rooms) \in Seq(AJob)
<1> DEFINE S == {Updated(r, None) : r \in rooms}
           n == Cardinality(S)
           once == [r \in rooms |-> Updated(r, None)]
<1>1. IsFiniteSet(S)
  <2>1. IsFiniteSet(rooms)
    BY RoomStreamAssumption, FS_Subset
  <2>2. once \in Surjection(rooms, S)
    BY DEF Surjection
  <2> HIDE DEF S, once
  <2> QED BY <2>1, <2>2, FS_Surjection
<1>2. S \subseteq AJob
  BY JobTypes
<1> HIDE DEF S
<1>3. n \in Nat /\ \E f \in [1..n -> S] : IsInjective(f)
  <2>1. n \in Nat /\ ExistsBijection(1..n, S)
    BY <1>1, FS_CardinalityType
  <2> QED BY <2>1 DEF ExistsBijection, Bijection, Injection
<1>4. SetToSeq(S) \in [1..n -> S]
  BY <1>3 DEF SetToSeq
<1>5. SetToSeq(S) \in Seq(AJob)
  BY <1>2, <1>3, <1>4
<1> QED BY <1>5 DEF UpdateAll, S

-----------------------------------------------------------------------------
(* Who takes the steps                                                     *)

Publishing(p) ==
    \/ Build(p) \/ Audience(p) \/ SendLive(p) \/ AddInterest(p)
    \/ \E u \in Users : SendToUser(p, u) \/ SendBare(p, u)
    \/ \E c \in Conns : Hand(p, c)

Dropping(p) == BuildFails(p) \/ AudienceFails(p)

\* The changes that are announced, and those that are not.
Requesting(h, r) ==
    \/ UpdateRoom(h, r)
    \/ \E u \in Users : \/ JoinRoom(h, u, r) \/ LookIn(h, u, r) \/ LeaveRoom(h, u, r)
                        \/ UpdateMine(h, u, r) \/ JoinLive(h, u, r) \/ LeaveLive(h, u, r)

Unannounced ==
    \/ \E h \in Handlers, r \in Rooms, u \in Users : SweepLive(h, u, r)
    \/ \E r \in Rooms : \/ ConsoleOwner(r)
                       \/ \E u \in Users : ConsoleAdd(u, r) \/ ConsoleRemove(u, r)
    \/ \E u \in Users : DeleteAccount(u)

Streaming(c) ==
    \/ \E u \in Watchers : OpenStream(c, u)
    \/ SubscribeStream(c) \/ SetInterest(c) \/ FetchRooms(c) \/ ReadEvent(c)
    \/ HangUp(c) \/ LeaveBus(c)

LEMMA StepTakers ==
    Next => \/ \E p \in Publishers : Publishing(p) \/ Dropping(p)
            \/ \E h \in Handlers, r \in Rooms : Requesting(h, r)
            \/ Unannounced
            \/ \E c \in Conns : Streaming(c)
  BY Zenon DEF Next, Publishing, Dropping, Requesting, Unannounced, Streaming

\* What each of them leaves alone.
LEMMA Frames ==
    /\ \A p \in Publishers : Publishing(p) => UNCHANGED <<data, conn, owner, closed, byUser>>
    /\ \A p \in Publishers : Dropping(p) => UNCHANGED <<bus, data, conn, latest, listening, missed>>
    /\ \A h \in Handlers, r \in Rooms :
          Requesting(h, r) => UNCHANGED <<bus, accounts, conn, draft, latest, missed, hushed>>
    /\ Unannounced => UNCHANGED <<bus, mine, conn, draft, latest, missed>>
    /\ \A c \in Conns : Streaming(c) => UNCHANGED <<data, draft, sending, listening, missed>>
<1>1. ASSUME NEW p \in Publishers, Publishing(p)
      PROVE  UNCHANGED <<data, conn, owner, closed, byUser>>
  BY <1>1 DEF Publishing, Build, Audience, SendLive, AddInterest, SendToUser, SendBare, Hand, Publish,
              Deliver, AddUserRoomInterest, bus, stream
<1>2. ASSUME NEW h \in Handlers, NEW r \in Rooms, Requesting(h, r)
      PROVE  UNCHANGED <<bus, accounts, conn, draft, latest, missed, hushed>>
  BY <1>2 DEF Requesting, UpdateRoom, JoinRoom, LookIn, LeaveRoom, UpdateMine, JoinLive, LeaveLive,
              Commit, data, stream
<1>3. ASSUME NEW c \in Conns, Streaming(c)
      PROVE  UNCHANGED <<data, draft, sending, listening, missed>>
  BY <1>3 DEF Streaming, OpenStream, SubscribeStream, SetInterest, FetchRooms, ReadEvent, HangUp,
              LeaveBus, bus, Subscribe, SetRooms, Receive, CloseChannel, Unregister
<1>4. ASSUME NEW p \in Publishers, Dropping(p)
      PROVE  UNCHANGED <<bus, data, conn, latest, listening, missed>>
  BY <1>4 DEF Dropping, BuildFails, AudienceFails, Drop, stream
<1>5. Unannounced => UNCHANGED <<bus, mine, conn, draft, latest, missed>>
  BY DEF Unannounced, SweepLive, ConsoleOwner, ConsoleAdd, ConsoleRemove, DeleteAccount, CommitQuietly
<1> QED BY <1>1, <1>2, <1>3, <1>4, <1>5

-----------------------------------------------------------------------------
(* The tables                                                              *)

LEMMA CountChangeOK ==
    ASSUME DataOK, NEW r \in Rooms, CountChange(r)
    PROVE  /\ changes' \in [Rooms -> 1..MaxVersion]
           /\ changes[r] + 1 \in 1..MaxVersion
           /\ changes' = [changes EXCEPT ![r] = @ + 1]
  BY RoomStreamAssumption DEF DataOK, CountChange

\* A change of a room counts, and gives it a new version.
LEMMA CommitData ==
    ASSUME DataOK, NEW r \in Rooms, CountChange(r),
           version' = [version EXCEPT ![r] = @ + 1], UNCHANGED <<accounts, mine>>,
           members' \in [Rooms -> SUBSET accounts], talking' \subseteq accounts \X Rooms
    PROVE  DataOK'
<1>1. version' \in [Rooms -> 1..MaxVersion]
  BY CountChangeOK, RoomStreamAssumption DEF DataOK
<1>2. \A q \in Rooms : version'[q] <= changes'[q] /\ \A u \in Users : mine'[u][q] <= changes'[q]
  <2> SUFFICES ASSUME NEW q \in Rooms
               PROVE  version'[q] <= changes'[q] /\ \A u \in Users : mine'[u][q] <= changes'[q]
    OBVIOUS
  <2>1. changes'[q] = IF q = r THEN changes[q] + 1 ELSE changes[q]
    BY CountChangeOK DEF DataOK
  <2>2. version'[q] = IF q = r THEN version[q] + 1 ELSE version[q]
    BY DEF DataOK
  <2>3. changes[q] \in Nat /\ version[q] \in Nat /\ \A u \in Users : mine[u][q] \in Nat
    BY RoomStreamAssumption DEF DataOK
  <2> QED BY <2>1, <2>2, <2>3 DEF DataOK
<1> QED BY <1>1, <1>2, CountChangeOK DEF DataOK

LEMMA DataStep ==
    ASSUME DataOK, NEW h \in Handlers, NEW r \in Rooms, Requesting(h, r)
    PROVE  DataOK'
<1>1. CASE UpdateRoom(h, r)
  BY <1>1, CommitData DEF UpdateRoom, Commit, DataOK
<1>2. ASSUME NEW u \in Users, JoinRoom(h, u, r) PROVE DataOK'
  <2>1. members' \in [Rooms -> SUBSET accounts] /\ talking' \subseteq accounts \X Rooms
    BY <1>2 DEF JoinRoom, DataOK
  <2> QED BY <1>2, <2>1, CommitData DEF JoinRoom, Commit
<1>3. ASSUME NEW u \in Users, LookIn(h, u, r) PROVE DataOK'
  BY <1>3 DEF LookIn, DataOK, data
<1>4. ASSUME NEW u \in Users, LeaveRoom(h, u, r) PROVE DataOK'
  <2>1. members' \in [Rooms -> SUBSET accounts] /\ talking' \subseteq accounts \X Rooms
    BY <1>4 DEF LeaveRoom, DataOK
  <2> QED BY <1>4, <2>1, CommitData DEF LeaveRoom, Commit
<1>5. ASSUME NEW u \in Users, UpdateMine(h, u, r) PROVE DataOK'
  <2>1. CountChange(r) /\ mine' = [mine EXCEPT ![u][r] = @ + 1] /\ UNCHANGED <<accounts, members, talking, version>>
    BY <1>5 DEF UpdateMine
  <2>2. \A v \in Users, q \in Rooms :
            mine'[v][q] = IF v = u /\ q = r THEN mine[v][q] + 1 ELSE mine[v][q]
    BY <2>1 DEF DataOK
  <2>3. \A v \in Users, q \in Rooms : mine[v][q] \in Nat /\ version[q] \in Nat /\ changes[q] \in Nat
    BY RoomStreamAssumption DEF DataOK
  <2>4. \A q \in Rooms : changes'[q] = IF q = r THEN changes[q] + 1 ELSE changes[q]
    BY <2>1, CountChangeOK DEF DataOK
  <2>5. \A v \in Users, q \in Rooms : mine'[v][q] <= changes'[q] /\ version'[q] <= changes'[q]
    BY <2>1, <2>2, <2>3, <2>4 DEF DataOK
  <2>6. \A v \in Users, q \in Rooms : mine'[v][q] \in 0..MaxVersion
    <3> SUFFICES ASSUME NEW v \in Users, NEW q \in Rooms PROVE mine'[v][q] \in 0..MaxVersion
      OBVIOUS
    <3>1. changes'[q] \in 1..MaxVersion /\ mine'[v][q] <= changes'[q]
      BY <2>1, <2>5, CountChangeOK
    <3> QED BY <3>1, <2>2, <2>3, RoomStreamAssumption
  <2>7. mine' \in [Users -> [Rooms -> 0..MaxVersion]]
    <3>1. mine' \in [Users -> [Rooms -> Int]]
      BY <2>1, RoomStreamAssumption DEF DataOK
    <3> QED BY <3>1, <2>6
  <2>8. /\ \A q \in Rooms : version'[q] <= changes'[q]
        /\ \A q \in Rooms, v \in Users : mine'[v][q] <= changes'[q]
    BY <2>1, <2>3, <2>4, <2>5 DEF DataOK
  <2> QED BY <2>1, <2>7, <2>8, CountChangeOK DEF DataOK
<1>6. ASSUME NEW u \in Users, JoinLive(h, u, r) PROVE DataOK'
  <2>1. members' \in [Rooms -> SUBSET accounts] /\ talking' \subseteq accounts \X Rooms
    BY <1>6 DEF JoinLive, DataOK
  <2> QED BY <1>6, <2>1, CommitData DEF JoinLive, Commit
<1>7. ASSUME NEW u \in Users, LeaveLive(h, u, r) PROVE DataOK'
  <2>1. members' \in [Rooms -> SUBSET accounts] /\ talking' \subseteq accounts \X Rooms
    BY <1>7 DEF LeaveLive, DataOK
  <2> QED BY <1>7, <2>1, CommitData DEF LeaveLive, Commit
<1> QED BY <1>1, <1>2, <1>3, <1>4, <1>5, <1>6, <1>7 DEF Requesting

\* What a change does that is not announced: some rooms get a new version, and
\* all streams are said not to have been told; at most one handler, which had
\* nothing to do, gets a job.
LEMMA QuietChanges ==
    ASSUME DataOK, Unannounced
    PROVE  /\ accounts' \subseteq accounts /\ Ghosts \subseteq accounts'
           /\ members' \in [Rooms -> SUBSET accounts'] /\ talking' \subseteq accounts' \X Rooms
           /\ listening' \subseteq listening /\ (listening \subseteq talking => listening' \subseteq talking')
           /\ \E rooms \in SUBSET Rooms : /\ CommitQuietly(rooms)
                                         /\ \A r \in Rooms \ rooms : members'[r] = members[r]
           /\ \/ UNCHANGED jobs
              \/ \E h \in Handlers, r \in Rooms : ~Busy(h) /\ jobs' = [jobs EXCEPT ![h] = <<Live(r)>>]
<1>1. CASE \E h \in Handlers, r \in Rooms, u \in Users : SweepLive(h, u, r)
  BY <1>1 DEF SweepLive, DataOK
<1>2. CASE \E r \in Rooms : ConsoleOwner(r)
  BY <1>2 DEF ConsoleOwner, DataOK
<1>3. CASE \E r \in Rooms, u \in Users : ConsoleAdd(u, r)
  BY <1>3 DEF ConsoleAdd, DataOK
<1>4. CASE \E r \in Rooms, u \in Users : ConsoleRemove(u, r)
  BY <1>4 DEF ConsoleRemove, DataOK
<1>5. ASSUME NEW u \in Users, DeleteAccount(u)
      PROVE  /\ accounts' \subseteq accounts /\ Ghosts \subseteq accounts'
             /\ members' \in [Rooms -> SUBSET accounts'] /\ talking' \subseteq accounts' \X Rooms
             /\ listening' \subseteq listening /\ (listening \subseteq talking => listening' \subseteq talking')
             /\ RoomsOf(u) \in SUBSET Rooms /\ CommitQuietly(RoomsOf(u)) /\ UNCHANGED jobs
             /\ \A r \in Rooms \ RoomsOf(u) : members'[r] = members[r]
  <2>1. accounts' \subseteq accounts /\ Ghosts \subseteq accounts'
    BY <1>5 DEF DeleteAccount, DataOK
  <2>2. members' \in [Rooms -> SUBSET accounts'] /\ talking' \subseteq accounts' \X Rooms
    BY <1>5 DEF DeleteAccount, DataOK
  <2>3. listening' \subseteq listening /\ (listening \subseteq talking => listening' \subseteq talking')
    BY <1>5 DEF DeleteAccount
  <2>4. \A r \in Rooms \ RoomsOf(u) : members'[r] = members[r]
    BY <1>5 DEF DeleteAccount, RoomsOf, DataOK
  <2> QED BY <1>5, <2>1, <2>2, <2>3, <2>4 DEF DeleteAccount, RoomsOf
<1> QED BY <1>1, <1>2, <1>3, <1>4, <1>5 DEF Unannounced

LEMMA QuietData ==
    ASSUME DataOK, Unannounced
    PROVE  DataOK' /\ \A r \in Rooms : version[r] <= version'[r]
<1>1. PICK rooms \in SUBSET Rooms : CommitQuietly(rooms)
  BY QuietChanges
<1>2. ASSUME NEW r \in Rooms
      PROVE  /\ version[r] \in 1..MaxVersion /\ changes[r] \in 1..MaxVersion /\ version[r] <= changes[r]
             /\ version'[r] = IF r \in rooms THEN version[r] + 1 ELSE version[r]
             /\ changes'[r] = IF r \in rooms THEN changes[r] + 1 ELSE changes[r]
             /\ r \in rooms => changes[r] < MaxVersion
             /\ \A u \in Users : mine[u][r] \in Nat /\ mine[u][r] <= changes[r]
  BY <1>1, RoomStreamAssumption DEF CommitQuietly, DataOK
<1>3. \A r \in Rooms : /\ version'[r] \in 1..MaxVersion /\ changes'[r] \in 1..MaxVersion
                       /\ version[r] <= version'[r] /\ version'[r] <= changes'[r]
                       /\ \A u \in Users : mine[u][r] <= changes'[r]
  BY <1>2, RoomStreamAssumption
<1>4. changes' \in [Rooms -> 1..MaxVersion] /\ version' \in [Rooms -> 1..MaxVersion] /\ UNCHANGED mine
  BY <1>1, <1>3 DEF CommitQuietly
<1> QED BY <1>3, <1>4, QuietChanges DEF DataOK

-----------------------------------------------------------------------------
(* A publisher at its job                                                  *)

LEMMA JobOK ==
    ASSUME JobsOK, NEW p \in Publishers, Busy(p)
    PROVE  /\ Job(p) \in AJob /\ Tail(jobs[p]) \in Seq(AJob)
           /\ jobs[p] \in Seq(AJob) /\ Len(jobs[p]) \in Nat /\ Len(jobs[p]) > 0
           /\ Job(p) = jobs[p][1] /\ 1 \in DOMAIN jobs[p]
  BY DEF JobsOK, Busy, Job

\* What a publisher sends is an event.
LEMMA EventOK ==
    ASSUME DataOK, JobsOK, NEW p \in Publishers, Busy(p), draft[p].at # "build"
    PROVE  Event(p) \in AnEvent /\ \A u \in Users : EventFor(p, u) \in AnEvent
<1>1. /\ Job(p).kind \in {"updated", "added", "deleted", "live"} /\ Job(p).room \in Rooms
      /\ draft[p].version \in 0..MaxVersion
  BY JobOK DEF JobsOK, AJob
<1>2. 0 \in 0..MaxVersion
  BY RoomStreamAssumption
<1>3. ASSUME NEW u \in Users PROVE mine[u][Job(p).room] \in 0..MaxVersion
  BY <1>1 DEF DataOK
<1> QED BY <1>1, <1>2, <1>3 DEF Event, EventFor, AnEvent

\* Only the jobs and the draft of the publisher that goes on change.
LEMMA ProceedChanges ==
    ASSUME JobsOK, NEW p \in Publishers, NEW d, Proceed(p, d)
    PROVE  /\ \/ /\ d.to = {} /\ sending'[p].to = {}
                 /\ jobs'[p] = Tail(jobs[p]) /\ draft'[p] = NoDraft
              \/ /\ ~(d.to = {} /\ sending'[p].to = {})
                 /\ jobs'[p] = jobs[p] /\ draft'[p] = d
           /\ \A q \in Publishers \ {p} : jobs'[q] = jobs[q] /\ draft'[q] = draft[q]
  BY DEF Proceed, JobsOK

LEMMA ProceedOK ==
    ASSUME JobsOK, NEW p \in Publishers, Busy(p), Job(p).kind # "interest",
           NEW d \in [at : {"send", "sent"}, version : 0..MaxVersion, to : SUBSET Users],
           \A q \in Publishers \ {p} : sending'[q] = sending[q],
           sending'[p].to = {} => sending'[p] = Nothing,
           Proceed(p, d)
    PROVE  JobsOK'
<1>1. jobs' \in [Publishers -> Seq(AJob)]
  BY JobOK DEF JobsOK, Proceed
<1>2. NoDraft \in [at : {"build"}, version : 0..MaxVersion, to : SUBSET Users]
  BY RoomStreamAssumption DEF NoDraft
<1>3. draft' \in [Publishers -> [at : {"build", "audience", "send", "sent"},
                                 version : 0..MaxVersion, to : SUBSET Users]]
  <2>1. d \in [at : {"build", "audience", "send", "sent"}, version : 0..MaxVersion, to : SUBSET Users]
    OBVIOUS
  <2>2. NoDraft \in [at : {"build", "audience", "send", "sent"}, version : 0..MaxVersion, to : SUBSET Users]
    BY <1>2
  <2>3. draft' = [draft EXCEPT ![p] = NoDraft] \/ draft' = [draft EXCEPT ![p] = d]
    BY DEF Proceed
  <2> QED BY <2>1, <2>2, <2>3 DEF JobsOK
<1>4. ASSUME NEW q \in Publishers, q # p
      PROVE  jobs'[q] = jobs[q] /\ draft'[q] = draft[q] /\ sending'[q] = sending[q]
  BY <1>4, ProceedChanges
<1>5. \/ draft'[p] = NoDraft /\ sending'[p] = Nothing
      \/ jobs'[p] = jobs[p] /\ draft'[p] = d
  BY ProceedChanges
<1>6. NoDraft.at = "build"
  BY DEF NoDraft
<1>7. ASSUME NEW q \in Publishers
      PROVE  /\ jobs'[q] = << >> \/ draft'[q].at = "build" => draft'[q] = NoDraft /\ sending'[q] = Nothing
             /\ draft'[q].at = "audience" => /\ Head(jobs'[q]).kind = "updated"
                                             /\ draft'[q].to = {} /\ sending'[q] = Nothing
             /\ draft'[q].at # "build" => Head(jobs'[q]).kind # "interest"
  <2>1. CASE q = p
    BY <1>5, <1>6, <2>1 DEF Busy, Job
  <2>2. CASE q # p
    BY <1>4, <2>2 DEF JobsOK, Busy, Job
  <2> QED BY <2>1, <2>2
<1> QED BY <1>1, <1>3, <1>7 DEF JobsOK, Busy, Job

\* A delivery takes one stream off the targets.
LEMMA DeliverSends ==
    ASSUME SendOK, NEW p \in Publishers, NEW c \in Conns, Deliver(p, c)
    PROVE  /\ sending' \in [Publishers -> [to : SUBSET Conns, event : AnEvent \cup {None}]]
           /\ sending'[p].to = sending[p].to \ {c}
           /\ IF sending[p].to = {c} THEN sending'[p] = Nothing
                                     ELSE sending'[p].event = sending[p].event
           /\ sending'[p].to = {} => sending'[p] = Nothing
           /\ \A q \in Publishers \ {p} : sending'[q] = sending[q]
<1>1. /\ sending \in [Publishers -> [to : SUBSET Conns, event : AnEvent \cup {None}]]
      /\ c \in sending[p].to
  BY DEF SendOK, Deliver
<1>2. CASE sending[p].to = {c}
  <2>1. sending' = [sending EXCEPT ![p] = Nothing]
    BY <1>2 DEF Deliver
  <2>2. Nothing \in [to : SUBSET Conns, event : AnEvent \cup {None}] /\ Nothing.to = {}
    BY DEF Nothing
  <2> QED BY <1>1, <1>2, <2>1, <2>2
<1>3. CASE sending[p].to # {c}
  <2> DEFINE rest == [to |-> sending[p].to \ {c}, event |-> sending[p].event]
  <2>1. sending' = [sending EXCEPT ![p] = rest]
    BY <1>3 DEF Deliver
  <2>2. /\ rest \in [to : SUBSET Conns, event : AnEvent \cup {None}]
        /\ rest.to = sending[p].to \ {c} /\ rest.event = sending[p].event
    BY <1>1
  <2> HIDE DEF rest
  <2> QED BY <1>1, <1>3, <2>1, <2>2
<1> QED BY <1>2, <1>3

\* The publishing steps that go on with the job.
LEMMA JobsProceed ==
    ASSUME TypeInv, NEW p \in Publishers, Publishing(p), ~Build(p), ~AddInterest(p)
    PROVE  /\ Busy(p) /\ Job(p).kind # "interest" /\ draft[p].at # "build"
           /\ \A q \in Publishers \ {p} : sending'[q] = sending[q]
           /\ sending'[p].to = {} => sending'[p] = Nothing
           /\ \E d \in [at : {"send", "sent"}, version : 0..MaxVersion, to : SUBSET Users] :
                 d.version = draft[p].version /\ Proceed(p, d)
<1> USE DEF TypeInv
<1>0. /\ draft[p] \in [at : {"build", "audience", "send", "sent"},
                       version : 0..MaxVersion, to : SUBSET Users]
      /\ sending \in [Publishers -> [to : SUBSET Conns, event : AnEvent \cup {None}]]
      /\ draft[p].at # "build" => Job(p).kind # "interest"
      /\ sending[p].to = {} => sending[p] = Nothing
  BY DEF JobsOK, SendOK
<1> DEFINE D == [at : {"send", "sent"}, version : 0..MaxVersion, to : SUBSET Users]
<1>1. CASE Audience(p)
  <2> DEFINE d == [draft[p] EXCEPT !.at = "send", !.to = members[Job(p).room] \ {Job(p).user}]
  <2>1. Job(p) \in AJob
    BY <1>1, JobOK DEF Audience
  <2>2. members[Job(p).room] \in SUBSET Users
    BY <2>1 DEF DataOK, AJob
  <2>3. d \in D /\ d.version = draft[p].version
    BY <1>0, <2>2
  <2> QED BY <1>0, <1>1, <2>3 DEF Audience, bus
<1>2. CASE SendLive(p)
  <2> DEFINE d == [draft[p] EXCEPT !.at = "sent"]
  <2>1. d \in D /\ d.version = draft[p].version
    BY <1>0
  <2> QED BY <1>0, <1>2, <2>1 DEF SendLive, Publish, Nothing
<1>3. CASE \E u \in Users : SendToUser(p, u) \/ SendBare(p, u)
  <2> PICK u \in Users : SendToUser(p, u) \/ SendBare(p, u)
    BY <1>3
  <2> DEFINE d == [draft[p] EXCEPT !.to = @ \ {u}]
  <2>1. d \in D /\ d.version = draft[p].version
    BY <1>0 DEF SendToUser, SendBare
  <2>2. Busy(p) /\ draft[p].at = "send" /\ Proceed(p, d) /\ \E t, e : Publish(p, t, e)
    BY DEF SendToUser, SendBare
  <2>3. /\ \A q \in Publishers \ {p} : sending'[q] = sending[q]
        /\ sending'[p].to = {} => sending'[p] = Nothing
    BY <1>0, <2>2 DEF Publish, Nothing
  <2> HIDE DEF d
  <2> QED BY <1>0, <2>1, <2>2, <2>3
<1>4. CASE \E c \in Conns : Hand(p, c)
  <2> PICK c \in Conns : Hand(p, c)
    BY <1>4
  <2>1. sending[p] # Nothing
    BY DEF Hand, Deliver, Nothing
  <2>2. Busy(p) /\ draft[p].at \notin {"build", "audience"}
    BY <2>1 DEF JobsOK
  <2>3. draft[p] \in D
    BY <1>0, <2>2
  <2> QED BY <1>0, <2>2, <2>3, DeliverSends DEF Hand
<1> QED BY <1>1, <1>2, <1>3, <1>4 DEF Publishing

\* A publisher has a job, and leaves those of the others alone.
LEMMA OwnJobs ==
    ASSUME TypeInv, NEW p \in Publishers, Publishing(p)
    PROVE  Busy(p) /\ \A q \in Publishers \ {p} : jobs'[q] = jobs[q] /\ draft'[q] = draft[q]
<1>1. CASE Build(p)
  BY <1>1 DEF Build, TypeInv, JobsOK
<1>2. CASE AddInterest(p)
  BY <1>2 DEF AddInterest, TypeInv, JobsOK
<1>3. CASE ~Build(p) /\ ~AddInterest(p)
  BY <1>3, JobsProceed, ProceedChanges DEF TypeInv
<1> QED BY <1>1, <1>2, <1>3

LEMMA PublishingJobs ==
    ASSUME TypeInv, NEW p \in Publishers, Publishing(p)
    PROVE  JobsOK'
<1> USE DEF TypeInv
<1>1. CASE Build(p)
  <2> DEFINE d == [at |-> IF Job(p).kind = "updated" THEN "audience" ELSE "send",
                   version |-> IF Job(p).kind \in {"deleted", "live"} THEN 0 ELSE version[Job(p).room],
                   to |-> IF Job(p).kind \in {"added", "deleted"} THEN {Job(p).user} ELSE {}]
  <2>1. Busy(p) /\ draft[p].at = "build" /\ Job(p).kind # "interest" /\ UNCHANGED <<jobs, sending>>
        /\ draft' = [draft EXCEPT ![p] = d]
    BY <1>1 DEF Build, bus
  <2>2. Job(p) \in AJob /\ sending[p] = Nothing
    BY <2>1, JobOK DEF JobsOK
  <2>3. Job(p).room \in Rooms /\ (Job(p).kind \in {"added", "deleted"} => Job(p).user \in Users)
    BY <2>2 DEF AJob
  <2>4. d \in [at : {"build", "audience", "send", "sent"}, version : 0..MaxVersion, to : SUBSET Users]
    BY <2>3, RoomStreamAssumption DEF DataOK
  <2>5. /\ d.at = "audience" => Job(p).kind = "updated" /\ d.to = {}
        /\ d.at # "build"
    OBVIOUS
  <2> HIDE DEF d
  <2>6. ASSUME NEW q \in Publishers
        PROVE  /\ jobs'[q] = << >> \/ draft'[q].at = "build" => draft'[q] = NoDraft /\ sending'[q] = Nothing
               /\ draft'[q].at = "audience" => /\ Head(jobs'[q]).kind = "updated"
                                               /\ draft'[q].to = {} /\ sending'[q] = Nothing
               /\ draft'[q].at # "build" => Head(jobs'[q]).kind # "interest"
    <3>1. CASE q = p
      <4>1. draft'[p] = d /\ jobs'[p] = jobs[p] /\ jobs[p] # << >> /\ sending'[p] = Nothing
        BY <2>1, <2>2 DEF JobsOK, Busy
      <4> QED BY <3>1, <4>1, <2>1, <2>5 DEF Job
    <3>2. CASE q # p
      <4>1. draft'[q] = draft[q] /\ jobs'[q] = jobs[q] /\ sending'[q] = sending[q]
        BY <2>1, <3>2 DEF JobsOK
      <4> QED BY <4>1 DEF JobsOK, Busy, Job
    <3> QED BY <3>1, <3>2
  <2> QED BY <2>1, <2>4, <2>6 DEF JobsOK, Busy, Job
<1>2. CASE AddInterest(p)
  <2>1. /\ Busy(p) /\ Job(p).kind = "interest" /\ jobs' = [jobs EXCEPT ![p] = Tail(@)]
        /\ UNCHANGED <<draft, sending>>
    BY <1>2 DEF AddInterest, AddUserRoomInterest
  <2>2. draft[p].at = "build" /\ draft[p] = NoDraft /\ sending[p] = Nothing
    BY <2>1 DEF JobsOK
  <2>3. jobs' \in [Publishers -> Seq(AJob)]
    BY <2>1, JobOK DEF JobsOK
  <2>4. \A q \in Publishers : q # p => jobs'[q] = jobs[q]
    BY <2>1 DEF JobsOK
  <2> QED BY <2>1, <2>2, <2>3, <2>4 DEF JobsOK, Busy, Job
<1>3. CASE ~Build(p) /\ ~AddInterest(p)
  <2>1. PICK d \in [at : {"send", "sent"}, version : 0..MaxVersion, to : SUBSET Users] : Proceed(p, d)
    BY <1>3, JobsProceed
  <2> QED BY <1>3, <2>1, JobsProceed, ProceedOK
<1> QED BY <1>1, <1>2, <1>3

\* The streams that are picked have opened.
LEMMA TargetsServe ==
    ASSUME RegistryOK, ConnOK
    PROVE  /\ \A u \in Users : byUser[u] \in SUBSET Conns /\ \A c \in byUser[u] : Serving(c) /\ conn[c].user = u
           /\ \A r \in Rooms : byRoom[r] \in SUBSET Conns /\ \A c \in byRoom[r] : Serving(c)
  BY DEF RegistryOK

\* What Publish does, when it gets an event and streams that have opened.
LEMMA PublishOK ==
    ASSUME SendOK, NEW p \in Publishers, NEW targets \in SUBSET Conns, NEW e \in AnEvent,
           \A c \in targets : Serving(c), Publish(p, targets, e)
    PROVE  /\ sending' \in [Publishers -> [to : SUBSET Conns, event : AnEvent \cup {None}]]
           /\ \A q \in Publishers : /\ sending'[q].to = {} => sending'[q] = Nothing
                                    /\ sending'[q].to # {} => sending'[q].event \in AnEvent
                                    /\ \A c \in sending'[q].to : conn[c].at \notin {"off", "loaded"}
           /\ sending'[p].to = targets
           /\ targets # {} => sending'[p].event = e
<1>1. Nothing \in [to : SUBSET Conns, event : AnEvent \cup {None}] /\ Nothing.to = {}
  BY DEF Nothing
<1>2. sending' = [sending EXCEPT ![p] = IF targets = {} THEN Nothing ELSE [to |-> targets, event |-> e]]
  BY DEF Publish
<1>3. sending' = [sending EXCEPT ![p] = sending'[p]]
      /\ sending'[p] = (IF targets = {} THEN Nothing ELSE [to |-> targets, event |-> e])
  BY <1>2 DEF SendOK
<1>4. sending'[p] \in [to : SUBSET Conns, event : AnEvent \cup {None}]
  BY <1>1, <1>3
<1>5. /\ sending'[p].to = targets
      /\ targets # {} => sending'[p].event = e
      /\ targets = {} => sending'[p] = Nothing
  BY <1>1, <1>3
<1> QED BY <1>3, <1>4, <1>5 DEF SendOK, Serving

LEMMA PublishingSends ==
    ASSUME TypeInv, NEW p \in Publishers, Publishing(p)
    PROVE  SendOK'
<1> USE DEF TypeInv
<1>0. UNCHANGED conn
  BY Frames
<1>1. CASE UNCHANGED sending
  BY <1>0, <1>1 DEF SendOK
<1>2. CASE SendLive(p)
  <2>1. Busy(p) /\ draft[p].at = "send" /\ Publish(p, byRoom[Job(p).room], Event(p))
    BY <1>2 DEF SendLive
  <2>2. Event(p) \in AnEvent /\ Job(p).room \in Rooms
    BY <2>1, EventOK, JobOK DEF AJob
  <2>3. byRoom[Job(p).room] \in SUBSET Conns /\ \A c \in byRoom[Job(p).room] : Serving(c)
    BY <2>2, TargetsServe
  <2> QED BY <1>0, <2>1, <2>2, <2>3, PublishOK DEF SendOK
<1>3. ASSUME NEW u \in Users, SendToUser(p, u) \/ SendBare(p, u) PROVE SendOK'
  <2>1. PICK e \in {Event(p), EventFor(p, u)} :
            Busy(p) /\ draft[p].at = "send" /\ Publish(p, byUser[u], e)
    BY <1>3 DEF SendToUser, SendBare
  <2>2. e \in AnEvent
    BY <2>1, EventOK
  <2>3. byUser[u] \in SUBSET Conns /\ \A c \in byUser[u] : Serving(c)
    BY TargetsServe
  <2> QED BY <1>0, <2>1, <2>2, <2>3, PublishOK DEF SendOK
<1>4. ASSUME NEW c \in Conns, Hand(p, c) PROVE SendOK'
  <2>1. Deliver(p, c)
    BY <1>4 DEF Hand
  <2> QED BY <1>0, <2>1, DeliverSends DEF SendOK
<1>5. Build(p) \/ Audience(p) \/ AddInterest(p) => UNCHANGED sending
  BY DEF Build, Audience, AddInterest, AddUserRoomInterest, bus
<1> QED BY <1>1, <1>2, <1>3, <1>4, <1>5 DEF Publishing

\* Interest grows by a room, for the streams of a user that are registered.
LEMMA AddInterestRegistry ==
    ASSUME RegistryOK, NEW u \in Users, NEW r \in Rooms, AddUserRoomInterest(u, r), UNCHANGED conn
    PROVE  /\ RegistryOK'
           /\ \A c \in Conns : interest'[c] = IF Serving(c) /\ conn[c].user = u
                                              THEN interest[c] \cup {r} ELSE interest[c]
<1> DEFINE more == {c \in byUser[u] : r \notin interest[c]}
<1>1. byUser[u] = {c \in Conns : Serving(c) /\ conn[c].user = u}
  BY DEF RegistryOK
<1>2. /\ interest' = [c \in Conns |-> IF c \in more THEN interest[c] \cup {r} ELSE interest[c]]
      /\ byRoom' = [byRoom EXCEPT ![r] = @ \cup more]
      /\ UNCHANGED <<owner, byUser, closed>>
  BY DEF AddUserRoomInterest
<1>3. \A c \in Conns : interest'[c] = IF Serving(c) /\ conn[c].user = u
                                      THEN interest[c] \cup {r} ELSE interest[c]
  BY <1>1, <1>2
<1>4. interest' \in [Conns -> SUBSET Rooms]
  BY <1>2 DEF RegistryOK
<1>5. ASSUME NEW q \in Rooms PROVE byRoom'[q] = {c \in Conns : Serving(c) /\ q \in interest'[c]}
  <2>1. byRoom[q] = {c \in Conns : Serving(c) /\ q \in interest[c]}
    BY DEF RegistryOK
  <2>2. byRoom'[q] = IF q = r THEN byRoom[q] \cup more ELSE byRoom[q]
    BY <1>2 DEF RegistryOK
  <2>3. \A c \in Conns : c \in more <=> Serving(c) /\ conn[c].user = u /\ r \notin interest[c]
    BY <1>1
  <2>4. more \subseteq Conns
    BY <1>1
  <2> HIDE DEF more
  <2>5. CASE q = r
    BY <1>3, <2>1, <2>2, <2>3, <2>4, <2>5
  <2>6. CASE q # r
    <3>1. \A c \in Conns : q \in interest'[c] <=> q \in interest[c]
      BY <1>3, <2>6
    <3> QED BY <2>1, <2>2, <2>6, <3>1
  <2> QED BY <2>5, <2>6
<1>6. byRoom' = [q \in Rooms |-> {c \in Conns : Serving(c)' /\ q \in interest'[c]}]
  <2>1. DOMAIN byRoom' = Rooms /\ byRoom' = [q \in Rooms |-> byRoom'[q]]
    BY <1>2 DEF RegistryOK
  <2> QED BY <1>5, <2>1 DEF Serving
<1>7. /\ owner' = [c \in Conns |-> IF conn'[c].at \in {"off", "loaded"} THEN None ELSE conn'[c].user]
      /\ closed' = [c \in Conns |-> conn'[c].at \in {"closing", "gone"}]
      /\ byUser' = [v \in Users |-> {c \in Conns : Serving(c)' /\ conn'[c].user = v}]
  BY <1>2 DEF RegistryOK, Serving
<1> QED BY <1>3, <1>4, <1>6, <1>7 DEF RegistryOK

\* A stream that is full gives up its oldest event.
LEMMA DeliverBox ==
    ASSUME BoxOK, SendOK, NEW p \in Publishers, NEW c \in Conns, Deliver(p, c)
    PROVE  BoxOK'
<1>1. sending[p].event \in AnEvent
  BY DEF SendOK, Deliver
<1>2. /\ events[c] \in Seq(AnEvent) /\ Len(events[c]) \in Nat /\ Len(events[c]) <= BufferSize
      /\ BufferSize \in Nat \ {0}
  BY RoomStreamAssumption DEF BoxOK
<1> DEFINE kept == IF Len(events[c]) = BufferSize THEN Tail(events[c]) ELSE events[c]
<1>3. kept \in Seq(AnEvent) /\ Len(kept) + 1 <= BufferSize /\ Len(kept) \in Nat
  <2>1. CASE Len(events[c]) = BufferSize
    <3>1. Tail(events[c]) \in Seq(AnEvent) /\ Len(Tail(events[c])) = Len(events[c]) - 1
      BY <1>2, <2>1
    <3> QED BY <1>2, <2>1, <3>1
  <2>2. CASE Len(events[c]) # BufferSize
    BY <1>2, <2>2
  <2> QED BY <2>1, <2>2
<1>4. events' = IF closed[c] THEN events ELSE [events EXCEPT ![c] = Append(kept, sending[p].event)]
  BY DEF Deliver
<1> HIDE DEF kept
<1>5. Append(kept, sending[p].event) \in Seq(AnEvent) /\ Len(Append(kept, sending[p].event)) = Len(kept) + 1
  BY <1>1, <1>3
<1> QED BY <1>3, <1>4, <1>5 DEF BoxOK

LEMMA PublishingTypes ==
    ASSUME TypeInv, NEW p \in Publishers, Publishing(p)
    PROVE  TypeInv'
<1> USE DEF TypeInv
<1>0. UNCHANGED <<data, conn, owner, closed, byUser>>
  BY Frames
<1>1. DataOK'
  BY <1>0 DEF DataOK, data
<1>2. RegistryOK' /\ \A c \in Conns : conn[c].at \in {"off", "loaded"} => interest'[c] = {}
  <2>1. CASE AddInterest(p)
    <3>1. /\ Busy(p) /\ Job(p).kind = "interest"
          /\ AddUserRoomInterest(Job(p).user, Job(p).room)
      BY <2>1 DEF AddInterest
    <3>2. Job(p).user \in Users /\ Job(p).room \in Rooms
      BY <3>1, JobOK DEF AJob
    <3> QED BY <1>0, <3>1, <3>2, AddInterestRegistry DEF ConnOK, Serving
  <2>2. CASE ~AddInterest(p)
    <3>1. UNCHANGED <<interest, byRoom>>
      BY <2>2 DEF Publishing, Build, Audience, SendLive, SendToUser, SendBare, Hand, Publish, Deliver, bus
    <3> QED BY <1>0, <3>1 DEF RegistryOK, ConnOK, Serving
  <2> QED BY <2>1, <2>2
<1>3. ConnOK'
  <2>1. \A c \in Conns : jobs[c] = << >> => jobs'[c] = << >>
    <3>1. Conns \subseteq Publishers
      BY RoomStreamAssumption
    <3> QED BY <3>1, OwnJobs DEF Busy
  <2> QED BY <1>0, <1>2, <2>1 DEF ConnOK
<1>4. BoxOK'
  <2>1. CASE \E c \in Conns : Hand(p, c)
    BY <2>1, DeliverBox DEF Hand
  <2>2. CASE ~\E c \in Conns : Hand(p, c)
    <3>1. UNCHANGED events
      BY <2>2 DEF Publishing, Build, Audience, SendLive, SendToUser, SendBare, AddInterest,
                  AddUserRoomInterest, Publish, bus
    <3> QED BY <3>1 DEF BoxOK
  <2> QED BY <2>1, <2>2
<1> QED BY <1>1, <1>2, <1>3, <1>4, PublishingSends, PublishingJobs

\* A publication that ends without a word takes nothing back that was sent.
LEMMA DropChanges ==
    ASSUME TypeInv, NEW p \in Publishers, Dropping(p)
    PROVE  /\ Busy(p) /\ sending[p] = Nothing
           /\ jobs'[p] = Tail(jobs[p]) /\ draft'[p] = NoDraft
           /\ \A q \in Publishers : q # p => jobs'[q] = jobs[q] /\ draft'[q] = draft[q]
           /\ hushed' = hushed \cup Addressed(p)
           /\ JobsOK'
<1> USE DEF TypeInv
<1>1. /\ Busy(p) /\ draft[p].at \in {"build", "audience"}
      /\ jobs' = [jobs EXCEPT ![p] = Tail(@)] /\ draft' = [draft EXCEPT ![p] = NoDraft]
      /\ hushed' = hushed \cup Addressed(p) /\ UNCHANGED sending
  BY DEF Dropping, BuildFails, AudienceFails, Drop, bus
<1>2. sending[p] = Nothing
  BY <1>1 DEF JobsOK
<1>3. /\ jobs'[p] = Tail(jobs[p]) /\ draft'[p] = NoDraft
      /\ \A q \in Publishers : q # p => jobs'[q] = jobs[q] /\ draft'[q] = draft[q]
  BY <1>1 DEF JobsOK
<1>4. jobs' \in [Publishers -> Seq(AJob)]
  BY <1>1, JobOK DEF JobsOK
<1>5. NoDraft \in [at : {"build", "audience", "send", "sent"}, version : 0..MaxVersion, to : SUBSET Users]
      /\ NoDraft.at = "build"
  BY RoomStreamAssumption DEF NoDraft
<1>6. draft' \in [Publishers -> [at : {"build", "audience", "send", "sent"},
                                 version : 0..MaxVersion, to : SUBSET Users]]
  BY <1>1, <1>5 DEF JobsOK
<1>7. JobsOK'
  BY <1>1, <1>2, <1>3, <1>4, <1>5, <1>6 DEF JobsOK, Busy, Job
<1> QED BY <1>1, <1>2, <1>3, <1>7

LEMMA DroppingTypes ==
    ASSUME TypeInv, NEW p \in Publishers, Dropping(p)
    PROVE  TypeInv'
<1> USE DEF TypeInv
<1>0. UNCHANGED <<bus, data, conn>> /\ JobsOK'
  BY Frames, DropChanges
<1>1. \A c \in Conns : jobs[c] = << >> => jobs'[c] = << >>
  <2>1. Conns \subseteq Publishers
    BY RoomStreamAssumption
  <2> QED BY <2>1, DropChanges DEF Busy
<1>2. ConnOK'
  BY <1>0, <1>1 DEF ConnOK, bus
<1> QED BY <1>0, <1>2 DEF DataOK, RegistryOK, BoxOK, SendOK, Serving, bus, data

-----------------------------------------------------------------------------
(* A request that changes a room                                           *)

\* What it leaves its handler to do.
LEMMA RequestJobs ==
    ASSUME NEW h \in Handlers, NEW r \in Rooms, Requesting(h, r)
    PROVE  ~Busy(h) /\ \E todo \in Seq(AJob) : jobs' = [jobs EXCEPT ![h] = todo]
<1>1. CASE UpdateRoom(h, r)
  <2>1. <<Updated(r, None)>> \in Seq(AJob)
    BY JobTypes
  <2> QED BY <1>1, <2>1 DEF UpdateRoom, Commit
<1>2. CASE \E u \in Users : \/ JoinRoom(h, u, r) \/ LookIn(h, u, r) \/ LeaveRoom(h, u, r)
                            \/ UpdateMine(h, u, r) \/ JoinLive(h, u, r) \/ LeaveLive(h, u, r)
  <2> PICK u \in Users : \/ JoinRoom(h, u, r) \/ LookIn(h, u, r) \/ LeaveRoom(h, u, r)
                         \/ UpdateMine(h, u, r) \/ JoinLive(h, u, r) \/ LeaveLive(h, u, r)
    BY <1>2
  <2>0. /\ Updated(r, None) \in AJob /\ Updated(r, u) \in AJob /\ Live(r) \in AJob
        /\ Added(r, u) \in AJob /\ Deleted(r, u) \in AJob /\ Interest(r, u) \in AJob
    BY JobTypes
  <2> DEFINE first == <<Deleted(r, u), Updated(r, None)>>
             last == IF <<u, r>> \in talking THEN <<Live(r)>> ELSE << >>
  <2>a. /\ <<Added(r, u), Updated(r, u)>> \in Seq(AJob) /\ <<Interest(r, u)>> \in Seq(AJob)
        /\ <<Added(r, u)>> \in Seq(AJob)
        /\ <<Interest(r, u), Live(r), Updated(r, None)>> \in Seq(AJob)
        /\ <<Updated(r, None), Live(r)>> \in Seq(AJob)
    BY <2>0
  <2>b. first \in Seq(AJob) /\ last \in Seq(AJob)
    BY <2>0
  <2>c. first \o last \in Seq(AJob)
    BY <2>b
  <2>1. CASE JoinRoom(h, u, r)
    BY <2>a, <2>1 DEF JoinRoom, Commit
  <2>2. CASE LookIn(h, u, r)
    BY <2>a, <2>2 DEF LookIn
  <2>3. CASE LeaveRoom(h, u, r)
    BY <2>c, <2>3 DEF LeaveRoom, Commit
  <2>4. CASE UpdateMine(h, u, r)
    BY <2>a, <2>4 DEF UpdateMine
  <2>5. CASE JoinLive(h, u, r)
    BY <2>a, <2>5 DEF JoinLive, Commit
  <2>6. CASE LeaveLive(h, u, r)
    BY <2>a, <2>6 DEF LeaveLive, Commit
  <2> QED BY <2>1, <2>2, <2>3, <2>4, <2>5, <2>6
<1> QED BY <1>1, <1>2 DEF Requesting

\* New jobs for a publisher that had none.
LEMMA NewJobs ==
    ASSUME JobsOK, NEW p \in Publishers, ~Busy(p), NEW todo \in Seq(AJob),
           jobs' = [jobs EXCEPT ![p] = todo], UNCHANGED <<draft, sending>>
    PROVE  JobsOK'
<1>1. draft[p] = NoDraft /\ sending[p] = Nothing /\ NoDraft.at = "build"
  BY DEF JobsOK, NoDraft
<1>2. \A q \in Publishers : q # p => jobs'[q] = jobs[q]
  BY DEF JobsOK
<1>3. jobs' \in [Publishers -> Seq(AJob)]
  BY DEF JobsOK
<1> QED BY <1>1, <1>2, <1>3 DEF JobsOK, Busy, Job

LEMMA RequestingTypes ==
    ASSUME TypeInv, NEW h \in Handlers, NEW r \in Rooms, Requesting(h, r)
    PROVE  TypeInv'
<1> USE DEF TypeInv
<1>0. UNCHANGED <<bus, conn, draft>> /\ h \in Publishers /\ h \notin Conns
  BY Frames, RoomStreamAssumption
<1>1. JobsOK'
  BY <1>0, RequestJobs, NewJobs DEF bus
<1>2. \A c \in Conns : jobs'[c] = jobs[c]
  <2>1. Conns \subseteq Publishers
    BY RoomStreamAssumption
  <2> QED BY <1>0, <2>1, RequestJobs DEF JobsOK
<1>3. DataOK'
  BY DataStep
<1>4. ConnOK' /\ RegistryOK' /\ BoxOK' /\ SendOK'
  BY <1>0, <1>2 DEF ConnOK, RegistryOK, BoxOK, SendOK, Serving, bus
<1> QED BY <1>1, <1>3, <1>4

\* Whoever gets a job of an unannounced change had none.
LEMMA QuietJobs ==
    ASSUME TypeInv, Unannounced
    PROVE  \E h : /\ UNCHANGED jobs \/ (h \in Handlers /\ ~Busy(h))
                  /\ \A p \in Publishers : p # h => jobs'[p] = jobs[p]
<1>1. CASE UNCHANGED jobs
  BY <1>1
<1>2. CASE \E h \in Handlers, r \in Rooms : ~Busy(h) /\ jobs' = [jobs EXCEPT ![h] = <<Live(r)>>]
  BY <1>2 DEF TypeInv, JobsOK
<1> QED BY <1>1, <1>2, QuietChanges DEF TypeInv

LEMMA UnannouncedTypes ==
    ASSUME TypeInv, Unannounced
    PROVE  TypeInv'
<1> USE DEF TypeInv
<1>0. UNCHANGED <<bus, conn, draft>>
  BY Frames
<1>1. JobsOK'
  <2>1. CASE UNCHANGED jobs
    BY <1>0, <2>1 DEF JobsOK, Busy, Job, bus
  <2>2. ASSUME NEW h \in Handlers, NEW r \in Rooms, ~Busy(h), jobs' = [jobs EXCEPT ![h] = <<Live(r)>>]
        PROVE  JobsOK'
    <3>1. h \in Publishers /\ <<Live(r)>> \in Seq(AJob)
      BY JobTypes, RoomStreamAssumption
    <3> QED BY <1>0, <2>2, <3>1, NewJobs DEF bus
  <2> QED BY <2>1, <2>2, QuietChanges
<1>2. \A c \in Conns : jobs'[c] = jobs[c]
  <2>1. Conns \subseteq Publishers /\ \A c \in Conns : c \notin Handlers
    BY RoomStreamAssumption
  <2> QED BY <2>1, QuietJobs
<1>3. ConnOK' /\ RegistryOK' /\ BoxOK' /\ SendOK'
  BY <1>0, <1>2 DEF ConnOK, RegistryOK, BoxOK, SendOK, Serving, bus
<1> QED BY <1>1, <1>3, QuietData

-----------------------------------------------------------------------------
(* The stream of a connection                                              *)

\* A goroutine that goes on changes its own entry and jobs only.
LEMMA StreamJobs ==
    ASSUME TypeInv, NEW c \in Conns, Streaming(c)
    PROVE  /\ JobsOK'
           /\ UNCHANGED jobs \/ ~Busy(c)
           /\ \A p \in Publishers \ {c} : jobs'[p] = jobs[p]
<1> USE DEF TypeInv
<1>0. UNCHANGED <<draft, sending>> /\ c \in Publishers
  BY Frames, RoomStreamAssumption
<1>1. CASE UNCHANGED jobs
  BY <1>0, <1>1 DEF JobsOK, Busy, Job
<1>2. CASE ~Busy(c) /\ \E todo \in Seq(AJob) : jobs' = [jobs EXCEPT ![c] = todo]
  <2>1. JobsOK'
    BY <1>0, <1>2, NewJobs
  <2> QED BY <1>2, <2>1 DEF JobsOK
<1>3. CASE SetInterest(c) \/ LeaveBus(c)
  <2>1. conn[c].rooms \in SUBSET Rooms /\ ~Busy(c)
    BY <1>3 DEF SetInterest, LeaveBus, ConnOK, Busy
  <2>2. << >> \in Seq(AJob) /\ UpdateAll(conn[c].rooms) \in Seq(AJob)
    BY <2>1, UpdateAllOK
  <2> QED BY <1>2, <1>3, <2>1, <2>2 DEF SetInterest, LeaveBus
<1>4. CASE ~SetInterest(c) /\ ~LeaveBus(c)
  BY <1>1, <1>4 DEF Streaming, OpenStream, SubscribeStream, FetchRooms, ReadEvent, HangUp, bus
<1> QED BY <1>3, <1>4

\* What a goroutine's step does to its entry.
LEMMA StreamConn ==
    ASSUME TypeInv, NEW c \in Conns, Streaming(c)
    PROVE  /\ conn' \in [Conns -> [at : {"off", "loaded", "subscribed", "open", "closing", "gone"},
                                   user : Users \cup {None}, rooms : SUBSET Rooms, fetched : BOOLEAN]]
           /\ \A d \in Conns \ {c} : conn'[d] = conn[d]
           /\ conn[c].at # "off" => conn'[c].user = conn[c].user /\ conn'[c].at # "off"
           /\ conn'[c].at # "off" => conn'[c].user \in Users
<1> USE DEF TypeInv
<1> DEFINE A == {"off", "loaded", "subscribed", "open", "closing", "gone"}
           C == [at : A, user : Users \cup {None}, rooms : SUBSET Rooms, fetched : BOOLEAN]
<1>0. conn \in [Conns -> C] /\ (conn[c].at # "off" => conn[c].user \in Users)
  BY DEF ConnOK
<1>1. CASE \E u \in Watchers : OpenStream(c, u)
  <2> PICK u \in Watchers : OpenStream(c, u)
    BY <1>1
  <2>1. u \in Users
    BY RoomStreamAssumption
  <2>2. RoomsOf(u) \in SUBSET Rooms
    BY DEF RoomsOf
  <2> DEFINE e == [conn[c] EXCEPT !.at = "loaded", !.user = u, !.rooms = RoomsOf(u)]
  <2>3. conn[c].at = "off" /\ conn' = [conn EXCEPT ![c] = e]
    BY DEF OpenStream
  <2>4. e \in C /\ e.user = u /\ e.at = "loaded"
    BY <1>0, <2>1, <2>2
  <2> HIDE DEF e
  <2> QED BY <1>0, <2>1, <2>3, <2>4
<1>2. CASE \E a \in A \ {"off"} : conn[c].at # "off" /\ Goto(c, a)
  BY <1>0, <1>2 DEF Goto
<1>3. CASE FetchRooms(c)
  <2>1. conn' = [conn EXCEPT ![c].fetched = TRUE] /\ conn[c].at = "open"
    BY <1>3 DEF FetchRooms
  <2> QED BY <1>0, <2>1
<1>4. CASE ReadEvent(c)
  BY <1>0, <1>4 DEF ReadEvent
<1>5. CASE SubscribeStream(c) \/ SetInterest(c) \/ HangUp(c) \/ LeaveBus(c)
  BY <1>2, <1>5 DEF SubscribeStream, SetInterest, HangUp, LeaveBus
<1> QED BY <1>1, <1>3, <1>4, <1>5 DEF Streaming


\* A stream that serves as before, for the same user.
LEMMA StreamServes ==
    ASSUME TypeInv, NEW c \in Conns, Streaming(c), UNCHANGED bus,
           conn'[c].at \in {"off", "loaded"} <=> conn[c].at \in {"off", "loaded"},
           conn'[c].at \in {"closing", "gone"} <=> conn[c].at \in {"closing", "gone"},
           Serving(c)' <=> Serving(c),
           conn[c].at \notin {"off", "loaded"} => conn'[c].user = conn[c].user
    PROVE  RegistryOK'
<1>1. /\ \A d \in Conns : conn'[d].at \in {"off", "loaded"} <=> conn[d].at \in {"off", "loaded"}
      /\ \A d \in Conns : conn'[d].at \in {"closing", "gone"} <=> conn[d].at \in {"closing", "gone"}
      /\ \A d \in Conns : Serving(d)' <=> Serving(d)
      /\ \A d \in Conns : conn[d].at \notin {"off", "loaded"} => conn'[d].user = conn[d].user
  BY StreamConn DEF Serving
<1>2. /\ owner = [d \in Conns |-> IF conn'[d].at \in {"off", "loaded"} THEN None ELSE conn'[d].user]
      /\ closed = [d \in Conns |-> conn'[d].at \in {"closing", "gone"}]
      /\ byRoom = [r \in Rooms |-> {d \in Conns : Serving(d)' /\ r \in interest[d]}]
  BY <1>1 DEF RegistryOK, TypeInv
<1>3. byUser = [u \in Users |-> {d \in Conns : Serving(d)' /\ conn'[d].user = u}]
  <2>1. \A d \in Conns, u \in Users : Serving(d)' /\ conn'[d].user = u <=> Serving(d) /\ conn[d].user = u
    BY <1>1 DEF Serving
  <2> QED BY <2>1 DEF RegistryOK, TypeInv
<1> QED BY <1>2, <1>3 DEF RegistryOK, TypeInv, bus

LEMMA SubscribeRegistry ==
    ASSUME TypeInv, NEW c \in Conns, SubscribeStream(c)
    PROVE  RegistryOK' /\ UNCHANGED interest
<1> USE DEF TypeInv
<1> DEFINE v == conn[c].user
<1>1. /\ conn[c].at = "loaded" /\ v \in Users /\ interest[c] = {}
      /\ UNCHANGED <<interest, byRoom, closed>>
      /\ owner' = [owner EXCEPT ![c] = v]
      /\ byUser' = [byUser EXCEPT ![v] = @ \cup {c}]
  BY DEF SubscribeStream, Subscribe, ConnOK
<1>2. /\ conn' = [conn EXCEPT ![c].at = "subscribed"]
      /\ conn'[c].at = "subscribed" /\ conn'[c].user = v
      /\ \A d \in Conns : d # c => conn'[d] = conn[d]
  BY DEF SubscribeStream, Goto, ConnOK
<1> HIDE DEF v
<1>3. \A d \in Conns : Serving(d)' <=> Serving(d) \/ d = c
  BY <1>1, <1>2 DEF Serving
<1>4. owner' = [d \in Conns |-> IF conn'[d].at \in {"off", "loaded"} THEN None ELSE conn'[d].user]
  BY <1>1, <1>2 DEF RegistryOK
<1>5. closed' = [d \in Conns |-> conn'[d].at \in {"closing", "gone"}]
  BY <1>1, <1>2 DEF RegistryOK
<1>6. byUser' = [u \in Users |-> {d \in Conns : Serving(d)' /\ conn'[d].user = u}]
  <2>1. ASSUME NEW u \in Users PROVE byUser'[u] = {d \in Conns : Serving(d)' /\ conn'[d].user = u}
    <3>1. byUser[u] = {d \in Conns : Serving(d) /\ conn[d].user = u}
      BY DEF RegistryOK
    <3>2. byUser'[u] = IF u = v THEN byUser[u] \cup {c} ELSE byUser[u]
      BY <1>1 DEF RegistryOK
    <3>3. ~Serving(c)
      BY <1>1 DEF Serving
    <3>4. \A d \in Conns : d \in byUser'[u] <=> Serving(d)' /\ conn'[d].user = u
      BY <1>2, <1>3, <3>1, <3>2, <3>3
    <3>5. byUser'[u] \subseteq Conns
      BY <3>1, <3>2
    <3> QED BY <3>4, <3>5
  <2>2. byUser' = [u \in Users |-> byUser'[u]]
    BY <1>1 DEF RegistryOK
  <2> QED BY <2>1, <2>2
<1>7. byRoom' = [r \in Rooms |-> {d \in Conns : Serving(d)' /\ r \in interest'[d]}]
  <2>1. \A d \in Conns, r \in Rooms : Serving(d)' /\ r \in interest'[d] <=> Serving(d) /\ r \in interest[d]
    BY <1>1, <1>3
  <2> QED BY <1>1, <2>1 DEF RegistryOK
<1> QED BY <1>1, <1>4, <1>5, <1>6, <1>7 DEF RegistryOK

LEMMA SetInterestRegistry ==
    ASSUME TypeInv, NEW c \in Conns, SetInterest(c)
    PROVE  /\ RegistryOK'
           /\ \A d \in Conns : interest'[d] = IF d = c THEN conn[c].rooms ELSE interest[d]
<1> USE DEF TypeInv
<1> DEFINE rooms == conn[c].rooms
<1>1. /\ conn[c].at = "subscribed" /\ rooms \in SUBSET Rooms
      /\ UNCHANGED <<owner, byUser, closed>>
      /\ interest' = [interest EXCEPT ![c] = rooms]
      /\ byRoom' = [r \in Rooms |-> IF r \in interest[c] \ rooms THEN byRoom[r] \ {c}
                                    ELSE IF r \in rooms \ interest[c] THEN byRoom[r] \cup {c}
                                    ELSE byRoom[r]]
  BY DEF SetInterest, SetRooms, ConnOK
<1>2. /\ conn'[c].at = "open" /\ conn'[c].user = conn[c].user
      /\ \A d \in Conns : d # c => conn'[d] = conn[d]
  BY DEF SetInterest, Goto, ConnOK
<1> HIDE DEF rooms
<1>3. \A d \in Conns : (Serving(d)' <=> Serving(d)) /\ conn'[d].user = conn[d].user
  BY <1>1, <1>2 DEF Serving
<1>4. /\ owner' = [d \in Conns |-> IF conn'[d].at \in {"off", "loaded"} THEN None ELSE conn'[d].user]
      /\ closed' = [d \in Conns |-> conn'[d].at \in {"closing", "gone"}]
  BY <1>1, <1>2 DEF RegistryOK
<1>5. byUser' = [u \in Users |-> {d \in Conns : Serving(d)' /\ conn'[d].user = u}]
  BY <1>1, <1>3 DEF RegistryOK
<1>6. \A d \in Conns : interest'[d] = IF d = c THEN rooms ELSE interest[d]
  BY <1>1 DEF RegistryOK
<1>7. byRoom' = [r \in Rooms |-> {d \in Conns : Serving(d)' /\ r \in interest'[d]}]
  <2>1. ASSUME NEW r \in Rooms PROVE byRoom'[r] = {d \in Conns : Serving(d)' /\ r \in interest'[d]}
    <3>1. byRoom[r] = {d \in Conns : Serving(d) /\ r \in interest[d]}
      BY DEF RegistryOK
    <3>2. Serving(c)
      BY <1>1 DEF Serving
    <3>3. /\ byRoom'[r] \subseteq Conns
          /\ \A d \in Conns : d \in byRoom'[r] <=> IF d = c THEN r \in rooms ELSE d \in byRoom[r]
      <4>1. byRoom'[r] = IF r \in interest[c] \ rooms THEN byRoom[r] \ {c}
                         ELSE IF r \in rooms \ interest[c] THEN byRoom[r] \cup {c}
                         ELSE byRoom[r]
        BY <1>1
      <4> QED BY <3>1, <3>2, <4>1
    <3> QED BY <1>3, <1>6, <3>1, <3>2, <3>3
  <2>2. byRoom' = [r \in Rooms |-> byRoom'[r]]
    BY <1>1
  <2> QED BY <2>1, <2>2
<1>8. interest' \in [Conns -> SUBSET Rooms]
  BY <1>1 DEF RegistryOK
<1> QED BY <1>4, <1>5, <1>6, <1>7, <1>8 DEF RegistryOK, rooms

LEMMA LeaveBusRegistry ==
    ASSUME TypeInv, NEW c \in Conns, LeaveBus(c)
    PROVE  RegistryOK' /\ UNCHANGED interest
<1> USE DEF TypeInv
<1>1. /\ conn[c].at = "closing" /\ owner[c] = conn[c].user /\ conn[c].user \in Users
      /\ UNCHANGED <<interest, owner, closed>>
      /\ byUser' = [byUser EXCEPT ![owner[c]] = @ \ {c}]
      /\ byRoom' = [r \in Rooms |-> IF r \in interest[c] THEN byRoom[r] \ {c} ELSE byRoom[r]]
  BY DEF LeaveBus, Unregister, ConnOK, RegistryOK
<1>2. /\ conn'[c].at = "gone" /\ conn'[c].user = conn[c].user
      /\ \A d \in Conns : d # c => conn'[d] = conn[d]
  BY DEF LeaveBus, Goto, ConnOK
<1>3. \A d \in Conns : (Serving(d)' <=> Serving(d) /\ d # c) /\ conn'[d].user = conn[d].user
  BY <1>1, <1>2 DEF Serving
<1>4. /\ owner' = [d \in Conns |-> IF conn'[d].at \in {"off", "loaded"} THEN None ELSE conn'[d].user]
      /\ closed' = [d \in Conns |-> conn'[d].at \in {"closing", "gone"}]
  BY <1>1, <1>2 DEF RegistryOK
<1>5. byUser' = [u \in Users |-> {d \in Conns : Serving(d)' /\ conn'[d].user = u}]
  <2>1. ASSUME NEW u \in Users PROVE byUser'[u] = {d \in Conns : Serving(d)' /\ conn'[d].user = u}
    <3>1. byUser[u] = {d \in Conns : Serving(d) /\ conn[d].user = u}
      BY DEF RegistryOK
    <3>2. byUser'[u] = IF u = conn[c].user THEN byUser[u] \ {c} ELSE byUser[u]
      BY <1>1 DEF RegistryOK
    <3>3. \A d \in Conns : d \in byUser'[u] <=> Serving(d)' /\ conn'[d].user = u
      BY <1>3, <3>1, <3>2
    <3> QED BY <3>1, <3>2, <3>3
  <2>2. byUser' = [u \in Users |-> byUser'[u]]
    BY <1>1 DEF RegistryOK
  <2> QED BY <2>1, <2>2
<1>6. byRoom' = [r \in Rooms |-> {d \in Conns : Serving(d)' /\ r \in interest'[d]}]
  <2>1. ASSUME NEW r \in Rooms PROVE byRoom'[r] = {d \in Conns : Serving(d)' /\ r \in interest'[d]}
    <3>1. byRoom[r] = {d \in Conns : Serving(d) /\ r \in interest[d]}
      BY DEF RegistryOK
    <3>2. byRoom'[r] = IF r \in interest[c] THEN byRoom[r] \ {c} ELSE byRoom[r]
      BY <1>1
    <3> QED BY <1>1, <1>3, <3>1, <3>2
  <2> QED BY <1>1, <2>1
<1> QED BY <1>1, <1>4, <1>5, <1>6 DEF RegistryOK

LEMMA StreamingTypes ==
    ASSUME TypeInv, NEW c \in Conns, Streaming(c)
    PROVE  TypeInv'
<1> USE DEF TypeInv
<1>0. UNCHANGED <<data, draft, sending, listening, missed>>
  BY Frames
<1>1. DataOK'
  BY <1>0 DEF DataOK, data
<1>2. CASE \E u \in Watchers : OpenStream(c, u)
  <2>1. /\ UNCHANGED bus /\ UNCHANGED jobs /\ conn[c].at = "off"
        /\ conn'[c].at = "loaded" /\ conn'[c].fetched = conn[c].fetched
    BY <1>2 DEF OpenStream, ConnOK
  <2>2. RegistryOK'
    BY <2>1, StreamServes DEF Serving
  <2>3. ConnOK'
    BY <2>1, StreamConn DEF ConnOK, bus
  <2>4. BoxOK' /\ SendOK'
    BY <1>0, <2>1, StreamConn DEF BoxOK, SendOK, bus
  <2> QED BY <1>1, <2>2, <2>3, <2>4, StreamJobs
<1>3. CASE SubscribeStream(c)
  <2>1. /\ UNCHANGED <<events, jobs>> /\ conn[c].at = "loaded"
        /\ conn'[c].at = "subscribed" /\ conn'[c].fetched = conn[c].fetched
    BY <1>3 DEF SubscribeStream, Goto, Subscribe, ConnOK
  <2>2. RegistryOK' /\ UNCHANGED interest
    BY <1>3, SubscribeRegistry
  <2>3. ConnOK'
    BY <2>1, <2>2, StreamConn DEF ConnOK
  <2>4. BoxOK' /\ SendOK'
    BY <1>0, <2>1, StreamConn DEF BoxOK, SendOK
  <2> QED BY <1>1, <2>2, <2>3, <2>4, StreamJobs
<1>4. CASE SetInterest(c)
  <2>1. /\ UNCHANGED events /\ conn[c].at = "subscribed"
        /\ conn'[c].at = "open" /\ conn'[c].fetched = conn[c].fetched
    BY <1>4 DEF SetInterest, Goto, SetRooms, ConnOK
  <2>2. RegistryOK' /\ \A d \in Conns \ {c} : interest'[d] = interest[d]
    BY <1>4, SetInterestRegistry
  <2>3. ConnOK'
    BY <2>1, <2>2, StreamConn, StreamJobs, RoomStreamAssumption DEF ConnOK
  <2>4. BoxOK' /\ SendOK'
    BY <1>0, <2>1, StreamConn DEF BoxOK, SendOK
  <2> QED BY <1>1, <2>2, <2>3, <2>4, StreamJobs
<1>5. CASE FetchRooms(c)
  <2>1. /\ UNCHANGED bus /\ UNCHANGED jobs /\ conn[c].at = "open"
        /\ conn'[c].at = "open" /\ conn'[c].user = conn[c].user
    BY <1>5 DEF FetchRooms, ConnOK
  <2>2. RegistryOK'
    BY <2>1, StreamServes DEF Serving
  <2>3. ConnOK'
    BY <2>1, StreamConn DEF ConnOK, bus
  <2>4. BoxOK' /\ SendOK'
    BY <1>0, <2>1, StreamConn DEF BoxOK, SendOK, bus
  <2> QED BY <1>1, <2>2, <2>3, <2>4, StreamJobs
<1>6. CASE ReadEvent(c)
  <2>1. /\ UNCHANGED <<conn, jobs, owner, interest, byUser, byRoom, closed>>
        /\ events[c] # << >> /\ events' = [events EXCEPT ![c] = Tail(@)]
    BY <1>6 DEF ReadEvent, Receive
  <2>2. /\ Tail(events[c]) \in Seq(AnEvent) /\ Len(Tail(events[c])) <= BufferSize
    <3>1. events[c] \in Seq(AnEvent) /\ Len(events[c]) <= BufferSize /\ BufferSize \in Nat
      BY RoomStreamAssumption DEF BoxOK
    <3>2. Tail(events[c]) \in Seq(AnEvent) /\ Len(Tail(events[c])) = Len(events[c]) - 1
      BY <2>1, <3>1
    <3> QED BY <3>1, <3>2
  <2>3. BoxOK'
    BY <2>1, <2>2 DEF BoxOK
  <2>4. ConnOK' /\ RegistryOK' /\ SendOK'
    BY <1>0, <2>1 DEF ConnOK, RegistryOK, SendOK, Serving
  <2> QED BY <1>1, <2>3, <2>4, StreamJobs
<1>7. CASE HangUp(c)
  <2>1. /\ UNCHANGED <<events, jobs, interest, owner, byUser, byRoom>> /\ conn[c].at = "open"
        /\ conn'[c].at = "closing" /\ conn'[c].fetched = conn[c].fetched /\ ~Busy(c)
        /\ conn'[c].user = conn[c].user /\ closed' = [closed EXCEPT ![c] = TRUE]
    BY <1>7 DEF HangUp, Goto, CloseChannel, ConnOK
  <2>2. RegistryOK'
    <3>1. \A d \in Conns \ {c} : conn'[d] = conn[d]
      BY StreamConn
    <3>2. \A d \in Conns : (Serving(d)' <=> Serving(d)) /\ conn'[d].user = conn[d].user
      BY <2>1, <3>1 DEF Serving
    <3>3. /\ owner' = [d \in Conns |-> IF conn'[d].at \in {"off", "loaded"} THEN None ELSE conn'[d].user]
          /\ closed' = [d \in Conns |-> conn'[d].at \in {"closing", "gone"}]
      BY <2>1, <3>1 DEF RegistryOK
    <3>4. /\ byUser' = [u \in Users |-> {d \in Conns : Serving(d)' /\ conn'[d].user = u}]
          /\ byRoom' = [r \in Rooms |-> {d \in Conns : Serving(d)' /\ r \in interest'[d]}]
      BY <2>1, <3>2 DEF RegistryOK
    <3> QED BY <2>1, <3>3, <3>4 DEF RegistryOK
  <2>3. ConnOK'
    BY <2>1, StreamConn DEF ConnOK, Busy
  <2>4. BoxOK' /\ SendOK'
    BY <1>0, <2>1, StreamConn DEF BoxOK, SendOK
  <2> QED BY <1>1, <2>2, <2>3, <2>4, StreamJobs
<1>8. CASE LeaveBus(c)
  <2>1. /\ UNCHANGED events /\ conn[c].at = "closing"
        /\ conn'[c].at = "gone" /\ conn'[c].fetched = conn[c].fetched
    BY <1>8 DEF LeaveBus, Goto, Unregister, ConnOK
  <2>2. RegistryOK' /\ UNCHANGED interest
    BY <1>8, LeaveBusRegistry
  <2>3. ConnOK'
    BY <2>1, <2>2, StreamConn, StreamJobs, RoomStreamAssumption DEF ConnOK
  <2>4. BoxOK' /\ SendOK'
    BY <1>0, <2>1, StreamConn DEF BoxOK, SendOK
  <2> QED BY <1>1, <2>2, <2>3, <2>4, StreamJobs
<1> QED BY <1>2, <1>3, <1>4, <1>5, <1>6, <1>7, <1>8 DEF Streaming

-----------------------------------------------------------------------------
(* Types                                                                   *)

LEMMA TypeInit == Init => TypeInv
<1> SUFFICES ASSUME Init PROVE TypeInv
  OBVIOUS
<1> USE RoomStreamAssumption DEF Init, BusInit
<1>1. DataOK
  BY DEF DataOK
<1>2. ConnOK
  BY DEF ConnOK
<1>3. RegistryOK
  <2>1. \A c \in Conns : conn[c].at = "off" /\ ~Serving(c)
    BY DEF Serving
  <2>2. /\ owner = [c \in Conns |-> IF conn[c].at \in {"off", "loaded"} THEN None ELSE conn[c].user]
        /\ closed = [c \in Conns |-> conn[c].at \in {"closing", "gone"}]
    <3>1. owner = [c \in Conns |-> IF conn[c].at \in {"off", "loaded"} THEN None ELSE conn[c].user]
      BY <2>1
    <3>2. closed = [c \in Conns |-> FALSE] /\ \A c \in Conns : (conn[c].at \in {"closing", "gone"}) = FALSE
      BY <2>1
    <3>3. closed = [c \in Conns |-> conn[c].at \in {"closing", "gone"}]
      BY <3>2, Zenon
    <3> QED BY <3>1, <3>3
  <2>3. byUser = [u \in Users |-> {c \in Conns : Serving(c) /\ conn[c].user = u}]
    <3>1. \A u \in Users : {c \in Conns : Serving(c) /\ conn[c].user = u} = {}
      BY <2>1
    <3> QED BY <3>1
  <2>4. byRoom = [r \in Rooms |-> {c \in Conns : Serving(c) /\ r \in interest[c]}]
    <3>1. \A r \in Rooms : {c \in Conns : Serving(c) /\ r \in interest[c]} = {}
      BY <2>1
    <3> QED BY <3>1
  <2> QED BY <2>2, <2>3, <2>4 DEF RegistryOK
<1>4. BoxOK
  BY DEF BoxOK
<1>5. SendOK
  BY DEF SendOK, Nothing
<1>6. JobsOK
  BY DEF JobsOK, NoDraft, Busy
<1> QED BY <1>1, <1>2, <1>3, <1>4, <1>5, <1>6 DEF TypeInv

LEMMA TypeNext == TypeInv /\ [Next]_vars => TypeInv'
<1> SUFFICES ASSUME TypeInv, [Next]_vars PROVE TypeInv'
  OBVIOUS
<1>1. CASE Next
  BY <1>1, StepTakers, PublishingTypes, DroppingTypes, RequestingTypes, UnannouncedTypes, StreamingTypes
<1>2. CASE UNCHANGED vars
  BY <1>2 DEF vars, bus, data, TypeInv, DataOK, ConnOK, RegistryOK, BoxOK, SendOK, JobsOK, Serving,
              Busy, Job
<1> QED BY <1>1, <1>2

LEMMA TypeImplies == TypeInv => TypeOK
<1> SUFFICES ASSUME TypeInv PROVE TypeOK
  OBVIOUS
<1> USE DEF TypeInv
<1>1. \A c \in Conns : Registered(c) <=> Serving(c)
  BY DEF Registered, RegistryOK, ConnOK, Serving
<1>2. /\ owner \in [Conns -> Users \cup {None}] /\ closed \in [Conns -> BOOLEAN]
      /\ \A u \in Users : \A c \in byUser[u] : owner[c] = u
      /\ \A c \in Conns : owner[c] # None /\ ~closed[c] => Serving(c)
  <2>1. \A c \in Conns : conn[c].at # "off" => conn[c].user \in Users
    BY DEF ConnOK
  <2>2. \A c \in Conns : conn[c].at \in {"off", "loaded", "subscribed", "open", "closing", "gone"}
    BY DEF ConnOK
  <2>3. \A c \in Conns : /\ owner[c] = IF conn[c].at \in {"off", "loaded"} THEN None ELSE conn[c].user
                         /\ closed[c] = (conn[c].at \in {"closing", "gone"})
    BY DEF RegistryOK
  <2>4. DOMAIN owner = Conns /\ owner = [c \in Conns |-> owner[c]]
        /\ DOMAIN closed = Conns /\ closed = [c \in Conns |-> closed[c]]
    BY DEF RegistryOK
  <2>5. \A u \in Users : \A c \in byUser[u] : c \in Conns /\ Serving(c) /\ conn[c].user = u
    BY DEF RegistryOK
  <2>6. owner \in [Conns -> Users \cup {None}] /\ closed \in [Conns -> BOOLEAN]
    <3>1. owner \in [Conns -> Users \cup {None}]
      BY <2>1, <2>3, <2>4
    <3>2. closed \in [Conns -> BOOLEAN]
      <4>1. \A c \in Conns : (conn[c].at \in {"closing", "gone"}) \in BOOLEAN
        OBVIOUS
      <4>2. closed = [c \in Conns |-> conn[c].at \in {"closing", "gone"}]
        BY DEF RegistryOK
      <4> QED BY <4>1, <4>2, Zenon
    <3> QED BY <3>1, <3>2
  <2>7. \A u \in Users : \A c \in byUser[u] : owner[c] = u
    BY <2>3, <2>5 DEF Serving
  <2>8. \A c \in Conns : owner[c] # None /\ ~closed[c] => Serving(c)
    BY <2>2, <2>3 DEF Serving
  <2> QED BY <2>6, <2>7, <2>8
<1>3. \A r \in Rooms : byRoom[r] = {c \in Conns : Registered(c) /\ r \in interest[c]}
  BY <1>1 DEF RegistryOK
<1>4. BusTypeOK
  BY <1>1, <1>2, <1>3 DEF BusTypeOK, RegistryOK, BoxOK, SendOK
<1> QED BY <1>1, <1>4 DEF TypeOK, DataOK, JobsOK, Serving

\* In every state the registry of the bus and its two indexes agree, each stream
\* is registered just while its goroutine serves, and the tables and the
\* publishers' states have their types (bus.go, stream.go, room_stream.go).
THEOREM TypeCorrect == Spec => []TypeOK
<1>1. Spec => []TypeInv
  BY TypeInit, TypeNext, PTL DEF Spec
<1> QED BY <1>1, TypeImplies, PTL

-----------------------------------------------------------------------------
(* Nothing is newer than the tables                                        *)

LEMMA MaxOfTwo ==
    ASSUME NEW a \in Nat, NEW b \in Nat
    PROVE  Max({a, b}) = IF a >= b THEN a ELSE b
<1> DEFINE m == IF a >= b THEN a ELSE b
<1>1. m \in {a, b} /\ \A y \in {a, b} : m >= y
  OBVIOUS
<1>2. \A x \in {a, b} : (\A y \in {a, b} : x >= y) => x = m
  OBVIOUS
<1> HIDE DEF m
<1>3. Max({a, b}) = m
  BY <1>1, <1>2 DEF Max
<1> QED BY <1>3 DEF m

\* The tables only ever get newer.
LEMMA Grows ==
    ASSUME TypeInv, Next
    PROVE  \A r \in Rooms : version[r] <= version'[r] /\ \A u \in Users : mine[u][r] <= mine'[u][r]
<1>1. /\ \A r \in Rooms : version[r] \in Nat
      /\ \A r \in Rooms, u \in Users : mine[u][r] \in Nat
  BY RoomStreamAssumption DEF TypeInv, DataOK
<1>2. CASE UNCHANGED data
  BY <1>1, <1>2 DEF data
<1>3. ASSUME NEW h \in Handlers, NEW q \in Rooms, Requesting(h, q), ~UNCHANGED data
      PROVE  \A r \in Rooms : version[r] <= version'[r] /\ \A u \in Users : mine[u][r] <= mine'[u][r]
  <2>1. CASE \E u \in Users : UpdateMine(h, u, q)
    BY <1>1, <2>1 DEF UpdateMine, TypeInv, DataOK
  <2>2. CASE ~\E u \in Users : UpdateMine(h, u, q)
    <3>1. version' = [version EXCEPT ![q] = @ + 1] /\ UNCHANGED mine
      BY <1>3, <2>2 DEF Requesting, UpdateRoom, JoinRoom, LookIn, LeaveRoom, JoinLive, LeaveLive, Commit
    <3> QED BY <1>1, <3>1 DEF TypeInv, DataOK
  <2> QED BY <2>1, <2>2
<1>4. CASE Unannounced
  <2>1. UNCHANGED mine
    BY <1>4, Frames
  <2> QED BY <1>1, <1>4, <2>1, QuietData DEF TypeInv
<1> QED BY <1>2, <1>3, <1>4, StepTakers, Frames

\* What a publisher that goes on has in its draft afterwards.
LEMMA PublishingDraft ==
    ASSUME TypeInv, PastOK, NEW p \in Publishers, Publishing(p)
    PROVE  Busy(p)' => draft'[p].version <= version'[Job(p)'.room]
<1> USE DEF TypeInv
<1>0. UNCHANGED data /\ JobsOK' /\ Busy(p)
  BY Frames, PublishingJobs, OwnJobs
<1>1. \A r \in Rooms : version[r] \in Nat /\ version'[r] = version[r]
  BY <1>0, RoomStreamAssumption DEF DataOK, data
<1>2. SUFFICES ASSUME Busy(p)' PROVE draft'[p].version <= version'[Job(p)'.room]
  OBVIOUS
<1>3. Job(p)'.room \in Rooms
  <2>1. jobs'[p] \in Seq(AJob) /\ jobs'[p] # << >>
    BY <1>0, <1>2 DEF JobsOK, Busy
  <2>2. Head(jobs'[p]) \in AJob
    BY <2>1
  <2> QED BY <2>2 DEF Job, AJob
<1>4. NoDraft.version = 0
  BY DEF NoDraft
<1>5. CASE Build(p)
  <2>1. /\ draft'[p].version = IF Job(p).kind \in {"deleted", "live"} THEN 0 ELSE version[Job(p).room]
        /\ Job(p)' = Job(p)
    BY <1>5 DEF Build, JobsOK, Job
  <2> QED BY <1>1, <1>3, <2>1
<1>6. CASE AddInterest(p)
  <2>1. draft'[p] = NoDraft
    BY <1>6 DEF AddInterest, JobsOK
  <2> QED BY <1>1, <1>3, <1>4, <2>1
<1>7. CASE ~Build(p) /\ ~AddInterest(p)
  <2>1. PICK d : d.version = draft[p].version /\ Proceed(p, d)
    BY <1>7, JobsProceed
  <2>2. draft'[p] = NoDraft \/ (draft'[p] = d /\ jobs'[p] = jobs[p])
    BY <2>1, ProceedChanges
  <2>3. draft[p].version <= version[Job(p).room]
    BY <1>0 DEF PastOK
  <2> QED BY <1>1, <1>3, <1>4, <2>1, <2>2, <2>3 DEF Job
<1> QED BY <1>5, <1>6, <1>7

\* What it sends afterwards.
LEMMA PublishingEvents ==
    ASSUME TypeInv, PastOK, NEW p \in Publishers, Publishing(p)
    PROVE  \A q \in Publishers : \A c \in sending'[q].to :
              /\ sending'[q].event.version <= version[sending'[q].event.room]
              /\ sending'[q].event.mine <= mine[conn[c].user][sending'[q].event.room]
<1> USE DEF TypeInv
<1>1. CASE UNCHANGED sending
  BY <1>1 DEF PastOK
<1>2. CASE \E targets \in SUBSET Conns, e \in AnEvent :
              /\ Publish(p, targets, e) /\ \A c \in targets : Serving(c)
              /\ e.version <= version[e.room]
              /\ \A c \in targets : e.mine <= mine[conn[c].user][e.room]
  <2>1. PICK targets \in SUBSET Conns, e \in AnEvent :
              /\ Publish(p, targets, e) /\ \A c \in targets : Serving(c)
              /\ e.version <= version[e.room]
              /\ \A c \in targets : e.mine <= mine[conn[c].user][e.room]
    BY <1>2
  <2>2. sending'[p].to = targets /\ (targets # {} => sending'[p].event = e)
    BY <2>1, PublishOK
  <2>3. \A q \in Publishers : q # p => sending'[q] = sending[q]
    BY <2>1 DEF Publish, SendOK
  <2> QED BY <2>1, <2>2, <2>3 DEF PastOK
<1>3. \A c \in Conns : Serving(c) => conn[c].user \in Users
  BY DEF ConnOK, Serving
<1>4. \A u \in Users, r \in Rooms : mine[u][r] \in Nat
  BY RoomStreamAssumption DEF DataOK
<1>5. CASE SendLive(p)
  <2>1. Busy(p) /\ draft[p].at = "send" /\ Publish(p, byRoom[Job(p).room], Event(p))
    BY <1>5 DEF SendLive
  <2>2. Event(p) \in AnEvent /\ Job(p).room \in Rooms
    BY <2>1, EventOK, JobOK DEF AJob
  <2>3. byRoom[Job(p).room] \in SUBSET Conns /\ \A c \in byRoom[Job(p).room] : Serving(c)
    BY <2>2, TargetsServe
  <2>4. Event(p).version <= version[Event(p).room]
    BY <2>1 DEF PastOK, Event
  <2>5. \A c \in byRoom[Job(p).room] : Event(p).mine <= mine[conn[c].user][Event(p).room]
    BY <1>3, <1>4, <2>2, <2>3 DEF Event
  <2> QED BY <1>2, <2>1, <2>2, <2>3, <2>4, <2>5
<1>6. ASSUME NEW u \in Users, SendToUser(p, u) \/ SendBare(p, u)
      PROVE  \A q \in Publishers : \A c \in sending'[q].to :
              /\ sending'[q].event.version <= version[sending'[q].event.room]
              /\ sending'[q].event.mine <= mine[conn[c].user][sending'[q].event.room]
  <2>1. PICK e \in {Event(p), EventFor(p, u)} :
            Busy(p) /\ draft[p].at = "send" /\ Publish(p, byUser[u], e)
    BY <1>6 DEF SendToUser, SendBare
  <2>2. e \in AnEvent /\ Job(p).room \in Rooms
    BY <2>1, EventOK, JobOK DEF AJob
  <2>3. byUser[u] \in SUBSET Conns /\ \A c \in byUser[u] : Serving(c) /\ conn[c].user = u
    BY TargetsServe
  <2>4. e.version = draft[p].version /\ e.room = Job(p).room /\ e.mine \in {0, mine[u][Job(p).room]}
    BY <2>1 DEF EventFor, Event
  <2>5. e.version <= version[e.room]
    BY <2>1, <2>4 DEF PastOK
  <2>6. \A c \in byUser[u] : e.mine <= mine[conn[c].user][e.room]
    BY <1>4, <2>2, <2>3, <2>4
  <2> QED BY <1>2, <2>1, <2>2, <2>3, <2>5, <2>6
<1>7. ASSUME NEW d \in Conns, Hand(p, d)
      PROVE  \A q \in Publishers : \A c \in sending'[q].to :
              /\ sending'[q].event.version <= version[sending'[q].event.room]
              /\ sending'[q].event.mine <= mine[conn[c].user][sending'[q].event.room]
  <2>1. Deliver(p, d)
    BY <1>7 DEF Hand
  <2>2. ASSUME NEW q \in Publishers, NEW c \in sending'[q].to
        PROVE  c \in sending[q].to /\ sending'[q].event = sending[q].event
    BY <2>1, <2>2, DeliverSends DEF Nothing
  <2> QED BY <2>2 DEF PastOK
<1>8. Build(p) \/ Audience(p) \/ AddInterest(p) => UNCHANGED sending
  BY DEF Build, Audience, AddInterest, AddUserRoomInterest, bus
<1> QED BY <1>1, <1>5, <1>6, <1>7, <1>8 DEF Publishing

\* The delivery gives d the snapshot of r.
Gives(p, c, d, r) ==
    /\ d = c /\ ~closed[c] /\ r = sending[p].event.room
    /\ sending[p].event.kind \in {"added", "updated"}

\* What the client has after a delivery: the newer of both.
LEMMA HandLatest ==
    ASSUME TypeInv, PastOK, NEW p \in Publishers, NEW c \in Conns, Hand(p, c)
    PROVE  /\ latest' \in [Conns -> [Rooms -> [version : 0..MaxVersion, mine : 0..MaxVersion]]]
           /\ \A d \in Conns, r \in Rooms :
                 /\ Gives(p, c, d, r) =>
                       /\ latest'[d][r].version = Max({latest[d][r].version, sending[p].event.version})
                       /\ latest'[d][r].mine = Max({latest[d][r].mine, sending[p].event.mine})
                 /\ ~Gives(p, c, d, r) => latest'[d][r] = latest[d][r]
<1> USE DEF TypeInv
<1> DEFINE e == sending[p].event
           M == [version : 0..MaxVersion, mine : 0..MaxVersion]
           new == [version |-> Max({latest[c][e.room].version, e.version}),
                   mine |-> Max({latest[c][e.room].mine, e.mine})]
<1>1. e \in AnEvent
  BY DEF Hand, Deliver, SendOK
<1>2. latest \in [Conns -> [Rooms -> M]]
  BY DEF PastOK
<1>3. e.room \in Rooms /\ e.version \in 0..MaxVersion /\ e.mine \in 0..MaxVersion
  BY <1>1 DEF AnEvent
<1>4. latest[c][e.room] \in M
  BY <1>2, <1>3
<1>5. new \in M
  <2>1. \A a \in 0..MaxVersion, b \in 0..MaxVersion : Max({a, b}) \in 0..MaxVersion
    BY MaxOfTwo, RoomStreamAssumption
  <2> QED BY <1>3, <1>4, <2>1
<1>6. latest' = IF closed[c] \/ e.kind \notin {"added", "updated"} THEN latest
                ELSE [latest EXCEPT ![c][e.room] = new]
  BY DEF Hand
<1>7. new.version = Max({latest[c][e.room].version, e.version})
      /\ new.mine = Max({latest[c][e.room].mine, e.mine})
  OBVIOUS
<1> HIDE DEF e, new
<1>8. latest' \in [Conns -> [Rooms -> M]]
  BY <1>2, <1>3, <1>5, <1>6
<1>9. \A d \in Conns, r \in Rooms :
         latest'[d][r] = IF d = c /\ ~closed[c] /\ r = e.room /\ e.kind \in {"added", "updated"}
                         THEN new ELSE latest[d][r]
  BY <1>2, <1>3, <1>6
<1> QED BY <1>7, <1>8, <1>9 DEF e, Gives

LEMMA PublishingPast ==
    ASSUME TypeInv, PastOK, NEW p \in Publishers, Publishing(p)
    PROVE  PastOK'
<1> USE DEF TypeInv
<1>0. UNCHANGED <<data, conn>>
  BY Frames
<1>1. /\ latest' \in [Conns -> [Rooms -> [version : 0..MaxVersion, mine : 0..MaxVersion]]]
      /\ \A c \in Conns, r \in Rooms :
            /\ latest'[c][r].version <= version[r]
            /\ conn[c].at = "off" => latest'[c][r].mine = 0
            /\ conn[c].at # "off" => latest'[c][r].mine <= mine[conn[c].user][r]
  <2>1. CASE \E c \in Conns : Hand(p, c)
    <3> PICK c \in Conns : Hand(p, c)
      BY <2>1
    <3> DEFINE e == sending[p].event
    <3>1. /\ c \in sending[p].to /\ e \in AnEvent /\ conn[c].at # "off"
          /\ e.version <= version[e.room] /\ e.mine <= mine[conn[c].user][e.room]
      BY DEF Hand, Deliver, SendOK, PastOK
    <3>2. e.version \in Nat /\ e.mine \in Nat
      BY <3>1, RoomStreamAssumption DEF AnEvent
    <3> HIDE DEF e
    <3>3. ASSUME NEW d \in Conns, NEW r \in Rooms
          PROVE  /\ latest'[d][r].version <= version[r]
                 /\ conn[d].at = "off" => latest'[d][r].mine = 0
                 /\ conn[d].at # "off" => latest'[d][r].mine <= mine[conn[d].user][r]
      <4>1. /\ latest[d][r].version \in Nat /\ latest[d][r].mine \in Nat
            /\ latest[d][r].version <= version[r]
            /\ conn[d].at = "off" => latest[d][r].mine = 0
            /\ conn[d].at # "off" => latest[d][r].mine <= mine[conn[d].user][r]
        BY RoomStreamAssumption DEF PastOK
      <4>2. CASE Gives(p, c, d, r)
        <5>1. /\ latest'[d][r].version = Max({latest[d][r].version, e.version})
              /\ latest'[d][r].mine = Max({latest[d][r].mine, e.mine})
          BY <4>2, HandLatest DEF e
        <5>2. latest'[d][r].version \in {latest[d][r].version, e.version}
              /\ latest'[d][r].mine \in {latest[d][r].mine, e.mine}
          BY <3>2, <4>1, <5>1, MaxOfTwo
        <5> QED BY <3>1, <4>1, <4>2, <5>2 DEF Gives, e
      <4>3. CASE ~Gives(p, c, d, r)
        <5>1. latest'[d][r] = latest[d][r]
          BY <4>3, HandLatest
        <5> QED BY <4>1, <5>1
      <4> QED BY <4>2, <4>3
    <3> QED BY <3>3, HandLatest
  <2>2. CASE ~\E c \in Conns : Hand(p, c)
    <3>1. UNCHANGED latest
      BY <2>2 DEF Publishing, Build, Audience, SendLive, SendToUser, SendBare, AddInterest
    <3> QED BY <3>1 DEF PastOK
  <2> QED BY <2>1, <2>2
<1>2. \A q \in Publishers : Busy(q)' => draft'[q].version <= version'[Job(q)'.room]
  <2> TAKE q \in Publishers
  <2>1. CASE q = p
    BY <2>1, PublishingDraft
  <2>2. CASE q # p
    BY <1>0, <2>2, OwnJobs DEF PastOK, Busy, Job, data
  <2> QED BY <2>1, <2>2
<1> QED BY <1>0, <1>1, <1>2, PublishingEvents DEF PastOK, data

\* A change of the tables, with jobs for one publisher that had none.
LEMMA TablesPast ==
    ASSUME TypeInv, TypeInv', PastOK, Next, UNCHANGED <<bus, conn, draft, latest>>,
           NEW h, UNCHANGED jobs \/ ~Busy(h), \A p \in Publishers : p # h => jobs'[p] = jobs[p]
    PROVE  PastOK'
<1> USE DEF TypeInv
<1>0. UNCHANGED <<bus, conn, draft, latest>>
  OBVIOUS
<1>1. /\ \A r \in Rooms : version[r] \in Nat /\ version'[r] \in Nat /\ version[r] <= version'[r]
      /\ \A r \in Rooms, u \in Users : mine[u][r] \in Nat /\ mine'[u][r] \in Nat /\ mine[u][r] <= mine'[u][r]
  BY Grows, RoomStreamAssumption DEF DataOK
<1>2. \A c \in Conns : conn[c].at # "off" => conn[c].user \in Users
  BY DEF ConnOK
<1>3. \A c \in Conns, r \in Rooms :
          /\ latest'[c][r].version <= version'[r]
          /\ conn[c].at = "off" => latest'[c][r].mine = 0
          /\ conn[c].at # "off" => latest'[c][r].mine <= mine'[conn[c].user][r]
  <2>1. \A c \in Conns, r \in Rooms : latest[c][r].version \in Nat /\ latest[c][r].mine \in Nat
    BY RoomStreamAssumption DEF PastOK
  <2> QED BY <1>0, <1>1, <1>2, <2>1 DEF PastOK
<1>4. \A p \in Publishers : Busy(p)' => draft'[p].version <= version'[Job(p)'.room]
  <2> SUFFICES ASSUME NEW p \in Publishers, Busy(p)' PROVE draft'[p].version <= version'[Job(p)'.room]
    OBVIOUS
  <2>1. Job(p)'.room \in Rooms
    <3>1. jobs'[p] \in Seq(AJob) /\ jobs'[p] # << >>
      BY DEF JobsOK, Busy
    <3>2. Head(jobs'[p]) \in AJob
      BY <3>1
    <3> QED BY <3>2 DEF Job, AJob
  <2>2. CASE p = h /\ ~Busy(h)
    <3>1. draft'[p].version = 0
      BY <1>0, <2>2 DEF JobsOK, NoDraft
    <3> QED BY <1>1, <2>1, <3>1
  <2>3. CASE jobs'[p] = jobs[p]
    <3>1. draft'[p] = draft[p] /\ Job(p)' = Job(p) /\ Busy(p)
      BY <1>0, <2>3 DEF Job, Busy
    <3>2. draft[p].version <= version[Job(p).room] /\ draft[p].version \in Nat
      BY <3>1, RoomStreamAssumption DEF PastOK, JobsOK
    <3> QED BY <1>1, <2>1, <3>1, <3>2
  <2> QED BY <2>2, <2>3
<1>5. \A p \in Publishers : \A c \in sending'[p].to :
          /\ sending'[p].event.version <= version'[sending'[p].event.room]
          /\ sending'[p].event.mine <= mine'[conn'[c].user][sending'[p].event.room]
  <2> SUFFICES ASSUME NEW p \in Publishers, NEW c \in sending[p].to
               PROVE  /\ sending[p].event.version <= version'[sending[p].event.room]
                      /\ sending[p].event.mine <= mine'[conn[c].user][sending[p].event.room]
    BY <1>0 DEF bus
  <2>1. sending[p].event \in AnEvent /\ c \in Conns /\ conn[c].at # "off"
    BY DEF SendOK
  <2>2. /\ sending[p].event.room \in Rooms /\ sending[p].event.version \in Nat
        /\ sending[p].event.mine \in Nat /\ conn[c].user \in Users
    BY <1>2, <2>1, RoomStreamAssumption DEF AnEvent
  <2> QED BY <1>1, <2>2 DEF PastOK
<1> QED BY <1>0, <1>3, <1>4, <1>5 DEF PastOK

LEMMA RequestingPast ==
    ASSUME TypeInv, PastOK, Next, NEW h \in Handlers, NEW q \in Rooms, Requesting(h, q)
    PROVE  PastOK'
<1>1. UNCHANGED <<bus, conn, draft, latest>> /\ TypeInv' /\ h \in Publishers
  BY Frames, RequestingTypes, RoomStreamAssumption
<1>2. ~Busy(h) /\ \A p \in Publishers : p # h => jobs'[p] = jobs[p]
  BY <1>1, RequestJobs DEF TypeInv, JobsOK
<1> QED BY <1>1, <1>2, TablesPast

LEMMA UnannouncedPast ==
    ASSUME TypeInv, PastOK, Next, Unannounced
    PROVE  PastOK'
<1>1. UNCHANGED <<bus, conn, draft, latest>> /\ TypeInv'
  BY Frames, UnannouncedTypes
<1>2. PICK h : /\ UNCHANGED jobs \/ ~Busy(h)
               /\ \A p \in Publishers : p # h => jobs'[p] = jobs[p]
  BY QuietJobs
<1> QED BY <1>1, <1>2, TablesPast

LEMMA DroppingPast ==
    ASSUME TypeInv, PastOK, NEW p \in Publishers, Dropping(p)
    PROVE  PastOK'
<1>0. UNCHANGED <<bus, data, conn, latest>> /\ TypeInv'
  BY Frames, DroppingTypes
<1>1. ASSUME NEW q \in Publishers, Busy(q)' PROVE draft'[q].version <= version'[Job(q)'.room]
  <2>1. CASE q = p
    <3>1. draft'[q].version = 0
      BY <2>1, DropChanges DEF NoDraft
    <3>2. jobs'[q] \in Seq(AJob) /\ jobs'[q] # << >>
      BY <1>0, <1>1 DEF TypeInv, JobsOK, Busy
    <3>3. Head(jobs'[q]) \in AJob
      BY <3>2
    <3>4. version'[Job(q)'.room] \in 1..MaxVersion
      BY <1>0, <3>3 DEF Job, AJob, TypeInv, DataOK
    <3> QED BY <3>1, <3>4, RoomStreamAssumption
  <2>2. CASE q # p
    BY <1>0, <1>1, <2>2, DropChanges DEF PastOK, Busy, Job, data
  <2> QED BY <2>1, <2>2
<1> QED BY <1>0, <1>1 DEF PastOK, bus, data

LEMMA StreamingPast ==
    ASSUME TypeInv, PastOK, NEW c \in Conns, Streaming(c)
    PROVE  PastOK'
<1> USE DEF TypeInv
<1>0. UNCHANGED <<data, draft, sending>> /\ c \in Publishers
  BY Frames, RoomStreamAssumption
<1>1. /\ \A d \in Conns \ {c} : conn'[d] = conn[d]
      /\ conn[c].at # "off" => conn'[c].user = conn[c].user /\ conn'[c].at # "off"
      /\ conn'[c].at # "off" => conn'[c].user \in Users
  BY StreamConn
<1>2. /\ \A r \in Rooms : version[r] \in 0..MaxVersion
      /\ \A r \in Rooms, u \in Users : mine[u][r] \in 0..MaxVersion
      /\ 0 \in 0..MaxVersion /\ \A n \in 0..MaxVersion : n >= 0 /\ n <= n
  BY RoomStreamAssumption DEF DataOK
<1>3. /\ latest' \in [Conns -> [Rooms -> [version : 0..MaxVersion, mine : 0..MaxVersion]]]
      /\ \A d \in Conns, r \in Rooms :
            /\ latest'[d][r].version <= version[r]
            /\ conn'[d].at = "off" => latest'[d][r].mine = 0
            /\ conn'[d].at # "off" => latest'[d][r].mine <= mine[conn'[d].user][r]
  <2>1. CASE FetchRooms(c)
    <3> DEFINE new == [r \in Rooms |-> IF conn[c].user \in members[r] \cup Ghosts
                                       THEN [version |-> version[r], mine |-> mine[conn[c].user][r]]
                                       ELSE latest[c][r]]
    <3>1. /\ conn[c].at = "open" /\ conn[c].user \in Users
          /\ latest' = [latest EXCEPT ![c] = new]
      BY <2>1 DEF FetchRooms, ConnOK
    <3>2. new \in [Rooms -> [version : 0..MaxVersion, mine : 0..MaxVersion]]
      BY <1>2, <3>1 DEF PastOK
    <3>3. \A r \in Rooms : new[r].version <= version[r] /\ new[r].mine <= mine[conn[c].user][r]
      BY <1>2, <3>1 DEF PastOK
    <3> HIDE DEF new
    <3> QED BY <1>1, <3>1, <3>2, <3>3 DEF PastOK
  <2>2. CASE ~FetchRooms(c)
    <3>1. UNCHANGED latest
      BY <2>2 DEF Streaming, OpenStream, SubscribeStream, SetInterest, ReadEvent, HangUp, LeaveBus
    <3>2. \A r \in Rooms : conn[c].at = "off" /\ conn'[c].at # "off" => latest'[c][r].mine <= mine[conn'[c].user][r]
      BY <1>1, <1>2, <3>1 DEF PastOK
    <3>3. \A r \in Rooms : conn[c].at # "off" => latest'[c][r].mine <= mine[conn'[c].user][r]
      BY <1>1, <3>1 DEF PastOK
    <3>4. \A d \in Conns \ {c}, r \in Rooms :
            /\ conn'[d].at = "off" => latest'[d][r].mine = 0
            /\ conn'[d].at # "off" => latest'[d][r].mine <= mine[conn'[d].user][r]
      BY <1>1, <3>1 DEF PastOK
    <3> QED BY <1>1, <3>1, <3>2, <3>3, <3>4 DEF PastOK
  <2> QED BY <2>1, <2>2
<1>4. \A p \in Publishers : Busy(p)' => draft'[p].version <= version'[Job(p)'.room]
  <2> SUFFICES ASSUME NEW p \in Publishers, Busy(p)' PROVE draft'[p].version <= version'[Job(p)'.room]
    OBVIOUS
  <2>1. CASE jobs'[p] = jobs[p]
    BY <1>0, <2>1 DEF PastOK, Busy, Job, data
  <2>2. CASE jobs'[p] # jobs[p]
    <3>1. p = c /\ ~Busy(c) /\ JobsOK'
      BY <2>2, StreamJobs
    <3>2. draft'[p].version = 0
      BY <1>0, <3>1 DEF JobsOK, NoDraft
    <3>3. jobs'[p] \in Seq(AJob) /\ jobs'[p] # << >>
      BY <3>1 DEF JobsOK, Busy
    <3>4. Head(jobs'[p]) \in AJob
      BY <3>3
    <3>5. Job(p)'.room \in Rooms
      BY <3>4 DEF Job, AJob
    <3> QED BY <1>0, <1>2, <3>2, <3>5 DEF data
  <2> QED BY <2>1, <2>2
<1>5. \A p \in Publishers : \A d \in sending[p].to : conn'[d].user = conn[d].user
  BY <1>1 DEF SendOK
<1> QED BY <1>0, <1>3, <1>4, <1>5 DEF PastOK, data

LEMMA PastNext ==
    ASSUME TypeInv, PastOK, [Next]_vars
    PROVE  PastOK'
<1>1. CASE Next
  BY <1>1, StepTakers, PublishingPast, DroppingPast, RequestingPast, UnannouncedPast, StreamingPast
<1>2. CASE UNCHANGED vars
  BY <1>2 DEF vars, bus, data, PastOK, Busy, Job
<1> QED BY <1>1, <1>2

-----------------------------------------------------------------------------
(* Who talks is heard                                                      *)

LEMMA TalkNext ==
    ASSUME TypeInv, TalkOK, [Next]_vars
    PROVE  TalkOK'
<1> USE DEF TypeInv
<1>1. ASSUME NEW p \in Publishers, Publishing(p) PROVE TalkOK'
  <2>0. UNCHANGED <<conn, talking>>
    BY <1>1, Frames DEF data
  <2>1. CASE AddInterest(p)
    <3> DEFINE u == Job(p).user
               r == Job(p).room
    <3>1. /\ Busy(p) /\ Job(p).kind = "interest" /\ AddUserRoomInterest(u, r)
          /\ listening' = IF <<u, r>> \in talking THEN listening \cup {<<u, r>>} ELSE listening
          /\ missed' = missed \cup {<<c, r>> : c \in {d \in Conns :
                           /\ conn[d].at \in {"loaded", "subscribed"}
                           /\ conn[d].user = u /\ r \notin conn[d].rooms}}
      BY <2>1 DEF AddInterest
    <3>2. u \in Users /\ r \in Rooms
      BY <3>1, JobOK DEF AJob
    <3> HIDE DEF u, r
    <3>3. \A c \in Conns : interest'[c] = IF Serving(c) /\ conn[c].user = u
                                          THEN interest[c] \cup {r} ELSE interest[c]
      BY <2>0, <3>1, <3>2, AddInterestRegistry
    <3>4. listening' \subseteq talking' /\ listening' \subseteq listening \cup {<<u, r>>}
      BY <2>0, <3>1 DEF TalkOK
    <3>5. ASSUME NEW c \in Conns, NEW q \in Rooms, <<conn[c].user, q>> \in listening', <<c, q>> \notin missed'
          PROVE  /\ conn[c].at \in {"loaded", "subscribed"} => q \in conn[c].rooms
                 /\ conn[c].at = "open" => q \in interest'[c]
      <4>1. CASE <<conn[c].user, q>> \in listening
        BY <3>1, <3>3, <3>5, <4>1 DEF TalkOK
      <4>2. CASE <<conn[c].user, q>> \notin listening
        <5>1. conn[c].user = u /\ q = r
          BY <3>4, <3>5, <4>2
        <5> QED BY <3>1, <3>3, <3>5, <5>1 DEF Serving
      <4> QED BY <4>1, <4>2
    <3> QED BY <2>0, <3>4, <3>5 DEF TalkOK
  <2>2. CASE ~AddInterest(p)
    <3>1. UNCHANGED <<listening, missed, interest>>
      BY <1>1, <2>2 DEF Publishing, Build, Audience, SendLive, SendToUser, SendBare, Hand, Publish, Deliver,
                            bus, stream
    <3> QED BY <2>0, <3>1 DEF TalkOK
  <2> QED BY <2>1, <2>2
<1>2. ASSUME NEW h \in Handlers, NEW q \in Rooms, Requesting(h, q) PROVE TalkOK'
  <2>1. UNCHANGED <<conn, interest, missed>>
    BY <1>2, Frames DEF bus
  <2>2. listening' \subseteq listening /\ listening' \subseteq talking'
    BY <1>2 DEF Requesting, UpdateRoom, JoinRoom, LookIn, LeaveRoom, UpdateMine, JoinLive, LeaveLive,
                Commit, stream, data, TalkOK
  <2> QED BY <2>1, <2>2 DEF TalkOK
<1>3. ASSUME NEW c \in Conns, Streaming(c) PROVE TalkOK'
  <2>0. UNCHANGED <<listening, missed, talking>>
    BY <1>3, Frames DEF data
  <2>1. \A d \in Conns \ {c} : conn'[d] = conn[d] /\ interest'[d] = interest[d]
    <3>1. CASE SetInterest(c)
      BY <1>3, <3>1, StreamConn, SetInterestRegistry
    <3>2. CASE ~SetInterest(c)
      <4>1. UNCHANGED interest
        BY <1>3, <3>2 DEF Streaming, OpenStream, SubscribeStream, FetchRooms, ReadEvent, HangUp, LeaveBus,
                          Subscribe, Receive, CloseChannel, Unregister, bus
      <4> QED BY <1>3, <4>1, StreamConn
    <3> QED BY <3>1, <3>2
  <2>2. ASSUME NEW r \in Rooms, <<conn'[c].user, r>> \in listening, <<c, r>> \notin missed
        PROVE  /\ conn'[c].at \in {"loaded", "subscribed"} => r \in conn'[c].rooms
               /\ conn'[c].at = "open" => r \in interest'[c]
    <3>1. CASE \E u \in Watchers : OpenStream(c, u)
      <4>1. PICK u \in Watchers : OpenStream(c, u)
        BY <3>1
      <4>2. conn'[c].at = "loaded" /\ conn'[c].user = u /\ conn'[c].rooms = RoomsOf(u)
        BY <4>1 DEF OpenStream, ConnOK
      <4>3. <<u, r>> \in talking
        BY <2>2, <4>2 DEF TalkOK
      <4> QED BY <4>2, <4>3 DEF RoomsOf
    <3>2. CASE SubscribeStream(c)
      BY <2>2, <3>2 DEF SubscribeStream, Goto, ConnOK, TalkOK
    <3>3. CASE SetInterest(c)
      <4>1. interest'[c] = conn[c].rooms
        BY <3>3, SetInterestRegistry
      <4> QED BY <2>2, <3>3, <4>1 DEF SetInterest, Goto, ConnOK, TalkOK
    <3>4. CASE FetchRooms(c)
      BY <2>2, <3>4 DEF FetchRooms, ConnOK, TalkOK, bus
    <3>5. CASE ReadEvent(c)
      BY <2>2, <3>5 DEF ReadEvent, Receive, TalkOK
    <3>6. CASE HangUp(c) \/ LeaveBus(c)
      BY <3>6 DEF HangUp, LeaveBus, Goto, ConnOK
    <3> QED BY <1>3, <3>1, <3>2, <3>3, <3>4, <3>5, <3>6 DEF Streaming
  <2> QED BY <2>0, <2>1, <2>2 DEF TalkOK
<1>4. CASE UNCHANGED vars
  BY <1>4 DEF vars, bus, data, TalkOK
<1>5. ASSUME NEW p \in Publishers, Dropping(p) PROVE TalkOK'
  <2>1. UNCHANGED <<conn, interest, listening, missed, talking>>
    BY <1>5, Frames DEF bus, data
  <2> QED BY <2>1 DEF TalkOK
<1>6. CASE Unannounced
  <2>1. UNCHANGED <<conn, interest, missed>>
    BY <1>6, Frames DEF bus
  <2>2. listening' \subseteq listening /\ listening' \subseteq talking'
    BY <1>6, QuietChanges DEF TalkOK
  <2> QED BY <2>1, <2>2 DEF TalkOK
<1> QED BY <1>1, <1>2, <1>3, <1>4, <1>5, <1>6, StepTakers

-----------------------------------------------------------------------------
(* What is owed to a client                                                *)

\* A publisher without a job owes nothing.
LEMMA OwesNothing ==
    ASSUME TypeInv, NEW p \in Publishers, ~Busy(p), NEW c \in Conns, NEW r \in Rooms
    PROVE  ~OwesVersion(p, c, r) /\ ~OwesMine(p, c, r)
<1>1. jobs[p] = << >> /\ sending[p] = Nothing
  BY DEF TypeInv, JobsOK, Busy
<1>2. DOMAIN jobs[p] = {} /\ Nothing.to = {}
  BY <1>1 DEF Nothing
<1> QED BY <1>1, <1>2 DEF OwesVersion, OwesMine, Waiting, Carrying, Handing

\* A publisher that does nothing owes what it did.
LEMMA OwesAsBefore ==
    ASSUME NEW p \in Publishers, NEW c \in Conns, NEW r \in Rooms,
           jobs'[p] = jobs[p], draft'[p] = draft[p], sending'[p] = sending[p],
           conn'[c].user = conn[c].user, version'[r] = version[r],
           mine'[conn[c].user][r] = mine[conn[c].user][r]
    PROVE  (OwesVersion(p, c, r) => OwesVersion(p, c, r)') /\ (OwesMine(p, c, r) => OwesMine(p, c, r)')
<1> QED BY DEF OwesVersion, OwesMine, Waiting, Carrying, Handing, Announces, Busy, Job

\* The jobs after the first wait while it is done, and when it is.
LEMMA LaterJobsWait ==
    ASSUME TypeInv, NEW p \in Publishers, Busy(p), NEW u \in Users, NEW r \in Rooms,
           Waiting(p, u, r), draft[p].at # "build" \/ ~Announces(Job(p), u, r),
           jobs'[p] = jobs[p] \/ (jobs'[p] = Tail(jobs[p]) /\ draft'[p] = NoDraft)
    PROVE  Waiting(p, u, r)'
<1>1. PICK i \in DOMAIN jobs[p] : (i = 1 => draft[p].at = "build") /\ Announces(jobs[p][i], u, r)
  BY DEF Waiting
<1>2. /\ jobs[p] \in Seq(AJob) /\ Len(jobs[p]) \in Nat /\ DOMAIN jobs[p] = 1..Len(jobs[p])
      /\ Job(p) = jobs[p][1]
  BY JobOK DEF TypeInv
<1>3. i # 1 /\ i \in 2..Len(jobs[p])
  BY <1>1, <1>2
<1>4. CASE jobs'[p] = jobs[p]
  BY <1>1, <1>3, <1>4 DEF Waiting, Announces
<1>5. CASE jobs'[p] = Tail(jobs[p]) /\ draft'[p] = NoDraft
  <2>1. /\ Len(jobs'[p]) = Len(jobs[p]) - 1 /\ DOMAIN jobs'[p] = 1..Len(jobs'[p])
        /\ \A j \in 1..Len(jobs[p]) - 1 : jobs'[p][j] = jobs[p][j + 1]
    BY <1>2, <1>3, <1>5
  <2>2. i - 1 \in 1..Len(jobs[p]) - 1 /\ i - 1 + 1 = i
    BY <1>2, <1>3
  <2>3. i - 1 \in DOMAIN jobs'[p] /\ jobs'[p][i - 1] = jobs[p][i]
    BY <1>2, <2>1, <2>2
  <2>4. draft'[p].at = "build"
    BY <1>5 DEF NoDraft
  <2> QED BY <1>1, <2>3, <2>4 DEF Waiting, Announces
<1> QED BY <1>4, <1>5

\* A job that waits is next taken up with the room as it is.
LEMMA WaitingGoesOn ==
    ASSUME TypeInv, NEW p \in Publishers, Publishing(p), NEW u \in Users, NEW r \in Rooms,
           Waiting(p, u, r)
    PROVE  \/ Waiting(p, u, r)'
           \/ Carrying(p, u, r)' /\ draft'[p].version = version[r]
<1> USE DEF TypeInv
<1>0. Busy(p) /\ Job(p) \in AJob
  BY OwnJobs, JobOK
<1>1. CASE Build(p)
  <2>1. /\ draft[p].at = "build" /\ jobs'[p] = jobs[p]
        /\ draft'[p] = [at |-> IF Job(p).kind = "updated" THEN "audience" ELSE "send",
                        version |-> IF Job(p).kind \in {"deleted", "live"} THEN 0 ELSE version[Job(p).room],
                        to |-> IF Job(p).kind \in {"added", "deleted"} THEN {Job(p).user} ELSE {}]
    BY <1>1 DEF Build, JobsOK
  <2>2. CASE Announces(Job(p), u, r)
    <3>1. /\ draft'[p].version = version[r]
          /\ draft'[p].at = "audience" \/ (draft'[p].at = "send" /\ u \in draft'[p].to)
      BY <2>1, <2>2 DEF Announces
    <3>2. Busy(p)' /\ Announces(Job(p), u, r)'
      BY <1>0, <2>1, <2>2 DEF Busy, Job, Announces
    <3> QED BY <3>1, <3>2 DEF Carrying
  <2>3. CASE ~Announces(Job(p), u, r)
    BY <1>0, <2>1, <2>3, LaterJobsWait
  <2> QED BY <2>2, <2>3
<1>2. CASE AddInterest(p)
  <2>1. /\ Job(p).kind = "interest" /\ jobs'[p] = Tail(jobs[p]) /\ draft'[p] = draft[p]
        /\ draft[p] = NoDraft
    BY <1>2 DEF AddInterest, JobsOK
  <2>2. ~Announces(Job(p), u, r)
    BY <2>1 DEF Announces
  <2> QED BY <1>0, <2>1, <2>2, LaterJobsWait
<1>3. CASE ~Build(p) /\ ~AddInterest(p)
  <2>1. draft[p].at # "build" /\ \E d : Proceed(p, d)
    BY <1>3, JobsProceed
  <2>2. jobs'[p] = jobs[p] \/ (jobs'[p] = Tail(jobs[p]) /\ draft'[p] = NoDraft)
    BY <2>1, ProceedChanges
  <2> QED BY <1>0, <2>1, <2>2, LaterJobsWait
<1> QED BY <1>1, <1>2, <1>3

\* A publisher that still has to reach u keeps its job and what it has built.
LEMMA CarriesOn ==
    ASSUME TypeInv, NEW p \in Publishers, NEW d, Proceed(p, d), NEW u \in Users, NEW r \in Rooms,
           Carrying(p, u, r), d.at = "send", u \in d.to, d.version = draft[p].version
    PROVE  Carrying(p, u, r)' /\ draft'[p].version = draft[p].version
<1>1. jobs'[p] = jobs[p] /\ draft'[p] = d
  BY ProceedChanges DEF TypeInv
<1> QED BY <1>1 DEF Carrying, Busy, Job, Announces

\* A snapshot that is built is given to the bus for every stream of a member,
\* with the member's settings unless they could not be read.
LEMMA CarryingGoesOn ==
    ASSUME TypeInv, NEW p \in Publishers, Publishing(p), NEW c \in Conns, NEW r \in Rooms,
           Follows(c, r), <<c, r>> \notin hushed', Carrying(p, conn[c].user, r)
    PROVE  \/ Carrying(p, conn[c].user, r)' /\ draft'[p].version = draft[p].version
           \/ /\ Handing(p, c, r)'
              /\ sending'[p].event.version = draft[p].version
              /\ sending'[p].event.mine = mine[conn[c].user][r]
<1> USE DEF TypeInv
<1> DEFINE u == conn[c].user
<1>0. /\ Busy(p) /\ u \in Users /\ u \in members[r] /\ UNCHANGED conn
      /\ Job(p).room = r /\ Job(p).kind \in {"updated", "added"}
      /\ Job(p).kind = "updated" => Job(p).user # u
      /\ draft[p].at = "audience" \/ (draft[p].at = "send" /\ u \in draft[p].to)
      /\ draft[p].at = "audience" => Job(p).kind = "updated"
  BY Frames DEF Carrying, Announces, Follows, ConnOK, JobsOK
<1>a. draft[p] \in [at : {"build", "audience", "send", "sent"}, version : 0..MaxVersion, to : SUBSET Users]
  BY DEF JobsOK
<1> HIDE DEF u
<1>1. CASE Build(p) \/ AddInterest(p) \/ SendLive(p)
  BY <1>0, <1>1 DEF Build, AddInterest, SendLive
<1>2. CASE Audience(p)
  <2> DEFINE d == [draft[p] EXCEPT !.at = "send", !.to = members[Job(p).room] \ {Job(p).user}]
  <2>1. Proceed(p, d) /\ draft[p].at = "audience"
    BY <1>2 DEF Audience
  <2>2. d.at = "send" /\ u \in d.to /\ d.version = draft[p].version
    BY <1>0, <1>a, <2>1
  <2> HIDE DEF d
  <2> QED BY <1>0, <2>1, <2>2, CarriesOn DEF u
<1>3. ASSUME NEW v \in Users, SendToUser(p, v) \/ SendBare(p, v), v # u
      PROVE  Carrying(p, u, r)' /\ draft'[p].version = draft[p].version
  <2> DEFINE d == [draft[p] EXCEPT !.to = @ \ {v}]
  <2>1. Proceed(p, d) /\ draft[p].at = "send"
    BY <1>3 DEF SendToUser, SendBare
  <2>2. d.at = "send" /\ u \in d.to /\ d.version = draft[p].version
    BY <1>0, <1>a, <1>3, <2>1
  <2> HIDE DEF d
  <2> QED BY <1>0, <2>1, <2>2, CarriesOn DEF u
<1>4. CASE SendToUser(p, u)
  <2>1. Publish(p, byUser[u], EventFor(p, u)) /\ draft[p].at = "send"
    BY <1>4 DEF SendToUser
  <2>2. c \in byUser[u] /\ byUser[u] \in SUBSET Conns /\ \A d \in byUser[u] : Serving(d)
    BY <1>0, TargetsServe DEF RegistryOK, Follows, Serving, u
  <2>3. EventFor(p, u) \in AnEvent
    BY <1>0, <2>1, EventOK
  <2>4. sending'[p].to = byUser[u] /\ sending'[p].event = EventFor(p, u)
    BY <2>1, <2>2, <2>3, PublishOK
  <2>5. /\ EventFor(p, u).version = draft[p].version /\ EventFor(p, u).mine = mine[u][r]
        /\ EventFor(p, u).room = r /\ EventFor(p, u).kind \in {"added", "updated"}
    BY <1>0 DEF EventFor, Event
  <2> QED BY <2>2, <2>4, <2>5 DEF Handing, u
<1>5. ASSUME NEW d \in Conns, Hand(p, d)
      PROVE  Carrying(p, u, r)' /\ draft'[p].version = draft[p].version
  <2>1. sending[p] # Nothing /\ Proceed(p, draft[p])
    BY <1>5 DEF Hand, Deliver, Nothing
  <2>2. draft[p].at = "send" /\ u \in draft[p].to
    BY <1>0, <2>1 DEF JobsOK
  <2> QED BY <1>0, <2>1, <2>2, CarriesOn DEF u
<1>6. ~SendBare(p, u)
  <2>1. <<c, r>> \in Addressed(p)
    BY DEF Carrying, Addressed
  <2> QED BY <2>1 DEF SendBare, u
<1> QED BY <1>0, <1>1, <1>2, <1>3, <1>4, <1>5, <1>6 DEF Publishing, u

\* What the bus has for a stream stays so until it is handed over.
LEMMA HandingGoesOn ==
    ASSUME TypeInv, PastOK, NEW p \in Publishers, Publishing(p), NEW c \in Conns, NEW r \in Rooms,
           Follows(c, r), Handing(p, c, r)
    PROVE  \/ Handing(p, c, r)' /\ sending'[p].event = sending[p].event
           \/ /\ latest'[c][r].version = Max({latest[c][r].version, sending[p].event.version})
              /\ latest'[c][r].mine = Max({latest[c][r].mine, sending[p].event.mine})
<1> USE DEF TypeInv
<1>1. c \in sending[p].to /\ sending[p] # Nothing
  BY DEF Handing, Nothing
<1>2. CASE UNCHANGED sending
  BY <1>2 DEF Handing
<1>3. CASE SendLive(p) \/ \E u \in Users : SendToUser(p, u) \/ SendBare(p, u)
  BY <1>1, <1>3 DEF SendLive, SendToUser, SendBare, Publish
<1>4. CASE Hand(p, c)
  <2>1. ~closed[c]
    BY DEF RegistryOK, Follows
  <2>2. Gives(p, c, c, r)
    BY <2>1 DEF Gives, Handing
  <2> QED BY <1>4, <2>2, HandLatest
<1>5. ASSUME NEW d \in Conns, d # c, Hand(p, d)
      PROVE  Handing(p, c, r)' /\ sending'[p].event = sending[p].event
  <2>1. Deliver(p, d)
    BY <1>5 DEF Hand
  <2>2. c \in sending'[p].to /\ sending'[p].event = sending[p].event
    BY <1>1, <1>5, <2>1, DeliverSends
  <2> QED BY <2>2 DEF Handing
<1>6. Build(p) \/ Audience(p) \/ AddInterest(p) => UNCHANGED sending
  BY DEF Build, Audience, AddInterest, AddUserRoomInterest, bus
<1> QED BY <1>2, <1>3, <1>4, <1>5, <1>6 DEF Publishing

\* A delivery never takes the newest version from a client.
LEMMA NewestStays ==
    ASSUME TypeInv, PastOK, NEW p \in Publishers, Publishing(p), NEW c \in Conns, NEW r \in Rooms,
           Follows(c, r)
    PROVE  /\ latest[c][r].version = version[r] => latest'[c][r].version = version[r]
           /\ latest[c][r].mine = mine[conn[c].user][r] => latest'[c][r].mine = mine[conn[c].user][r]
<1> USE DEF TypeInv
<1>1. CASE \E d \in Conns : Hand(p, d)
  <2> PICK d \in Conns : Hand(p, d)
    BY <1>1
  <2> DEFINE e == sending[p].event
  <2>1. CASE Gives(p, d, c, r)
    <3>1. /\ latest'[c][r].version = Max({latest[c][r].version, e.version})
          /\ latest'[c][r].mine = Max({latest[c][r].mine, e.mine})
      BY <2>1, HandLatest
    <3>2. /\ e.version \in Nat /\ e.mine \in Nat
          /\ latest[c][r].version \in Nat /\ latest[c][r].mine \in Nat
          /\ e.version <= version[r] /\ e.mine <= mine[conn[c].user][r]
      <4>1. d \in sending[p].to /\ e \in AnEvent
        BY DEF Hand, Deliver, SendOK
      <4>2. e.version \in Nat /\ e.mine \in Nat
        BY <4>1, RoomStreamAssumption DEF AnEvent
      <4>3. latest[c][r].version \in Nat /\ latest[c][r].mine \in Nat
        BY RoomStreamAssumption DEF PastOK
      <4>4. e.version <= version[r] /\ e.mine <= mine[conn[c].user][r]
        BY <2>1, <4>1 DEF PastOK, Gives
      <4> QED BY <4>2, <4>3, <4>4
    <3> HIDE DEF e
    <3> QED BY <3>1, <3>2, MaxOfTwo
  <2>2. CASE ~Gives(p, d, c, r)
    BY <2>2, HandLatest
  <2> QED BY <2>1, <2>2
<1>2. CASE ~\E d \in Conns : Hand(p, d)
  BY <1>2 DEF Publishing, Build, Audience, SendLive, SendToUser, SendBare, AddInterest
<1> QED BY <1>1, <1>2

\* A publisher that goes on still owes what it did, or the client got it.
LEMMA PublishingOwes ==
    ASSUME TypeInv, PastOK, NEW p \in Publishers, Publishing(p), NEW c \in Conns, NEW r \in Rooms,
           Follows(c, r), <<c, r>> \notin hushed'
    PROVE  /\ OwesVersion(p, c, r) => OwesVersion(p, c, r)' \/ latest'[c][r].version = version[r]
           /\ OwesMine(p, c, r) => OwesMine(p, c, r)' \/ latest'[c][r].mine = mine[conn[c].user][r]
<1> USE DEF TypeInv
<1> DEFINE u == conn[c].user
<1>0. u \in Users /\ UNCHANGED <<conn, version, mine>>
  BY Frames DEF Follows, ConnOK, data
<1>1. ASSUME Waiting(p, u, r) PROVE OwesVersion(p, c, r)' /\ OwesMine(p, c, r)'
  BY <1>0, <1>1, WaitingGoesOn DEF OwesVersion, OwesMine
<1>2. ASSUME Carrying(p, u, r) PROVE /\ OwesMine(p, c, r)'
                                     /\ draft[p].version = version[r] => OwesVersion(p, c, r)'
  <2>1. \/ Carrying(p, u, r)' /\ draft'[p].version = draft[p].version
        \/ /\ Handing(p, c, r)'
           /\ sending'[p].event.version = draft[p].version
           /\ sending'[p].event.mine = mine[u][r]
    BY <1>2, CarryingGoesOn
  <2>2. CASE Carrying(p, u, r)' /\ draft'[p].version = draft[p].version
    BY <1>0, <2>2 DEF OwesVersion, OwesMine
  <2>3. CASE /\ Handing(p, c, r)'
             /\ sending'[p].event.version = draft[p].version
             /\ sending'[p].event.mine = mine[u][r]
    BY <1>0, <2>3 DEF OwesVersion, OwesMine
  <2> QED BY <2>1, <2>2, <2>3
<1>3. ASSUME Handing(p, c, r)
      PROVE  /\ sending[p].event.version = version[r] =>
                    OwesVersion(p, c, r)' \/ latest'[c][r].version = version[r]
             /\ sending[p].event.mine = mine[u][r] =>
                    OwesMine(p, c, r)' \/ latest'[c][r].mine = mine[u][r]
  <2> DEFINE e == sending[p].event
  <2>1. CASE Handing(p, c, r)' /\ sending'[p].event = sending[p].event
    BY <1>0, <2>1 DEF OwesVersion, OwesMine
  <2>2. CASE /\ latest'[c][r].version = Max({latest[c][r].version, e.version})
             /\ latest'[c][r].mine = Max({latest[c][r].mine, e.mine})
    <3>1. /\ latest[c][r].version <= version[r] /\ latest[c][r].mine <= mine[u][r]
          /\ latest[c][r].version \in Nat /\ latest[c][r].mine \in Nat
          /\ version[r] \in Nat /\ mine[u][r] \in Nat
      <4>1. conn[c].at = "open"
        BY DEF Follows
      <4>2. latest[c][r].version <= version[r] /\ latest[c][r].mine <= mine[u][r]
        BY <4>1 DEF PastOK
      <4>3. latest[c][r].version \in 0..MaxVersion /\ latest[c][r].mine \in 0..MaxVersion
        BY DEF PastOK
      <4>4. version[r] \in 1..MaxVersion /\ mine[u][r] \in 0..MaxVersion
        BY <1>0 DEF DataOK
      <4> QED BY <4>2, <4>3, <4>4, RoomStreamAssumption
    <3> HIDE DEF e, u
    <3>2. e.version = version[r] => latest'[c][r].version = version[r]
      BY <2>2, <3>1, MaxOfTwo
    <3>3. e.mine = mine[u][r] => latest'[c][r].mine = mine[u][r]
      BY <2>2, <3>1, MaxOfTwo
    <3> QED BY <3>2, <3>3 DEF e
  <2> QED BY <1>3, <2>1, <2>2, HandingGoesOn
<1> QED BY <1>0, <1>1, <1>2, <1>3 DEF OwesVersion, OwesMine

\* A request leaves its handler with news for each member, or changed nothing
\* that the member sees.
LEMMA RequestAnnounces ==
    ASSUME TypeInv, NEW h \in Handlers, NEW q \in Rooms, Requesting(h, q),
           NEW u \in Users, NEW r \in Rooms, u \in members'[r]
    PROVE  \/ Waiting(h, u, r)'
           \/ u \in members[r] /\ version'[r] = version[r] /\ mine'[u][r] = mine[u][r]
<1> USE DEF TypeInv
<1>0. h \in Publishers /\ ~Busy(h) /\ u # None
  BY RequestJobs, RoomStreamAssumption
<1>1. draft'[h].at = "build"
  BY <1>0, Frames DEF JobsOK, NoDraft
<1>2. CASE r # q
  <2>1. CASE \E v \in Users : UpdateMine(h, v, q)
    BY <1>2, <2>1 DEF UpdateMine, DataOK
  <2>2. CASE \E v \in Users : LookIn(h, v, q)
    BY <2>2 DEF LookIn, data
  <2>3. CASE ~\E v \in Users : UpdateMine(h, v, q) \/ LookIn(h, v, q)
    <3>1. /\ UNCHANGED mine /\ version' = [version EXCEPT ![q] = @ + 1]
          /\ \/ UNCHANGED members
             \/ \E S : members' = [members EXCEPT ![q] = S]
      BY <2>3 DEF Requesting, UpdateRoom, JoinRoom, LeaveRoom, JoinLive, LeaveLive, Commit
    <3> QED BY <1>2, <3>1 DEF DataOK
  <2> QED BY <2>1, <2>2, <2>3
<1>3. CASE r = q
  <2>1. ASSUME NEW i \in DOMAIN jobs'[h], Announces(jobs'[h][i], u, r) PROVE Waiting(h, u, r)'
    BY <1>1, <2>1 DEF Waiting, Announces
  <2>2. ASSUME NEW todo, jobs' = [jobs EXCEPT ![h] = todo] PROVE jobs'[h] = todo
    BY <1>0, <2>2 DEF JobsOK
  <2>3. Announces(Updated(r, None), u, r) /\ Announces(Added(r, u), u, r)
        /\ \A v \in Users : v # u => Announces(Updated(r, v), u, r)
    BY <1>0 DEF Announces, Updated, Added
  <2>4. CASE UpdateRoom(h, r)
    <3>1. jobs'[h] = <<Updated(r, None)>>
      BY <2>2, <2>4 DEF UpdateRoom, Commit
    <3> QED BY <2>1, <2>3, <3>1
  <2>5. ASSUME NEW v \in Users, JoinRoom(h, v, r) PROVE Waiting(h, u, r)'
    <3>1. jobs'[h] = <<Added(r, v), Updated(r, v)>>
      BY <2>2, <2>5 DEF JoinRoom, Commit
    <3>2. 1 \in DOMAIN jobs'[h] /\ 2 \in DOMAIN jobs'[h]
          /\ jobs'[h][1] = Added(r, v) /\ jobs'[h][2] = Updated(r, v)
      BY <3>1
    <3> QED BY <2>1, <2>3, <3>2
  <2>6. ASSUME NEW v \in Users, LookIn(h, v, r)
        PROVE  u \in members[r] /\ version'[r] = version[r] /\ mine'[u][r] = mine[u][r]
    BY <2>6 DEF LookIn, data
  <2>7. ASSUME NEW v \in Users, LeaveRoom(h, v, r) PROVE Waiting(h, u, r)'
    <3> DEFINE first == <<Deleted(r, v), Updated(r, None)>>
               last == IF <<v, r>> \in talking THEN <<Live(r)>> ELSE << >>
    <3>1. jobs'[h] = first \o last
      BY <2>2, <2>7 DEF LeaveRoom, Commit
    <3>2. first \in Seq(AJob) /\ last \in Seq(AJob) /\ Len(first) = 2
      BY JobTypes
    <3>3. Len(first \o last) = 2 + Len(last) /\ Len(last) \in Nat /\ first \o last \in Seq(AJob)
          /\ (first \o last)[2] = first[2]
      BY <3>2
    <3>4. 2 \in DOMAIN jobs'[h] /\ jobs'[h][2] = Updated(r, None)
      BY <3>1, <3>3
    <3> QED BY <2>1, <2>3, <3>4
  <2>8. ASSUME NEW v \in Users, UpdateMine(h, v, r)
        PROVE  \/ Waiting(h, u, r)'
               \/ u \in members[r] /\ version'[r] = version[r] /\ mine'[u][r] = mine[u][r]
    <3>1. CASE v = u
      <4>1. jobs'[h] = <<Added(r, u)>>
        BY <2>2, <2>8, <3>1 DEF UpdateMine
      <4> QED BY <2>1, <2>3, <4>1
    <3>2. CASE v # u
      BY <2>8, <3>2 DEF UpdateMine, DataOK
    <3> QED BY <3>1, <3>2
  <2>9. ASSUME NEW v \in Users, JoinLive(h, v, r) PROVE Waiting(h, u, r)'
    <3>1. jobs'[h] = <<Interest(r, v), Live(r), Updated(r, None)>>
      BY <2>2, <2>9 DEF JoinLive, Commit
    <3>2. 3 \in DOMAIN jobs'[h] /\ jobs'[h][3] = Updated(r, None)
      BY <3>1
    <3> QED BY <2>1, <2>3, <3>2
  <2>10. ASSUME NEW v \in Users, LeaveLive(h, v, r) PROVE Waiting(h, u, r)'
    <3>1. jobs'[h] = <<Updated(r, None), Live(r)>>
      BY <2>2, <2>10 DEF LeaveLive, Commit
    <3>2. 1 \in DOMAIN jobs'[h] /\ jobs'[h][1] = Updated(r, None)
      BY <3>1
    <3> QED BY <2>1, <2>3, <3>2
  <2> QED BY <1>3, <2>4, <2>5, <2>6, <2>7, <2>8, <2>9, <2>10 DEF Requesting
<1> QED BY <1>2, <1>3

LEMMA DebtNext ==
    ASSUME TypeInv, PastOK, DebtOK, [Next]_vars
    PROVE  DebtOK'
<1> USE DEF TypeInv
<1> SUFFICES ASSUME NEW c \in Conns, NEW r \in Rooms, Follows(c, r)', <<c, r>> \notin hushed'
             PROVE  /\ \/ latest'[c][r].version = version'[r]
                       \/ \E p \in Publishers : OwesVersion(p, c, r)'
                    /\ \/ latest'[c][r].mine = mine'[conn'[c].user][r]
                       \/ \E p \in Publishers : OwesMine(p, c, r)'
  BY DEF DebtOK
<1>1. ASSUME NEW p \in Publishers, Publishing(p)
      PROVE  /\ \/ latest'[c][r].version = version'[r]
                \/ \E q \in Publishers : OwesVersion(q, c, r)'
             /\ \/ latest'[c][r].mine = mine'[conn'[c].user][r]
                \/ \E q \in Publishers : OwesMine(q, c, r)'
  <2>0. UNCHANGED <<conn, members, version, mine>> /\ Follows(c, r)
    BY <1>1, Frames DEF data, Follows
  <2>1. \A q \in Publishers : q # p => sending'[q] = sending[q]
    <3>1. CASE Build(p) \/ AddInterest(p)
      BY <3>1 DEF Build, AddInterest, AddUserRoomInterest, bus
    <3> QED BY <1>1, <3>1, JobsProceed
  <2>2. ASSUME NEW q \in Publishers, OwesVersion(q, c, r)
        PROVE  OwesVersion(q, c, r)' \/ latest'[c][r].version = version[r]
    <3>1. CASE q = p
      BY <1>1, <2>0, <2>2, <3>1, PublishingOwes
    <3>2. CASE q # p
      BY <1>1, <2>0, <2>1, <2>2, <3>2, OwnJobs, OwesAsBefore
    <3> QED BY <3>1, <3>2
  <2>3. ASSUME NEW q \in Publishers, OwesMine(q, c, r)
        PROVE  OwesMine(q, c, r)' \/ latest'[c][r].mine = mine[conn[c].user][r]
    <3>1. CASE q = p
      BY <1>1, <2>0, <2>3, <3>1, PublishingOwes
    <3>2. CASE q # p
      BY <1>1, <2>0, <2>1, <2>3, <3>2, OwnJobs, OwesAsBefore
    <3> QED BY <3>1, <3>2
  <2>4. CASE <<c, r>> \notin hushed
    BY <1>1, <2>0, <2>2, <2>3, <2>4, NewestStays DEF DebtOK
  <2>5. CASE <<c, r>> \in hushed
    <3>1. Build(p) /\ <<c, r>> \in Addressed(p)
      BY <1>1, <2>5 DEF Publishing, Build, Audience, SendLive, AddInterest, SendToUser, SendBare, Hand
    <3>2. Waiting(p, conn[c].user, r)
      <4>1. Busy(p) /\ draft[p].at = "build" /\ Announces(Job(p), conn[c].user, r)
        BY <3>1 DEF Build, Addressed
      <4> QED BY <4>1, JobOK DEF Waiting
    <3> QED BY <2>0, <2>2, <2>3, <3>2 DEF OwesVersion, OwesMine
  <2> QED BY <2>4, <2>5
<1>2. ASSUME NEW h \in Handlers, NEW q \in Rooms, Requesting(h, q)
      PROVE  /\ \/ latest'[c][r].version = version'[r]
                \/ \E p \in Publishers : OwesVersion(p, c, r)'
             /\ \/ latest'[c][r].mine = mine'[conn'[c].user][r]
                \/ \E p \in Publishers : OwesMine(p, c, r)'
  <2> DEFINE u == conn[c].user
  <2>0. /\ UNCHANGED <<sending, conn, draft, latest>> /\ h \in Publishers /\ ~Busy(h)
        /\ u \in Users /\ u \in members'[r] /\ conn[c].at = "open" /\ conn[c].fetched
        /\ <<c, r>> \notin hushed
    BY <1>2, Frames, RequestJobs, RoomStreamAssumption DEF bus, Follows, ConnOK
  <2>1. CASE Waiting(h, u, r)'
    BY <2>0, <2>1 DEF OwesVersion, OwesMine
  <2>2. CASE u \in members[r] /\ version'[r] = version[r] /\ mine'[u][r] = mine[u][r]
    <3>1. Follows(c, r)
      BY <2>0, <2>2 DEF Follows
    <3>2. ASSUME NEW p \in Publishers, OwesVersion(p, c, r) \/ OwesMine(p, c, r)
          PROVE  /\ OwesVersion(p, c, r) => OwesVersion(p, c, r)'
                 /\ OwesMine(p, c, r) => OwesMine(p, c, r)'
      <4>1. p # h
        BY <2>0, <3>2, OwesNothing
      <4>2. jobs'[p] = jobs[p]
        BY <1>2, <4>1, RequestJobs DEF JobsOK
      <4> QED BY <2>0, <2>2, <4>2, OwesAsBefore
    <3> QED BY <2>0, <2>2, <3>1, <3>2 DEF DebtOK
  <2> QED BY <1>2, <2>0, <2>1, <2>2, RequestAnnounces
<1>3. ASSUME NEW d \in Conns, Streaming(d)
      PROVE  /\ \/ latest'[c][r].version = version'[r]
                \/ \E p \in Publishers : OwesVersion(p, c, r)'
             /\ \/ latest'[c][r].mine = mine'[conn'[c].user][r]
                \/ \E p \in Publishers : OwesMine(p, c, r)'
  <2>0. UNCHANGED <<data, draft, sending>> /\ d \in Publishers
    BY <1>3, Frames, RoomStreamAssumption
  <2>1. CASE FetchRooms(d) /\ d = c
    <3>1. /\ conn'[c].user = conn[c].user /\ conn[c].user \in members[r]
          /\ latest'[c][r] = [version |-> version[r], mine |-> mine[conn[c].user][r]]
      BY <2>0, <2>1 DEF FetchRooms, ConnOK, Follows, PastOK, data
    <3> QED BY <2>0, <3>1 DEF data
  <2>2. CASE ~(FetchRooms(d) /\ d = c)
    <3>1. conn'[c] = conn[c] /\ latest'[c] = latest[c]
      <4>1. CASE d = c
        <5>1. conn'[c].at = "open" /\ conn'[c].fetched
          BY DEF Follows
        <5>2. ~SetInterest(c)
          BY <5>1 DEF SetInterest, Goto, ConnOK
        <5>3. /\ ~\E u \in Watchers : OpenStream(c, u)
              /\ ~SubscribeStream(c) /\ ~HangUp(c) /\ ~LeaveBus(c)
          <6>1. ~SubscribeStream(c) /\ ~HangUp(c) /\ ~LeaveBus(c)
            BY <5>1 DEF SubscribeStream, HangUp, LeaveBus, Goto, ConnOK
          <6>2. ASSUME NEW u \in Watchers, OpenStream(c, u) PROVE FALSE
            <7>1. conn'[c].at = "loaded"
              BY <6>2 DEF OpenStream, ConnOK
            <7> QED BY <5>1, <7>1
          <6> QED BY <6>1, <6>2
        <5>4. ReadEvent(c)
          BY <1>3, <2>2, <4>1, <5>2, <5>3 DEF Streaming
        <5> QED BY <5>4 DEF ReadEvent
      <4>2. CASE d # c
        <5>1. CASE FetchRooms(d)
          BY <4>2, <5>1 DEF FetchRooms, ConnOK, PastOK
        <5>2. CASE ~FetchRooms(d)
          <6>1. UNCHANGED latest
            BY <1>3, <5>2 DEF Streaming, OpenStream, SubscribeStream, SetInterest, ReadEvent, HangUp, LeaveBus
          <6> QED BY <1>3, <4>2, <6>1, StreamConn
        <5> QED BY <5>1, <5>2
      <4> QED BY <4>1, <4>2
    <3>2. Follows(c, r) /\ <<c, r>> \notin hushed
      <4>1. <<c, r>> \notin hushed
        BY <1>3, <2>2 DEF Streaming, OpenStream, SubscribeStream, SetInterest, FetchRooms, ReadEvent,
                          HangUp, LeaveBus
      <4> QED BY <2>0, <3>1, <4>1 DEF Follows, data
    <3>3. ASSUME NEW p \in Publishers, OwesVersion(p, c, r) \/ OwesMine(p, c, r)
          PROVE  /\ OwesVersion(p, c, r) => OwesVersion(p, c, r)'
                 /\ OwesMine(p, c, r) => OwesMine(p, c, r)'
      <4>1. jobs'[p] = jobs[p]
        BY <1>3, <3>3, StreamJobs, OwesNothing
      <4> QED BY <2>0, <3>1, <4>1, OwesAsBefore DEF data
    <3> QED BY <2>0, <3>1, <3>2, <3>3 DEF DebtOK, data
  <2> QED BY <2>1, <2>2
<1>4. CASE UNCHANGED vars
  <2>1. /\ UNCHANGED <<latest, version, mine, conn, jobs, draft, sending, hushed>> /\ Follows(c, r)
    BY <1>4 DEF vars, bus, data, Follows
  <2>2. \A p \in Publishers : /\ OwesVersion(p, c, r) => OwesVersion(p, c, r)'
                              /\ OwesMine(p, c, r) => OwesMine(p, c, r)'
    BY <2>1, OwesAsBefore
  <2> QED BY <2>1, <2>2 DEF DebtOK
<1>5. ASSUME NEW p \in Publishers, Dropping(p)
      PROVE  /\ \/ latest'[c][r].version = version'[r]
                \/ \E q \in Publishers : OwesVersion(q, c, r)'
             /\ \/ latest'[c][r].mine = mine'[conn'[c].user][r]
                \/ \E q \in Publishers : OwesMine(q, c, r)'
  <2>0. UNCHANGED <<sending, conn, members, version, mine, latest>> /\ Follows(c, r)
    BY <1>5, Frames DEF bus, data, Follows
  <2>1. <<c, r>> \notin hushed /\ ~Announces(Job(p), conn[c].user, r) /\ conn[c].user \in Users
    BY <1>5, <2>0, DropChanges DEF Addressed, Follows, ConnOK
  <2>2. ASSUME NEW q \in Publishers, OwesVersion(q, c, r) \/ OwesMine(q, c, r)
        PROVE  /\ OwesVersion(q, c, r) => OwesVersion(q, c, r)'
               /\ OwesMine(q, c, r) => OwesMine(q, c, r)'
    <3>1. CASE q = p
      <4>1. Busy(p) /\ sending[p] = Nothing /\ jobs'[p] = Tail(jobs[p]) /\ draft'[p] = NoDraft
        BY <1>5, DropChanges
      <4>2. ~Carrying(p, conn[c].user, r) /\ ~Handing(p, c, r)
        BY <2>1, <4>1 DEF Carrying, Handing, Nothing
      <4>3. Waiting(p, conn[c].user, r)
        BY <2>2, <3>1, <4>2 DEF OwesVersion, OwesMine
      <4>4. Waiting(p, conn[c].user, r)'
        BY <2>0, <2>1, <4>1, <4>3, LaterJobsWait
      <4> QED BY <2>0, <3>1, <4>4 DEF OwesVersion, OwesMine
    <3>2. CASE q # p
      BY <1>5, <2>0, <3>2, DropChanges, OwesAsBefore
    <3> QED BY <3>1, <3>2
  <2> QED BY <2>0, <2>1, <2>2 DEF DebtOK
<1>6. ASSUME Unannounced
      PROVE  /\ \/ latest'[c][r].version = version'[r]
                \/ \E p \in Publishers : OwesVersion(p, c, r)'
             /\ \/ latest'[c][r].mine = mine'[conn'[c].user][r]
                \/ \E p \in Publishers : OwesMine(p, c, r)'
  <2>0. UNCHANGED <<sending, mine, conn, draft, latest>>
    BY <1>6, Frames DEF bus
  <2>1. PICK rooms \in SUBSET Rooms : /\ CommitQuietly(rooms)
                                      /\ \A q \in Rooms \ rooms : members'[q] = members[q]
    BY <1>6, QuietChanges
  <2>2. r \notin rooms /\ <<c, r>> \notin hushed
    BY <2>1 DEF CommitQuietly
  <2>3. version'[r] = version[r] /\ Follows(c, r)
    BY <2>0, <2>1, <2>2 DEF CommitQuietly, Follows
  <2>4. PICK h : /\ UNCHANGED jobs \/ (h \in Handlers /\ ~Busy(h))
                 /\ \A p \in Publishers : p # h => jobs'[p] = jobs[p]
    BY <1>6, QuietJobs
  <2>5. ASSUME NEW p \in Publishers, OwesVersion(p, c, r) \/ OwesMine(p, c, r)
        PROVE  /\ OwesVersion(p, c, r) => OwesVersion(p, c, r)'
               /\ OwesMine(p, c, r) => OwesMine(p, c, r)'
    <3>1. jobs'[p] = jobs[p]
      BY <2>4, <2>5, OwesNothing
    <3> QED BY <2>0, <2>3, <3>1, OwesAsBefore
  <2> QED BY <2>0, <2>2, <2>3, <2>5 DEF DebtOK
<1> QED BY <1>1, <1>2, <1>3, <1>4, <1>5, <1>6, StepTakers

-----------------------------------------------------------------------------
(* The theorems                                                            *)

LEMMA Inductive == Spec => []IInv
<1>1. Init => IInv
  <2> SUFFICES ASSUME Init PROVE IInv
    OBVIOUS
  <2>1. TypeInv
    BY TypeInit
  <2>2. PastOK
    BY RoomStreamAssumption DEF Init, BusInit, PastOK, Nothing, NoDraft, Busy
  <2>3. TalkOK
    BY DEF Init, TalkOK
  <2>4. DebtOK
    BY DEF Init, DebtOK, Follows
  <2> QED BY <2>1, <2>2, <2>3, <2>4 DEF IInv
<1>2. IInv /\ [Next]_vars => IInv'
  BY TypeNext, PastNext, TalkNext, DebtNext DEF IInv
<1> QED BY <1>1, <1>2, PTL DEF Spec

\* When every publisher is done, a client whose stream is open and that listed
\* its rooms has the newest version of each room of its user and the user's own
\* settings for it, but for the rooms of which it holds that since the last
\* snapshot was built for it something changed that the code announces to nobody,
\* or whose announcement a failing query ended; and a talker's streams hear the
\* room's live events.  Nothing that happened while a stream opened, while a
\* snapshot was built or while the member joined or left is lost (stream.go,
\* room_stream.go).
THEOREM NobodyIsForgotten == Spec => []NobodyMissesOut
<1>1. IInv => NobodyMissesOut
  <2> SUFFICES ASSUME IInv PROVE NobodyMissesOut
    OBVIOUS
  <2>1. NewestIsDelivered
    <3> SUFFICES ASSUME \A p \in Publishers : ~Busy(p), NEW c \in Conns, NEW r \in Rooms,
                        Follows(c, r), <<c, r>> \notin hushed
                 PROVE  UpToDate(c, r)
      BY DEF NewestIsDelivered
    <3>1. latest[c][r].version = version[r] /\ latest[c][r].mine = mine[conn[c].user][r]
      BY OwesNothing DEF IInv, DebtOK
    <3>2. latest[c][r] \in [version : 0..MaxVersion, mine : 0..MaxVersion]
      BY DEF IInv, PastOK
    <3> QED BY <3>1, <3>2 DEF UpToDate
  <2>2. TalkersListen
    <3> SUFFICES ASSUME NEW c \in Conns, NEW r \in Rooms, conn[c].at = "open",
                        <<conn[c].user, r>> \in listening, <<c, r>> \notin missed
                 PROVE  c \in byRoom[r]
      BY DEF TalkersListen
    <3> QED BY DEF IInv, TypeInv, TalkOK, RegistryOK, Serving
  <2> QED BY <2>1, <2>2 DEF NobodyMissesOut
<1> QED BY <1>1, Inductive, PTL

-----------------------------------------------------------------------------
(* The bus does what RoomFeed promises                                     *)

\* The goroutine's place, as RoomFeed sees it.
Phase(k) == [off |-> "off", loaded |-> "off", subscribed |-> "open", open |-> "open",
             closing |-> "closing", gone |-> "gone"][k.at]

LEMMA FeedStreamIs ==
    /\ TypeInv => FeedStream = [c \in Conns |-> Phase(conn[c])]
    /\ (TypeInv => FeedStream = [c \in Conns |-> Phase(conn[c])])'
<1>1. TypeInv => FeedStream = [c \in Conns |-> Phase(conn[c])]
  <2> SUFFICES ASSUME TypeInv, NEW c \in Conns PROVE FeedStream[c] = Phase(conn[c])
    BY DEF FeedStream
  <2>1. /\ owner[c] = None <=> conn[c].at \in {"off", "loaded"}
        /\ closed[c] <=> conn[c].at \in {"closing", "gone"}
        /\ Registered(c) <=> Serving(c)
    BY RoomStreamAssumption DEF TypeInv, RegistryOK, ConnOK, Registered, Serving
  <2>2. FeedStream[c] = IF owner[c] = None THEN "off" ELSE IF ~closed[c] THEN "open"
                        ELSE IF Registered(c) THEN "closing" ELSE "gone"
    BY DEF FeedStream
  <2>3. CASE conn[c].at \in {"off", "loaded"}
    BY <2>1, <2>2, <2>3 DEF Phase
  <2>4. CASE conn[c].at \in {"subscribed", "open"}
    BY <2>1, <2>2, <2>4 DEF Phase
  <2>5. CASE conn[c].at = "closing"
    BY <2>1, <2>2, <2>5 DEF Phase, Serving
  <2>6. CASE conn[c].at = "gone"
    BY <2>1, <2>2, <2>6 DEF Phase, Serving
  <2> QED BY <2>3, <2>4, <2>5, <2>6 DEF TypeInv, ConnOK
<1>2. (TypeInv => FeedStream = [c \in Conns |-> Phase(conn[c])])'
  BY <1>1, PTL
<1> QED BY <1>1, <1>2

\* It is read off what the bus keeps.
LEMMA SameFeedStream ==
    ASSUME UNCHANGED <<owner, closed, byUser>>
    PROVE  UNCHANGED FeedStream
  BY DEF FeedStream, Registered

\* The streams that the bus picks are those that RoomFeed means.
LEMMA FeedTargets ==
    ASSUME TypeInv
    PROVE  /\ \A u \in Users : byUser[u] = Feed!StreamsOf(u)
           /\ \A r \in Rooms : byRoom[r] = Feed!Listeners(r)
<1> USE DEF TypeInv
<1>1. \A c \in Conns : FeedStream[c] \in {"open", "closing"} <=> Serving(c)
  BY FeedStreamIs DEF ConnOK, Serving, Phase
<1>2. \A c \in Conns : Serving(c) => owner[c] = conn[c].user
  BY DEF RegistryOK, Serving
<1>3. \A u \in Users : byUser[u] = Feed!StreamsOf(u)
  BY <1>1, <1>2 DEF RegistryOK, Feed!StreamsOf
<1>4. \A r \in Rooms : byRoom[r] = Feed!Listeners(r)
  BY <1>1 DEF RegistryOK, Feed!Listeners
<1> QED BY <1>3, <1>4

LEMMA FeedPublishing ==
    ASSUME TypeInv, TypeInv', NEW p \in Publishers, Publishing(p)
    PROVE  [Feed!Next]_(Feed!vars)
<1> USE DEF TypeInv
<1>0. UNCHANGED <<conn, owner, closed, byUser>> /\ UNCHANGED FeedStream
  BY Frames, SameFeedStream
<1>1. CASE Build(p) \/ Audience(p)
  BY <1>0, <1>1 DEF Build, Audience, bus, Feed!vars
<1>2. CASE AddInterest(p)
  <2> DEFINE u == Job(p).user
             r == Job(p).room
  <2>1. Busy(p) /\ Job(p).kind = "interest" /\ AddUserRoomInterest(u, r)
    BY <1>2 DEF AddInterest
  <2>2. u \in Users /\ r \in Rooms
    BY <2>1, JobOK DEF AJob
  <2> HIDE DEF u, r
  <2>3. \A c \in Conns : interest'[c] = IF Serving(c) /\ conn[c].user = u
                                        THEN interest[c] \cup {r} ELSE interest[c]
    BY <1>0, <2>1, <2>2, AddInterestRegistry
  <2>4. \A c \in Conns : Serving(c) /\ conn[c].user = u
                         <=> owner[c] = u /\ FeedStream[c] \in {"open", "closing"}
    <3>1. \A c \in Conns : FeedStream[c] \in {"open", "closing"} <=> Serving(c)
      BY FeedStreamIs DEF ConnOK, Serving, Phase
    <3> QED BY <3>1 DEF RegistryOK, Serving
  <2>5. interest' = [c \in Conns |-> IF owner[c] = u /\ FeedStream[c] \in {"open", "closing"}
                                     THEN interest[c] \cup {r} ELSE interest[c]]
    <3>1. interest' \in [Conns -> SUBSET Rooms]
      BY DEF RegistryOK
    <3> QED BY <2>3, <2>4, <3>1
  <2>6. Feed!ListenMore(u, r)
    BY <1>0, <2>1, <2>5 DEF AddUserRoomInterest, Feed!ListenMore
  <2> QED BY <2>2, <2>6 DEF Feed!Next
<1>3. ASSUME NEW to \in {Feed!Listeners(r) : r \in Rooms} \cup {Feed!StreamsOf(u) : u \in Users},
             NEW e \in AnEvent, Publish(p, to, e)
      PROVE  [Feed!Next]_(Feed!vars)
  <2>1. CASE to = {}
    <3>1. sending[p] = Nothing /\ sending' = [sending EXCEPT ![p] = Nothing]
      BY <1>3, <2>1 DEF Publish, SendOK
    <3>2. sending' = sending
      BY <3>1 DEF SendOK
    <3> QED BY <1>0, <1>3, <3>2 DEF Publish, Feed!vars
  <2>2. CASE to # {}
    <3>1. Feed!Publish(p)
      BY <1>0, <1>3, <2>2 DEF Publish, Feed!Publish, AnEvent
    <3> QED BY <3>1 DEF Feed!Next
  <2> QED BY <2>1, <2>2
<1>4. CASE SendLive(p)
  <2>1. Busy(p) /\ draft[p].at = "send" /\ Publish(p, byRoom[Job(p).room], Event(p))
    BY <1>4 DEF SendLive
  <2>2. Event(p) \in AnEvent /\ Job(p).room \in Rooms
    BY <2>1, EventOK, JobOK DEF AJob
  <2>3. byRoom[Job(p).room] \in {Feed!Listeners(r) : r \in Rooms}
    BY <2>2, FeedTargets
  <2> QED BY <1>3, <2>1, <2>2, <2>3
<1>5. ASSUME NEW u \in Users, SendToUser(p, u) \/ SendBare(p, u) PROVE [Feed!Next]_(Feed!vars)
  <2>1. PICK e \in {Event(p), EventFor(p, u)} :
            Busy(p) /\ draft[p].at = "send" /\ Publish(p, byUser[u], e)
    BY <1>5 DEF SendToUser, SendBare
  <2>2. e \in AnEvent
    BY <2>1, EventOK
  <2>3. byUser[u] \in {Feed!StreamsOf(v) : v \in Users}
    BY FeedTargets
  <2> QED BY <1>3, <2>1, <2>2, <2>3
<1>6. ASSUME NEW c \in Conns, Hand(p, c) PROVE Feed!Next
  <2>1. Deliver(p, c)
    BY <1>6 DEF Hand
  <2>2. conn[c].at \notin {"off", "loaded"} /\ (closed[c] <=> conn[c].at \in {"closing", "gone"})
    BY <2>1 DEF Deliver, SendOK, RegistryOK
  <2>3. FeedStream[c] = "open" <=> ~closed[c]
    BY <2>2, FeedStreamIs DEF ConnOK, Phase
  <2>4. Len(events[c]) \in Nat /\ Len(events[c]) <= BufferSize /\ BufferSize \in Nat
    BY RoomStreamAssumption DEF BoxOK
  <2>5. events' = IF FeedStream[c] # "open" THEN events
                  ELSE [events EXCEPT ![c] =
                          Append(IF Len(@) < BufferSize THEN @ ELSE Tail(@), sending[p].event)]
    <3>1. (IF Len(events[c]) = BufferSize THEN Tail(events[c]) ELSE events[c])
          = (IF Len(events[c]) < BufferSize THEN events[c] ELSE Tail(events[c]))
      BY <2>4
    <3>2. CASE closed[c]
      BY <2>1, <2>3, <3>2 DEF Deliver
    <3>3. CASE ~closed[c]
      BY <2>1, <2>3, <3>1, <3>3 DEF Deliver
    <3> QED BY <3>2, <3>3
  <2>6. Feed!Hand(p, c)
    BY <1>0, <2>1, <2>5 DEF Deliver, Nothing, Feed!Hand, Feed!Nobody
  <2> QED BY <2>6 DEF Feed!Next
<1> QED BY <1>1, <1>2, <1>4, <1>5, <1>6 DEF Publishing

LEMMA FeedStreaming ==
    ASSUME TypeInv, TypeInv', NEW c \in Conns, Streaming(c)
    PROVE  [Feed!Next]_(Feed!vars)
<1> USE DEF TypeInv
<1>0. UNCHANGED sending /\ \A d \in Conns \ {c} : conn'[d] = conn[d]
  BY Frames, StreamConn
<1>1. FeedStream = [d \in Conns |-> Phase(conn[d])] /\ FeedStream' = [d \in Conns |-> Phase(conn'[d])]
  BY FeedStreamIs
<1>2. FeedStream' = [FeedStream EXCEPT ![c] = Phase(conn'[c])] /\ FeedStream[c] = Phase(conn[c])
  BY <1>0, <1>1
<1>3. CASE \E u \in Watchers : OpenStream(c, u)
  <2>1. UNCHANGED bus /\ Phase(conn'[c]) = "off" /\ Phase(conn[c]) = "off"
    BY <1>3 DEF OpenStream, ConnOK, Phase
  <2>2. UNCHANGED FeedStream
    BY <1>1, <1>2, <2>1
  <2> QED BY <2>1, <2>2 DEF bus, Feed!vars
<1>4. CASE SubscribeStream(c)
  <2>1. /\ Subscribe(c, conn[c].user) /\ conn[c].user \in Users
        /\ Phase(conn'[c]) = "open" /\ Phase(conn[c]) = "off"
    BY <1>4 DEF SubscribeStream, Goto, ConnOK, Phase
  <2>2. Feed!Open(c, conn[c].user)
    BY <1>2, <2>1 DEF Subscribe, Feed!Open
  <2> QED BY <2>1, <2>2 DEF Feed!Next
<1>5. CASE SetInterest(c)
  <2>1. /\ SetRooms(c, conn[c].rooms) /\ conn[c].rooms \in SUBSET Rooms
        /\ Phase(conn'[c]) = "open" /\ Phase(conn[c]) = "open"
    BY <1>5 DEF SetInterest, Goto, ConnOK, Phase
  <2>2. UNCHANGED FeedStream
    BY <1>1, <1>2, <2>1
  <2>3. Feed!Listen(c, conn[c].rooms)
    BY <1>2, <2>1, <2>2 DEF SetRooms, Feed!Listen
  <2> QED BY <2>1, <2>3 DEF Feed!Next
<1>6. CASE FetchRooms(c)
  <2>1. UNCHANGED bus /\ Phase(conn'[c]) = Phase(conn[c])
    BY <1>6 DEF FetchRooms, ConnOK, Phase
  <2>2. UNCHANGED FeedStream
    BY <1>1, <1>2, <2>1
  <2> QED BY <2>1, <2>2 DEF bus, Feed!vars
<1>7. CASE ReadEvent(c)
  <2>1. Receive(c) /\ conn' = conn /\ Phase(conn[c]) = "open"
    BY <1>7 DEF ReadEvent, Phase
  <2>2. UNCHANGED FeedStream /\ FeedStream[c] = "open"
    BY <1>1, <1>2, <2>1
  <2>3. Feed!Read(c)
    BY <2>1, <2>2 DEF Receive, Feed!Read
  <2> QED BY <2>3 DEF Feed!Next
<1>8. CASE HangUp(c)
  <2>1. CloseChannel(c) /\ Phase(conn'[c]) = "closing" /\ Phase(conn[c]) = "open"
    BY <1>8 DEF HangUp, Goto, ConnOK, Phase
  <2>2. Feed!Close(c)
    BY <1>2, <2>1 DEF CloseChannel, Feed!Close
  <2> QED BY <2>2 DEF Feed!Next
<1>9. CASE LeaveBus(c)
  <2>1. Unregister(c) /\ Phase(conn'[c]) = "gone" /\ Phase(conn[c]) = "closing"
    BY <1>9 DEF LeaveBus, Goto, ConnOK, Phase
  <2>2. Feed!Close(c)
    BY <1>2, <2>1 DEF Unregister, Feed!Close
  <2> QED BY <2>2 DEF Feed!Next
<1> QED BY <1>3, <1>4, <1>5, <1>6, <1>7, <1>8, <1>9 DEF Streaming

\* Every step of the bus is one that RoomFeed allows or changes nothing that it
\* speaks of: events reach only streams that listen, in order, and at a full
\* stream only the oldest gives way (bus.go).
THEOREM BusImplementsFeed == Spec => KeepsItsPromise
<1>1. Init => Feed!Init
  <2> SUFFICES ASSUME Init PROVE Feed!Init
    OBVIOUS
  <2>1. \A c \in Conns : owner[c] = None
    BY DEF Init, BusInit
  <2>2. FeedStream = [c \in Conns |-> "off"]
    BY <2>1 DEF FeedStream
  <2> QED BY <2>2 DEF Init, BusInit, Nothing, Feed!Init, Feed!Nobody
<1>2. TypeInv /\ TypeInv' /\ [Next]_vars => [Feed!Next]_(Feed!vars)
  <2> SUFFICES ASSUME TypeInv, TypeInv', [Next]_vars PROVE [Feed!Next]_(Feed!vars)
    OBVIOUS
  <2>1. CASE \/ \E h \in Handlers, r \in Rooms : Requesting(h, r)
             \/ \E p \in Publishers : Dropping(p)
             \/ Unannounced
    <3>1. UNCHANGED <<bus, conn>>
      BY <2>1, Frames
    <3>2. UNCHANGED FeedStream
      BY <3>1, SameFeedStream DEF bus
    <3> QED BY <3>1, <3>2 DEF bus, Feed!vars
  <2>2. CASE UNCHANGED vars
    <3>1. UNCHANGED <<bus, conn>>
      BY <2>2 DEF vars
    <3>2. UNCHANGED FeedStream
      BY <3>1, SameFeedStream DEF bus
    <3> QED BY <3>1, <3>2 DEF bus, Feed!vars
  <2> QED BY <2>1, <2>2, StepTakers, FeedPublishing, FeedStreaming
<1>3. Spec => []TypeInv
  BY TypeInit, TypeNext, PTL DEF Spec
<1> QED BY <1>1, <1>2, <1>3, PTL DEF Spec, KeepsItsPromise, Feed!Spec
=============================================================================
