-------------------------- MODULE MusicBoxRoomProofs --------------------------
(***************************************************************************)
(* Theorems about MusicBoxRoom: its types hold, a room without a player is *)
(* stopped, no write of the state is lost, and what is asked for twice is  *)
(* done once.                                                              *)
(***************************************************************************)
EXTENDS MusicBoxRoom, FiniteSetTheorems, TLAPS

-----------------------------------------------------------------------------
(* The inductive invariant *)

OpNames == {"none", "enqueue", "remove", "play", "pause", "skip", "previous", "play_now", "stop",
            "clear", "set_mode", "switch", "activate", "expire"}
Kinds == {"wake", "stop", "skip", "previous", "resume", "pause", "play_now"}
Orders == UNION {[S -> Nat] : S \in SUBSET Nat}

PlayerType ==
    [pc : {"none", "connecting", "select", "play", "idle", "save", "exit"}, cur : Nat, sort : Int,
     paused : BOOLEAN, then : {"select", "play", "idle", "exit"}, ack : Requests \cup {Nobody},
     forced : BOOLEAN]
CommandType ==
    [kind : Kinds, item : Nat, sort : Int, from : Requests \cup {Nobody}, retried : BOOLEAN]
RequestType ==
    [pc : {"idle", "lock", "insert", "bump", "start", "starting", "delete", "send", "waiting",
           "orphan", "acked", "refused", "cleared", "settle"},
     op : OpNames, arg : Nat \cup Modes, sort : Int, undo : Orders, starter : BOOLEAN]
SavingType == [by : {"player", "ended"}, db : Db, live : BOOLEAN, overtaken : BOOLEAN]
WakerType == [item : Nat, sort : Int, gone : BOOLEAN]

\* The queue, the state in the database and the cursor.
DataOK ==
    /\ lastId \in Nat
    /\ DOMAIN rows \subseteq 1 .. lastId
    /\ rows \in [DOMAIN rows -> Row]
    /\ db \in Db
    /\ cursor \in [scope : Nat \cup {-1}, after : Int]

\* The player; it owes an answer only while it connects or saves.
PlayerOK ==
    /\ player \in PlayerType
    /\ Stopped \/ ~Registered => player.cur = None
    /\ player.pc = "exit" => player.then = "exit"
    /\ player.pc \notin {"connecting", "save"} \/ Stopped => player.ack = Nobody

\* What waits in the channel is for a player that still listens.
ChannelOK ==
    /\ channel \in Seq(CommandType)
    /\ Len(channel) <= ChannelSize
    /\ channel # <<>> => Registered /\ ~Stopped

SavingOK ==
    /\ ending \in Nat
    /\ saving = Unlocked \/ saving \in SavingType
    /\ saving.by = "player" => player.pc = "save"
    /\ saving.by = "ended" => ending > 0

\* A request at a step has the operation and the argument that the step is for.
RequestOK(r) ==
    /\ req[r].op = "set_mode" => req[r].arg \in Modes
    /\ req[r].op # "set_mode" => req[r].arg \in Nat
    /\ req[r].op = "stop" => req[r].sort \in Nat
    /\ req[r].pc = "insert" => req[r].op = "enqueue"
    /\ req[r].pc = "settle" => req[r].op \in {"switch", "activate"}
    /\ req[r].pc = "delete" => req[r].op = "remove"
    /\ req[r].pc = "cleared" => req[r].op = "clear"
    /\ req[r].pc \in {"send", "waiting"} => req[r].op \notin {"none", "enqueue", "set_mode"}
    /\ req[r].op # "remove" /\ req[r].pc \notin {"idle", "lock"} => control = r
RequestsOK ==
    /\ req \in [Requests -> RequestType]
    /\ control \in Requests \cup {Nobody}
    /\ \A r \in Requests : RequestOK(r)

RestOK ==
    /\ wakers \subseteq {Prepared} \cup WakerType
    /\ seen \subseteq {"skip"}
    /\ left \in [requests : Nat, upsets : Nat]
    /\ obeyed \in Nat
    /\ excused \in BOOLEAN

TypeInv == DataOK /\ PlayerOK /\ ChannelOK /\ SavingOK /\ RequestsOK /\ RestOK

\* Whoever the player or a command in the channel will answer waits for it, and for
\* nothing else.
AnswersOK ==
    /\ player.ack # Nobody =>
          IF player.pc = "connecting" THEN req[player.ack].pc = "starting"
          ELSE req[player.ack].pc \in {"starting", "waiting"}
    /\ \A n \in DOMAIN channel : channel[n].from # Nobody =>
          /\ req[channel[n].from].pc = "waiting"
          /\ channel[n].from # player.ack
          /\ channel[n].retried => req[channel[n].from].op = "skip"
          /\ \A m \in DOMAIN channel : channel[m].from = channel[n].from => m = n

\* Without a player that has played, and without one that has yet to persist its end,
\* the room is stopped.
SilentOK ==
    (~Registered \/ player.pc = "connecting") /\ ending = 0 => db.play = "stopped"

\* The command is in the channel of the player, is being obeyed, or is remembered.
SkipOK ==
    ~excused =>
        /\ obeyed <= 1
        /\ obeyed = 1 => \/ "skip" \in seen
                         \/ \E r \in Requests :
                               /\ req[r].op = "skip"
                               /\ \/ req[r].pc = "acked"
                                  \/ req[r].pc = "waiting" /\ player.ack = r /\ player.pc = "save"
        /\ \A n \in DOMAIN channel : channel[n].retried => obeyed = 0 /\ channel[n].from # Nobody
        /\ "skip" \in seen => \A r \in Requests : req[r].op = "skip" => req[r].pc \in {"idle", "lock"}

\* A request that is about to insert a track has found that there is room for it.
RoomOK ==
    \A r \in Requests : req[r].pc = "insert" =>
        /\ Cardinality(InScope(Temporary)) < Limit
        /\ \A i \in InScope(Temporary) : rows[i].track # req[r].arg

IInv == TypeInv /\ AnswersOK /\ SilentOK /\ UpdatesAreNotLost /\ SkipOK /\ RoomOK /\ DoneOnce
-----------------------------------------------------------------------------
(* Operators *)

\* A finite set that is not empty has a first element in a strict total order.
LEMMA FirstExists ==
    ASSUME NEW S, IsFiniteSet(S), S # {}, NEW R,
           \A a \in S : <<a, a>> \notin R,
           \A a, b \in S : a # b => <<a, b>> \in R \/ <<b, a>> \in R,
           \A a, b, c \in S : <<a, b>> \in R /\ <<b, c>> \in R => <<a, c>> \in R
    PROVE  \E m \in S : \A n \in S \ {m} : <<m, n>> \in R
<1> DEFINE Below(m) == {o \in S : <<o, m>> \in R}
           T == {Below(m) : m \in S}
<1>1. T \subseteq FiniteSubsetsOf(S)
  <2>1. \A m \in S : Below(m) \in SUBSET S
    OBVIOUS
  <2>2. \A m \in S : IsFiniteSet(Below(m))
    BY <2>1, FS_Subset
  <2>3. \A m \in S : Below(m) \in FiniteSubsetsOf(S)
    BY <2>1, <2>2 DEF FiniteSubsetsOf
  <2> HIDE DEF Below
  <2>. QED  BY <2>3
<1>2. T # {}
  <2>1. PICK m \in S : TRUE
    OBVIOUS
  <2>2. Below(m) \in T
    OBVIOUS
  <2>. QED  BY <2>2
<1>3. PICK D \in T : \A E \in T : ~ (<<E, D>> \in StrictSubsetOrdering(S))
  BY <1>1, <1>2, FS_StrictSubsetOrderingWellFounded, WFMin
<1>4. PICK m \in S : D = Below(m)
  OBVIOUS
<1>5. \A n \in S : <<n, m>> \notin R
  <2> SUFFICES ASSUME NEW n \in S, <<n, m>> \in R  PROVE FALSE
    OBVIOUS
  <2>1. Below(n) \subseteq Below(m) /\ n \in Below(m) /\ n \notin Below(n)
    OBVIOUS
  <2>2. Below(n) \in T /\ Below(n) \in SUBSET S /\ Below(m) \in SUBSET S
    OBVIOUS
  <2>3. <<Below(n), Below(m)>> \in StrictSubsetOrdering(S)
    BY <2>1, <2>2 DEF StrictSubsetOrdering
  <2>. QED  BY <2>2, <2>3, <1>3, <1>4
<1>. QED  BY <1>4, <1>5

\* The room's rows are finitely many.
LEMMA RowsFinite ==
    ASSUME DataOK
    PROVE  \A S : S \subseteq DOMAIN rows => IsFiniteSet(S) /\ Cardinality(S) \in Nat
<1>1. IsFiniteSet(1 .. lastId)
  <2>1. 1 \in Int /\ lastId \in Int
    BY DEF DataOK
  <2>. QED  BY <2>1, FS_Interval, Zenon
<1>2. IsFiniteSet(DOMAIN rows)
  BY <1>1, FS_Subset DEF DataOK
<1>. QED  BY <1>2, FS_Subset, FS_CardinalityType

\* What FirstOf and LastOf find is in the set, if anything is.
LEMMA FoundIsThere ==
    ASSUME DataOK, NEW S, S \subseteq DOMAIN rows
    PROVE  IF S = {} THEN FirstOf(S) = None /\ LastOf(S) = None
           ELSE FirstOf(S) \in S /\ LastOf(S) \in S
<1>1. IsFiniteSet(S)
  BY RowsFinite
<1>2. \A i \in S : i \in Int /\ rows[i].sort \in Int
  BY DEF DataOK, Row
<1>3. ASSUME S # {}  PROVE \E m \in S : \A n \in S \ {m} : Before(m, n)
  <2> DEFINE R == {p \in S \X S : Before(p[1], p[2])}
  <2>1. \A a, b \in S : <<a, b>> \in R <=> Before(a, b)
    OBVIOUS
  <2>2. \A a \in S : <<a, a>> \notin R
    BY <2>1, <1>2 DEF Before
  <2>3. \A a, b \in S : a # b => <<a, b>> \in R \/ <<b, a>> \in R
    BY <2>1, <1>2 DEF Before
  <2>4. \A a, b, c \in S : <<a, b>> \in R /\ <<b, c>> \in R => <<a, c>> \in R
    BY <2>1, <1>2 DEF Before
  <2> HIDE DEF R
  <2>5. \E m \in S : \A n \in S \ {m} : <<m, n>> \in R
    BY <1>1, <1>3, <2>2, <2>3, <2>4, FirstExists
  <2>. QED  BY <2>1, <2>5
<1>4. ASSUME S # {}  PROVE \E m \in S : \A n \in S \ {m} : Before(n, m)
  <2> DEFINE R == {p \in S \X S : Before(p[2], p[1])}
  <2>1. \A a, b \in S : <<a, b>> \in R <=> Before(b, a)
    OBVIOUS
  <2>2. \A a \in S : <<a, a>> \notin R
    BY <2>1, <1>2 DEF Before
  <2>3. \A a, b \in S : a # b => <<a, b>> \in R \/ <<b, a>> \in R
    BY <2>1, <1>2 DEF Before
  <2>4. \A a, b, c \in S : <<a, b>> \in R /\ <<b, c>> \in R => <<a, c>> \in R
    BY <2>1, <1>2 DEF Before
  <2> HIDE DEF R
  <2>5. \E m \in S : \A n \in S \ {m} : <<m, n>> \in R
    BY <1>1, <1>4, <2>2, <2>3, <2>4, FirstExists
  <2>. QED  BY <2>1, <2>5
<1>. QED  BY <1>3, <1>4 DEF FirstOf, LastOf

\* An order gives every row of the request queue a place.
LEMMA OrderType ==
    ASSUME DataOK
    PROVE  /\ \A i \in InScope(Temporary) : IndexOfQueueItem(i) \in Nat
           /\ TemporaryOrder \in [InScope(Temporary) -> Nat]
           /\ TemporaryOrder \in Orders
<1>1. ASSUME NEW i  PROVE IndexOfQueueItem(i) \in Nat
  <2> DEFINE S == {j \in InScope(Temporary) : Before(j, i)}
  <2>1. S \subseteq DOMAIN rows
    BY DEF InScope
  <2>. QED  BY <2>1, RowsFinite DEF IndexOfQueueItem
<1>2. InScope(Temporary) \in SUBSET Nat
  BY DEF DataOK, InScope
<1>. QED  BY <1>1, <1>2 DEF TemporaryOrder, Orders

LEMMA OrderPlaces ==
    ASSUME NEW order \in Orders
    PROVE  \A i \in DOMAIN order : order[i] \in Int
<1>1. PICK S \in SUBSET Nat : order \in [S -> Nat]
  BY DEF Orders
<1>. QED  BY <1>1

\* Rows that get new places stay the rows that they are.
LEMMA RewrittenType ==
    ASSUME DataOK, NEW order, \A i \in InScope(Temporary) : order[i] \in Int
    PROVE  /\ DOMAIN Rewritten(order) = DOMAIN rows
           /\ Rewritten(order) \in [DOMAIN rows -> Row]
           /\ \A i \in DOMAIN rows : /\ Rewritten(order)[i].scope = rows[i].scope
                                     /\ Rewritten(order)[i].track = rows[i].track
<1>1. \A i \in DOMAIN rows : rows[i] \in Row
  BY DEF DataOK
<1>2. ASSUME NEW i \in DOMAIN rows, rows[i].scope = Temporary
      PROVE  [rows[i] EXCEPT !.sort = 10 * order[i]] \in Row
  <2>1. 10 * order[i] \in Int
    BY <1>2 DEF InScope
  <2>. QED  BY <1>1, <2>1 DEF Row
<1>. QED  BY <1>1, <1>2 DEF Rewritten, Row


\* The same for the fixed order in which a shuffled queue is played.
LEMMA ShuffledIsThere ==
    ASSUME DataOK, NEW prev, NEW back \in BOOLEAN
    PROVE  Shuffled(prev, back) \in DOMAIN rows \cup {None}
<1>1. ASSUME NEW S, S \subseteq DOMAIN rows, S # {}
      PROVE  /\ \E m \in S : \A n \in S \ {m} : ShuffledBefore(m, n)
             /\ \E m \in S : \A n \in S \ {m} : ShuffledBefore(n, m)
  <2>1. IsFiniteSet(S)
    BY <1>1, RowsFinite
  <2>2. S \subseteq Int
    BY <1>1 DEF DataOK
  <2>3. \E m \in S : \A n \in S \ {m} : ShuffledBefore(m, n)
    <3> DEFINE R == {p \in S \X S : p[1] > p[2]}
    <3>1. \A a, b \in S : <<a, b>> \in R <=> a > b
      OBVIOUS
    <3>2. /\ \A a \in S : <<a, a>> \notin R
          /\ \A a, b \in S : a # b => <<a, b>> \in R \/ <<b, a>> \in R
          /\ \A a, b, c \in S : <<a, b>> \in R /\ <<b, c>> \in R => <<a, c>> \in R
      BY <3>1, <2>2
    <3> HIDE DEF R
    <3>3. \E m \in S : \A n \in S \ {m} : <<m, n>> \in R
      BY <1>1, <2>1, <3>2, FirstExists
    <3>. QED  BY <3>1, <3>3 DEF ShuffledBefore
  <2>4. \E m \in S : \A n \in S \ {m} : ShuffledBefore(n, m)
    <3> DEFINE R == {p \in S \X S : p[2] > p[1]}
    <3>1. \A a, b \in S : <<a, b>> \in R <=> b > a
      OBVIOUS
    <3>2. /\ \A a \in S : <<a, a>> \notin R
          /\ \A a, b \in S : a # b => <<a, b>> \in R \/ <<b, a>> \in R
          /\ \A a, b, c \in S : <<a, b>> \in R /\ <<b, c>> \in R => <<a, c>> \in R
      BY <3>1, <2>2
    <3> HIDE DEF R
    <3>3. \E m \in S : \A n \in S \ {m} : <<m, n>> \in R
      BY <1>1, <2>1, <3>2, FirstExists
    <3>. QED  BY <3>1, <3>3 DEF ShuffledBefore
  <2>. QED  BY <2>3, <2>4
<1> DEFINE ready == {i \in InScope(db.source) : Playable(i)}
           first == CHOOSE i \in ready : \A j \in ready \ {i} : ShuffledBefore(i, j)
           last == CHOOSE i \in ready : \A j \in ready \ {i} : ShuffledBefore(j, i)
           from == IF prev \in ready THEN prev ELSE first
           behind == {i \in ready : ShuffledBefore(from, i)}
           ahead == {i \in ready : ShuffledBefore(i, from)}
           before == IF ahead = {} THEN last
                     ELSE CHOOSE i \in ahead : \A j \in ahead \ {i} : ShuffledBefore(j, i)
           after == IF behind = {} THEN first
                    ELSE CHOOSE i \in behind : \A j \in behind \ {i} : ShuffledBefore(i, j)
<1>2. ready \subseteq DOMAIN rows /\ ahead \subseteq ready /\ behind \subseteq ready
  BY DEF InScope
<1>3. Shuffled(prev, back) = IF ready = {} THEN None ELSE IF back THEN before ELSE after
  BY DEF Shuffled
<1>. HIDE DEF ready, ahead, behind
<1>4. CASE ready = {}
  BY <1>3, <1>4
<1>5. CASE ready # {}
  <2>1. first \in ready /\ last \in ready
    BY <1>1, <1>2, <1>5
  <2>2. ASSUME ahead # {}
        PROVE  (CHOOSE i \in ahead : \A j \in ahead \ {i} : ShuffledBefore(j, i)) \in ahead
    BY <1>1, <1>2, <2>2
  <2>3. ASSUME behind # {}
        PROVE  (CHOOSE i \in behind : \A j \in behind \ {i} : ShuffledBefore(i, j)) \in behind
    BY <1>1, <1>2, <2>3
  <2>4. before \in ready /\ after \in ready
    BY <1>2, <2>1, <2>2, <2>3
  <2>. QED  BY <1>2, <1>3, <1>5, <2>4
<1>. QED  BY <1>4, <1>5

\* What the player may go on with is a row, or nothing; the cursor is a number.
LEMMA ChoiceType ==
    ASSUME DataOK
    PROVE  /\ \A scope : CursorAfter(scope) \in Int
           /\ \A scope, after : FirstPlayableInScope(scope, after) \in DOMAIN rows \cup {None}
           /\ \A scope, before : LastPlayableBefore(scope, before) \in DOMAIN rows \cup {None}
           /\ FirstItem \in DOMAIN rows \cup {None}
           /\ NextSortOrder \in Int
<1>1. \A scope : CursorAfter(scope) \in Int
  BY DEF CursorAfter, DataOK
<1>2. \A scope, after : FirstPlayableInScope(scope, after) \in DOMAIN rows \cup {None}
  BY FoundIsThere DEF FirstPlayableInScope, InScope
<1>3. \A scope, before : LastPlayableBefore(scope, before) \in DOMAIN rows \cup {None}
  BY FoundIsThere DEF LastPlayableBefore, InScope
<1>4. FirstItem \in DOMAIN rows \cup {None}
  BY <1>2 DEF FirstItem, Playable, IsRow
<1>5. NextSortOrder \in Int
  <2>1. CASE InScope(Temporary) = {}
    BY <2>1 DEF NextSortOrder
  <2>2. CASE InScope(Temporary) # {}
    <3>1. LastOf(InScope(Temporary)) \in InScope(Temporary)
      BY <2>2, FoundIsThere DEF InScope
    <3>3. rows[LastOf(InScope(Temporary))].sort \in Int
      BY <3>1 DEF InScope, DataOK, Row
    <3>. QED  BY <2>2, <3>3 DEF NextSortOrder
  <2>. QED  BY <2>1, <2>2
<1>. QED  BY <1>1, <1>2, <1>3, <1>4, <1>5

\* What the player goes on with after its current row is a row, the same, or nothing.
LEMMA AfterType ==
    ASSUME DataOK, PlayerOK, NEW transition, NEW late \in BOOLEAN
    PROVE  After(transition, late) \in DOMAIN rows \cup {None, player.cur}
<1>1. Shuffled(player.cur, ~Forward(transition)) \in DOMAIN rows \cup {None}
  BY ShuffledIsThere DEF Forward
<1>. QED  BY <1>1, ChoiceType DEF After

\* The state that is persisted is a state.
LEMMA PersistedType ==
    ASSUME DataOK, PlayerOK, NEW live \in BOOLEAN, NEW st \in Db
    PROVE  /\ Snapshot(live) \in [play : {"stopped", "playing", "paused"}, current : Nat]
           /\ Persisted(st, live) \in Db
<1>1. Snapshot(live) \in [play : {"stopped", "playing", "paused"}, current : Nat]
  BY DEF Snapshot, PlayerOK, PlayerType, None
<1>. QED  BY <1>1 DEF Persisted, Db

\* Rows that are left are the rows that they were.
LEMMA WithoutType ==
    ASSUME DataOK, NEW S
    PROVE  /\ DOMAIN Without(S) = DOMAIN rows \ S
           /\ Without(S) \in [DOMAIN rows \ S -> Row]
           /\ \A i \in DOMAIN rows \ S : Without(S)[i] = rows[i]
  BY DEF DataOK, Without

\* rows' has some of the rows, as they were.
Subrows == /\ DOMAIN rows' \subseteq DOMAIN rows
           /\ rows' \in [DOMAIN rows' -> Row]
           /\ \A i \in DOMAIN rows' : rows'[i] = rows[i]

LEMMA WithoutLeavesSubrows ==
    ASSUME DataOK, NEW S, rows' = Without(S)
    PROVE  Subrows
  BY WithoutType DEF Subrows

LEMMA PlayerSavesType ==
    ASSUME PlayerOK, NEW fields, NEW then \in {"select", "play", "idle"},
           fields.cur \in Nat, fields.sort \in Int, fields.paused \in BOOLEAN,
           fields.forced \in BOOLEAN, NEW ack \in Requests \cup {Nobody},
           PlayerSaves(fields, then, ack)
    PROVE  /\ player' \in PlayerType
           /\ player'.pc = "save" /\ player'.then = then /\ player'.ack = ack
           /\ player'.cur = fields.cur
  BY DEF PlayerSaves, PlayerOK, PlayerType

\* Going on to another row: the player saves it, and rows may go.
LEMMA NextItemType ==
    ASSUME DataOK, PlayerOK, NEW transition, NEW late \in BOOLEAN,
           NEW ack \in Requests \cup {Nobody}, NextItem(transition, late, ack)
    PROVE  /\ player' \in PlayerType
           /\ player'.pc = "save" /\ player'.then \in {"select", "play"} /\ player'.ack = ack
           /\ Subrows
           /\ cursor' \in [scope : Nat \cup {-1}, after : Int]
<1> DEFINE next == After(transition, late)
<1>1. next \in DOMAIN rows \cup {None, player.cur}
  BY AfterType
<1>2. PlayNext(next, ack)
  BY DEF NextItem
<1>3. player \in PlayerType
  BY DEF PlayerOK
<1>4. next \in Nat
  BY <1>1, <1>3 DEF DataOK, PlayerType, None
<1>5. /\ player' \in PlayerType
      /\ player'.pc = "save" /\ player'.then \in {"select", "play"} /\ player'.ack = ack
  <2> HIDE DEF next
  <2>1. CASE next = None
    <3>1. PlayerSaves(Nothing, "select", ack)
      BY <1>2, <2>1 DEF PlayNext
    <3>2. /\ Nothing.cur \in Nat /\ Nothing.sort \in Int
          /\ Nothing.paused \in BOOLEAN /\ Nothing.forced \in BOOLEAN
      BY <1>3 DEF Nothing, PlayerType, None
    <3>. QED  BY <3>1, <3>2, PlayerSavesType
  <2>2. CASE next # None
    <3> DEFINE f == Playing(next, IF next = player.cur THEN player.sort ELSE rows[next].sort)
    <3>1. PlayerSaves(f, "play", ack)
      BY <1>2, <2>2 DEF PlayNext
    <3>2. (IF next = player.cur THEN player.sort ELSE rows[next].sort) \in Int
      BY <1>1, <1>3, <2>2 DEF DataOK, PlayerType, Row
    <3>3. f.cur \in Nat /\ f.sort \in Int /\ f.paused \in BOOLEAN /\ f.forced \in BOOLEAN
      BY <1>3, <1>4, <3>2 DEF Playing, PlayerType
    <3> HIDE DEF f
    <3>. QED  BY <3>1, <3>3, PlayerSavesType
  <2>. QED  BY <2>1, <2>2
<1>6. Subrows
  <2>1. rows' = rows \/ rows' = Pruned(player.sort)
    BY DEF NextItem
  <2>2. CASE rows' = rows
    BY <2>2 DEF Subrows, DataOK
  <2>3. CASE rows' = Pruned(player.sort)
    <3> DEFINE played == {i \in InScope(Temporary) : rows[i].sort <= player.sort}
               S == {i \in played : Cardinality({j \in played \ {i} : Before(i, j)}) >= History}
    <3>1. rows' = Without(S)
      BY <2>3 DEF Pruned
    <3> HIDE DEF S
    <3>. QED  BY <3>1, WithoutType DEF Subrows
  <2>. QED  BY <2>1, <2>2, <2>3
<1>7. cursor' \in [scope : Nat \cup {-1}, after : Int]
  <2>1. \/ cursor' = cursor
        \/ cursor' = [scope |-> db.source, after |-> -1]
        \/ cursor' = [scope |-> db.source, after |-> player.sort]
    BY DEF NextItem, SetCursor
  <2>. QED  BY <1>3, <2>1 DEF DataOK, Db, PlayerType
<1>. QED  BY <1>5, <1>6, <1>7

-----------------------------------------------------------------------------
(* Types: the queue and the state *)

LEMMA SubrowsKeepData ==
    ASSUME DataOK, Subrows, lastId' = lastId, db' = db,
           cursor' \in [scope : Nat \cup {-1}, after : Int]
    PROVE  DataOK'
  BY DEF DataOK, Subrows

LEMMA RewriteKeepsData ==
    ASSUME DataOK, NEW order, \A i \in InScope(Temporary) : order[i] \in Int,
           rows' = Rewritten(order), UNCHANGED <<lastId, db, cursor>>
    PROVE  DataOK'
  BY RewrittenType DEF DataOK

\* A row that moves takes others with it, and no row is lost.
LEMMA MoveKeepsData ==
    ASSUME DataOK, NEW target \in InScope(Temporary), NEW after \in InScope(Temporary),
           MoveTemporaryItemAfter(target, after), UNCHANGED <<lastId, db, cursor>>
    PROVE  /\ DataOK'
           /\ DOMAIN rows' = DOMAIN rows
           /\ \A i \in DOMAIN rows : rows'[i].scope = rows[i].scope /\ rows'[i].track = rows[i].track
<1> DEFINE P(i) == IF Before(target, i) THEN TemporaryOrder[i] - 1 ELSE TemporaryOrder[i]
           new == P(after) + 1
           order == [i \in InScope(Temporary) |-> IF i = target THEN new
                                                  ELSE IF P(i) < new THEN P(i) ELSE P(i) + 1]
<1>1. rows' = Rewritten(order)
  BY DEF MoveTemporaryItemAfter
<1>2. \A i \in InScope(Temporary) : P(i) \in Int
  BY OrderType
<1>3. new \in Int
  BY <1>2
<1> HIDE DEF P, new
<1>4. \A i \in InScope(Temporary) : order[i] \in Int
  BY <1>2, <1>3
<1> HIDE DEF order
<1>. QED  BY <1>1, <1>4, RewriteKeepsData, RewrittenType

DataStays == UNCHANGED <<rows, lastId, db, cursor>>

LEMMA DataStaysOK == ASSUME DataOK, DataStays  PROVE DataOK'
  BY DEF DataOK, DataStays

LEMMA BeginKeepsData ==
    ASSUME TypeInv, NEW r \in Requests, Begin(r)
    PROVE  DataOK'
<1>0. DataOK
  BY DEF TypeInv
<1>1. CASE Replay(r) \/ BeginEnqueue(r) \/ BeginTransport(r) \/ BeginGuarded(r)
           \/ BeginStopping(r) \/ BeginRemove(r)
  <2>1. DataStays
    BY <1>1 DEF DataStays, Replay, BeginEnqueue, BeginTransport, BeginGuarded, BeginStopping,
                BeginRemove, queue
  <2>. QED  BY <1>0, <2>1, DataStaysOK
<1>2. CASE BeginPlayNow(r)
  <2> DEFINE item == req[r].arg
             now == IF Registered THEN Snapshot(TRUE).current
                    ELSE IF db.play = "stopped" THEN None ELSE db.current
             interrupts == db.source = Temporary /\ now \notin {None, item}
             moves == interrupts /\ now \in InScope(Temporary) /\ MustMove(item, now)
  <2>1. UNCHANGED <<lastId, db, cursor>>
    BY <1>2 DEF BeginPlayNow
  <2>2. rows' = rows \/ (/\ moves /\ MoveTemporaryItemAfter(item, now)
                         /\ item \in InScope(Temporary) /\ now \in InScope(Temporary))
    BY <1>2 DEF BeginPlayNow, Playable, IsRow, InScope
  <2> HIDE DEF item, now
  <2>. QED  BY <1>0, <2>1, <2>2, MoveKeepsData, DataStaysOK DEF DataStays
<1>. QED  BY <1>1, <1>2 DEF Begin

LEMMA ContinueKeepsData ==
    ASSUME RoomAssumption, TypeInv, NEW r \in Requests, Continue(r)
    PROVE  DataOK'
<1>0. DataOK /\ RequestsOK /\ RequestOK(r) /\ req[r] \in RequestType
  BY DEF TypeInv, RequestsOK
<1>1. CASE Start(r) \/ Send(r) \/ OrphanTimesOut(r) \/ Succeed(r) \/ Bump(r)
  <2>1. DataStays
    BY <1>1 DEF DataStays, Start, Send, OrphanTimesOut, Succeed, Bump, Save, queue
  <2>. QED  BY <1>0, <2>1, DataStaysOK
<1>2. CASE Fail(r)
  <2>1. UNCHANGED <<lastId, db, cursor>>
    BY <1>2 DEF Fail
  <2>2. CASE rows' = rows
    BY <1>0, <2>1, <2>2, DataStaysOK DEF DataStays
  <2>3. CASE rows' # rows
    <3>1. DOMAIN req[r].undo = InScope(Temporary) /\ rows' = Rewritten(req[r].undo)
      BY <1>2, <2>3 DEF Fail, RestoreTemporaryQueueOrder
    <3>2. req[r].undo \in Orders
      BY <1>0 DEF RequestType
    <3>3. \A i \in InScope(Temporary) : req[r].undo[i] \in Int
      BY <3>1, <3>2, OrderPlaces
    <3>. QED  BY <1>0, <2>1, <3>1, <3>3, RewriteKeepsData
  <2>. QED  BY <2>2, <2>3
<1>3. CASE Insert(r)
  <2> DEFINE after == CursorAfter(Temporary)
             sort == IF req[r].sort <= after THEN after + 10 ELSE req[r].sort
             row == [scope |-> Temporary, sort |-> sort, track |-> req[r].arg, status |-> "pending"]
  <2>1. /\ rows' = [i \in DOMAIN rows \cup {lastId + 1} |-> IF i \in DOMAIN rows THEN rows[i] ELSE row]
        /\ lastId' = lastId + 1
        /\ UNCHANGED <<db, cursor>>
    BY <1>3 DEF Insert
  <2>2. sort \in Int
    BY <1>0, ChoiceType DEF RequestType
  <2>3. req[r].arg \in Nat
    BY <1>0, <1>3 DEF Insert, RequestOK
  <2>4. row \in Row
    BY <2>2, <2>3 DEF Row, Temporary
  <2> HIDE DEF row
  <2>. QED  BY <1>0, <2>1, <2>4 DEF DataOK
<1>4. CASE Remove(r)
  <2>1. rows' = Without({req[r].arg}) /\ UNCHANGED <<lastId, db, cursor>>
    BY <1>4 DEF Remove
  <2>2. Subrows
    BY <1>0, <2>1, WithoutLeavesSubrows
  <2>. QED  BY <1>0, <2>1, <2>2, SubrowsKeepData DEF DataOK
<1>5. CASE StopRoom(r)
  <2>1. req[r].sort \in Nat
    BY <1>0, <1>5 DEF StopRoom, RequestOK
  <2>. QED  BY <1>0, <1>5, <2>1 DEF StopRoom, Save, queue, DataOK, Db
<1>6. CASE DeleteTemporaryQueue(r) \/ ClearTemporaryQueue(r)
  <2>1. CASE DeleteTemporaryQueue(r)
    <3>1. rows' = Without(InScope(Temporary)) /\ UNCHANGED <<lastId, db, cursor>>
      BY <2>1 DEF DeleteTemporaryQueue
    <3>2. Subrows
      BY <1>0, <3>1, WithoutLeavesSubrows
    <3>. QED  BY <1>0, <3>1, <3>2, SubrowsKeepData DEF DataOK
  <2>2. CASE ClearTemporaryQueue(r)
    BY <1>0, <2>2 DEF ClearTemporaryQueue, Save, queue, DataOK, Db, None
  <2>. QED  BY <1>6, <2>1, <2>2
<1>7. CASE SetPlaybackMode(r)
  <2>1. req[r].arg \in Modes
    BY <1>0, <1>7 DEF SetPlaybackMode, RequestOK
  <2>. QED  BY <1>0, <1>7, <2>1 DEF SetPlaybackMode, Save, queue, DataOK, Db
<1>8. CASE Activate(r)
  <2> DEFINE new == IF req[r].op = "activate" THEN lastId + 1 .. lastId + Saved ELSE {}
             source == IF req[r].op = "activate" THEN lastId + 1 ELSE Temporary
             row(i) == [scope |-> source, sort |-> 10 * (i - lastId), track |-> i - lastId,
                        status |-> "pending"]
  <2>1. /\ rows' = [i \in DOMAIN rows \cup new |-> IF i \in DOMAIN rows THEN rows[i] ELSE row(i)]
        /\ lastId' = IF new = {} THEN lastId ELSE lastId + Saved
        /\ db' = [db EXCEPT !.play = "stopped", !.current = None, !.source = source,
                            !.mode = IF source = Temporary /\ @ \in {"repeat_all", "shuffle"}
                                     THEN "sequential" ELSE @]
        /\ UNCHANGED cursor
    BY <1>8 DEF Activate, Save
  <2>2. Saved \in Nat
    BY <1>0 DEF RoomAssumption
  <2>3. source \in Nat /\ new \subseteq lastId + 1 .. lastId + Saved
    BY <1>0, <2>2 DEF DataOK, Temporary
  <2>4. \A i \in new : row(i) \in Row
    BY <1>0, <2>2, <2>3 DEF Row, DataOK
  <2>5. lastId' \in Nat /\ lastId' >= lastId /\ new \subseteq 1 .. lastId'
    BY <1>0, <2>1, <2>2, <2>3 DEF DataOK
  <2> HIDE DEF row, source, new
  <2>6. DOMAIN rows' \subseteq 1 .. lastId'
    BY <1>0, <2>1, <2>5 DEF DataOK
  <2>7. rows' \in [DOMAIN rows' -> Row]
    BY <1>0, <2>1, <2>4 DEF DataOK
  <2>8. db' \in Db
    BY <1>0, <2>1, <2>3 DEF DataOK, Db, Modes, None
  <2>. QED  BY <1>0, <2>1, <2>5, <2>6, <2>7, <2>8 DEF DataOK
<1>9. CASE Settle(r)
  <2> DEFINE S == {i \in DOMAIN rows : rows[i].scope \notin {Temporary, db.source}}
  <2>0. rows' = Without(S) /\ UNCHANGED <<lastId, db>>
    BY <1>9 DEF Settle
  <2> HIDE DEF S
  <2>1. Subrows /\ UNCHANGED <<lastId, db>>
    BY <1>0, <2>0, WithoutLeavesSubrows
  <2>2. req[r].op = "activate" => req[r].arg \in Nat
    BY <1>0 DEF RequestOK
  <2>3. cursor' \in [scope : Nat \cup {-1}, after : Int]
    BY <1>0, <1>9, <2>2 DEF Settle, SetCursor, DataOK, Db
  <2>. QED  BY <1>0, <2>1, <2>3, SubrowsKeepData
<1>10. CASE Expire(r)
  <2>1. CASE UNCHANGED <<rows, db, cursor>>
    BY <1>0, <1>10, <2>1, DataStaysOK DEF Expire, DataStays
  <2>2. CASE ~ UNCHANGED <<rows, db, cursor>>
    <3>1. /\ rows' = <<>> /\ UNCHANGED lastId
          /\ db' = [db EXCEPT !.play = "stopped", !.current = None, !.mode = "sequential",
                              !.source = Temporary]
          /\ cursor' = [scope |-> -1, after |-> -1]
      BY <1>10, <2>2 DEF Expire
    <3>2. rows' \in [DOMAIN rows' -> Row] /\ DOMAIN rows' = {}
      BY <3>1
    <3>3. db' \in Db
      BY <1>0, <3>1 DEF DataOK, Db, Modes, None, Temporary
    <3>4. cursor' \in [scope : Nat \cup {-1}, after : Int]
      BY <3>1
    <3>. QED  BY <1>0, <3>1, <3>2, <3>3, <3>4 DEF DataOK
  <2>. QED  BY <2>1, <2>2
<1>. QED  BY <1>1, <1>2, <1>3, <1>4, <1>5, <1>6, <1>7, <1>8, <1>9, <1>10 DEF Continue

LEMMA PlayerKeepsData ==
    ASSUME TypeInv, PlayerStep \/ TrackEnds \/ IdleTimeout
    PROVE  DataOK'
<1>0. DataOK /\ PlayerOK /\ ChannelOK
  BY DEF TypeInv
<1>1. CASE Select \/ Exit \/ Connect \/ IdleTimeout
  <2>1. DataStays
    BY <1>1 DEF DataStays, Select, Exit, Connect, IdleTimeout, Disconnect, queue
  <2>. QED  BY <1>0, <2>1, DataStaysOK
<1>2. CASE TakeIdle
  <2>1. DataStays
    BY <1>2 DEF DataStays, TakeIdle, Disconnect
  <2>. QED  BY <1>0, <2>1, DataStaysOK
<1>3. CASE TrackEnds
  <2>1. NextItem("natural", FALSE, Nobody) /\ UNCHANGED <<lastId, db>>
    BY <1>3 DEF TrackEnds
  <2>. QED  BY <1>0, <2>1, NextItemType, SubrowsKeepData
<1>4. CASE Take
  <2>0. PICK late \in BOOLEAN : Obey(Head(channel), late)
    BY <1>4 DEF Take
  <2>1. UNCHANGED <<lastId, db>>
    BY <1>4 DEF Take
  <2> DEFINE c == Head(channel)
  <2>2. c \in CommandType
    BY <1>0, <1>4 DEF Take, ChannelOK
  <2> HIDE DEF c
  <2>3. \/ \E transition : NextItem(transition, late, c.from)
        \/ UNCHANGED <<rows, cursor>>
    BY <2>0 DEF Obey, Disconnect, c
  <2>4. CASE UNCHANGED <<rows, cursor>>
    BY <1>0, <2>1, <2>4, DataStaysOK DEF DataStays
  <2>5. CASE \E transition : NextItem(transition, late, c.from)
    <3>1. PICK transition : NextItem(transition, late, c.from)
      BY <2>5
    <3>2. c.from \in Requests \cup {Nobody}
      BY <2>2 DEF CommandType
    <3>. QED  BY <1>0, <2>1, <3>1, <3>2, NextItemType, SubrowsKeepData
  <2>. QED  BY <2>3, <2>4, <2>5
<1>. QED  BY <1>1, <1>2, <1>3, <1>4 DEF PlayerStep

LEMMA ProcessKeepsData ==
    ASSUME DataOK, NEW i, NEW outcome \in {"ready", "failed"}, Process(i, outcome), i \in DOMAIN rows
    PROVE  DataOK'
<1>1. rows' = [rows EXCEPT ![i].status = outcome] /\ db' = db /\ UNCHANGED <<lastId, cursor>>
  BY DEF Process, Save
<1>2. rows \in [DOMAIN rows -> Row]
  BY DEF DataOK
<1>3. [rows[i] EXCEPT !.status = outcome] \in Row
  BY <1>2 DEF Row
<1>4. rows' \in [DOMAIN rows -> Row]
  BY <1>1, <1>2, <1>3
<1>. QED  BY <1>1, <1>4 DEF DataOK

\* The queue, the state and the cursor keep their types.
LEMMA DataInductive ==
    ASSUME RoomAssumption, TypeInv, [Next]_vars
    PROVE  DataOK'
<1>0. DataOK /\ PlayerOK /\ SavingOK
  BY DEF TypeInv
<1>1. ASSUME NEW r \in Requests, NEW op, NEW arg, Arrive(r, op, arg)  PROVE DataOK'
  BY <1>0, <1>1, DataStaysOK DEF DataStays, Arrive, queue
<1>2. ASSUME NEW r \in Requests, Begin(r) \/ Continue(r)  PROVE DataOK'
  BY <1>2, BeginKeepsData, ContinueKeepsData
<1>3. ASSUME NEW r \in Requests, TimeOut(r)  PROVE DataOK'
  BY <1>0, <1>3, DataStaysOK DEF DataStays, TimeOut, queue
<1>4. CASE PlayerStep \/ TrackEnds \/ IdleTimeout
  BY <1>4, PlayerKeepsData
<1>5. CASE Heartbeat
  BY <1>0, <1>5, PersistedType DEF Heartbeat, queue, DataOK
<1>6. ASSUME NEW by, PersistRead(by)  PROVE DataOK'
  BY <1>0, <1>6, DataStaysOK DEF DataStays, PersistRead, queue
<1>7. ASSUME NEW by \in {"player", "ended"}, PersistWrite(by)  PROVE DataOK'
  <2>1. saving \in SavingType
    BY <1>0, <1>7 DEF PersistWrite, SavingOK, Unlocked, Nobody
  <2>2. saving.live \in BOOLEAN /\ saving.db \in Db
    BY <2>1 DEF SavingType
  <2>3. db' \in Db
    BY <1>0, <1>7, <2>2, PersistedType DEF PersistWrite
  <2>. QED  BY <1>0, <1>7, <2>3 DEF PersistWrite, queue, DataOK
<1>8. CASE StartPrepared \/ ConnectFails
  BY <1>0, <1>8, DataStaysOK DEF DataStays, StartPrepared, ConnectFails, queue
<1>9. ASSUME NEW w, StartSwitched(w) \/ PlayerIsGone(w) \/ CleanupTimesOut(w)  PROVE DataOK'
  BY <1>0, <1>9, DataStaysOK DEF DataStays, StartSwitched, PlayerIsGone, CleanupTimesOut, queue
<1>10. CASE Restart
  BY <1>0, <1>10 DEF Restart, queue, DataOK, Db
<1>11. CASE UNCHANGED vars
  BY <1>0, <1>11, DataStaysOK DEF DataStays, vars
<1>. QED
  BY <1>0, <1>1, <1>2, <1>3, <1>4, <1>5, <1>6, <1>7, <1>8, <1>9, <1>10, <1>11, ProcessKeepsData DEF Next

-----------------------------------------------------------------------------
(* Types: the player, its channel and what it saves *)

\* A command makes the player save, ends it, or is acknowledged at once.
SavesFor(r) ==
    /\ player' \in PlayerType
    /\ player'.pc = "save" /\ player'.then \in {"select", "play", "idle"} /\ player'.ack = r
    /\ UNCHANGED req
    /\ channel' = Tail(channel)
AcknowledgesOnly(r) ==
    /\ player' \in {player, [player EXCEPT !.pc = "select"]}
    /\ Acknowledge(r)
    /\ channel' = Tail(channel)
    /\ UNCHANGED obeyed

LEMMA ObeyCases ==
    ASSUME DataOK, PlayerOK, NEW c \in CommandType, NEW late \in BOOLEAN, Obey(c, late)
    PROVE  \/ Disconnect(c.from)
           \/ SavesFor(c.from) /\ obeyed' \in {obeyed, IF c.retried THEN obeyed + 1 ELSE obeyed}
           \/ AcknowledgesOnly(c.from)
<1>0. /\ c.kind \in Kinds /\ c.item \in Nat /\ c.sort \in Int
      /\ c.from \in Requests \cup {Nobody}
  BY DEF CommandType
<1>1. CASE c.kind = "stop"
  BY <1>1 DEF Obey
<1>2. CASE c.kind \in {"skip", "previous"}
  <2> DEFINE t == IF c.kind = "skip" THEN "next" ELSE "previous"
  <2>1. /\ NextItem(t, late, c.from)
        /\ obeyed' = IF c.retried THEN obeyed + 1 ELSE obeyed
        /\ channel' = Tail(channel)
        /\ UNCHANGED req
    BY <1>2 DEF Obey
  <2> HIDE DEF t
  <2>2. /\ player' \in PlayerType
        /\ player'.pc = "save" /\ player'.then \in {"select", "play"} /\ player'.ack = c.from
    BY <1>0, <2>1, NextItemType
  <2>. QED  BY <2>1, <2>2 DEF SavesFor
<1>3. CASE c.kind = "play_now"
  <2> DEFINE f == [cur |-> c.item, sort |-> c.sort, paused |-> FALSE, forced |-> TRUE]
  <2>1. /\ PlayerSaves(f, "play", c.from)
        /\ channel' = Tail(channel)
        /\ UNCHANGED <<req, obeyed>>
    BY <1>3 DEF Obey
  <2>2. f.cur \in Nat /\ f.sort \in Int /\ f.paused \in BOOLEAN /\ f.forced \in BOOLEAN
    BY <1>0
  <2> HIDE DEF f
  <2>3. /\ player' \in PlayerType
        /\ player'.pc = "save" /\ player'.then = "play" /\ player'.ack = c.from
    BY <1>0, <2>1, <2>2, PlayerSavesType
  <2>. QED  BY <2>1, <2>3 DEF SavesFor
<1>4. CASE c.kind \in {"pause", "resume"} /\ player.paused # (c.kind = "pause")
  <2> DEFINE f == [cur |-> player.cur, sort |-> player.sort, forced |-> FALSE,
                   paused |-> c.kind = "pause"]
  <2>1. /\ PlayerSaves(f, "play", c.from)
        /\ channel' = Tail(channel)
        /\ UNCHANGED <<req, obeyed>>
    BY <1>4 DEF Obey
  <2>2. f.cur \in Nat /\ f.sort \in Int /\ f.paused \in BOOLEAN /\ f.forced \in BOOLEAN
    BY DEF PlayerOK, PlayerType
  <2> HIDE DEF f
  <2>3. /\ player' \in PlayerType
        /\ player'.pc = "save" /\ player'.then = "play" /\ player'.ack = c.from
    BY <1>0, <2>1, <2>2, PlayerSavesType
  <2>. QED  BY <2>1, <2>3 DEF SavesFor
<1>5. CASE ~ (\/ c.kind = "stop" \/ c.kind \in {"skip", "previous"} \/ c.kind = "play_now"
              \/ c.kind \in {"pause", "resume"} /\ player.paused # (c.kind = "pause"))
  BY <1>5 DEF Obey, AcknowledgesOnly
<1>. QED  BY <1>1, <1>2, <1>3, <1>4, <1>5

LEMMA TakeIdleCases ==
    ASSUME PlayerOK, ChannelOK, TakeIdle
    PROVE  LET c == Head(channel)
           IN  Disconnect(c.from) \/ (SavesFor(c.from) /\ UNCHANGED obeyed) \/ AcknowledgesOnly(c.from)
<1> DEFINE c == Head(channel)
<1>0. c \in CommandType
  BY DEF TakeIdle, ChannelOK
<1>1. /\ c.kind \in Kinds /\ c.item \in Nat /\ c.sort \in Int
      /\ c.from \in Requests \cup {Nobody}
  BY <1>0 DEF CommandType
<1>2. CASE c.kind = "stop"
  BY <1>2 DEF TakeIdle
<1>3. CASE c.kind = "play_now"
  <2> DEFINE f == [cur |-> c.item, sort |-> c.sort, paused |-> FALSE, forced |-> TRUE]
  <2>1. /\ PlayerSaves(f, "select", c.from)
        /\ channel' = Tail(channel)
        /\ UNCHANGED <<req, obeyed>>
    BY <1>3 DEF TakeIdle
  <2>2. f.cur \in Nat /\ f.sort \in Int /\ f.paused \in BOOLEAN /\ f.forced \in BOOLEAN
    BY <1>1
  <2> HIDE DEF f
  <2>3. /\ player' \in PlayerType
        /\ player'.pc = "save" /\ player'.then = "select" /\ player'.ack = c.from
    BY <1>1, <2>1, <2>2, PlayerSavesType
  <2>. QED  BY <2>1, <2>3 DEF SavesFor
<1>4. CASE c.kind \notin {"stop", "play_now"}
  BY <1>4 DEF TakeIdle, AcknowledgesOnly
<1>. QED  BY <1>2, <1>3, <1>4

\* Whoever gives up is not answered any more; nothing else of the player changes.
LEMMA GiveUpType ==
    ASSUME PlayerOK, ChannelOK, NEW r \in Requests, GiveUp(r)
    PROVE  /\ player' \in PlayerType
           /\ player'.ack \in {player.ack, Nobody}
           /\ player' = [player EXCEPT !.ack = player'.ack]
           /\ channel' \in Seq(CommandType) /\ Len(channel') = Len(channel)
<1>1. /\ player' \in PlayerType
      /\ player'.ack \in {player.ack, Nobody}
      /\ player' = [player EXCEPT !.ack = player'.ack]
  BY DEF GiveUp, PlayerOK, PlayerType
<1>2. channel \in [1 .. Len(channel) -> CommandType] /\ Len(channel) \in Nat
  BY DEF ChannelOK
<1>3. \A n \in 1 .. Len(channel) : [channel[n] EXCEPT !.from = Nobody] \in CommandType
  BY <1>2 DEF CommandType
<1>4. channel' \in [1 .. Len(channel) -> CommandType]
  BY <1>2, <1>3 DEF GiveUp
<1>. QED  BY <1>1, <1>2, <1>4

LoopOK == PlayerOK /\ ChannelOK /\ SavingOK
LoopStays == UNCHANGED <<player, channel, ending, saving>>

LEMMA LoopStaysOK == ASSUME LoopOK, LoopStays  PROVE LoopOK'
  BY DEF LoopOK, LoopStays, PlayerOK, ChannelOK, SavingOK, Stopped, Registered

\* The player is gone, or saves that it ends, and nothing waits in its channel.
LEMMA SilentLoop ==
    ASSUME LoopOK, player' \in {Silent, [Silent EXCEPT !.pc = "save", !.then = "exit"]},
           channel' = <<>>, UNCHANGED <<ending, saving>>, saving.by # "player"
    PROVE  LoopOK'
<1>1. PlayerOK'
  <2>1. CASE player' = Silent
    BY <2>1 DEF PlayerOK, PlayerType, Silent, Stopped, Registered, None
  <2>2. CASE player' = [Silent EXCEPT !.pc = "save", !.then = "exit"]
    <3>1. /\ player' \in PlayerType /\ player'.pc = "save" /\ player'.then = "exit"
          /\ player'.cur = None /\ player'.ack = Nobody
      <4>1. player' = [pc |-> "save", cur |-> None, sort |-> 0, paused |-> FALSE, then |-> "exit",
                       ack |-> Nobody, forced |-> FALSE]
        BY <2>2 DEF Silent
      <4>. QED  BY <4>1 DEF PlayerType, None
    <3>. QED  BY <3>1 DEF PlayerOK, Stopped, Registered
  <2>. QED  BY <2>1, <2>2
<1>2. ChannelOK'
  <2>1. channel' \in Seq(CommandType) /\ Len(channel') = 0
    OBVIOUS
  <2>. QED  BY <2>1, RoomAssumption DEF ChannelOK, RoomAssumption
<1>. QED  BY <1>1, <1>2 DEF LoopOK, SavingOK

\* A player that saves in answer to a command goes on, and takes the command out.
LEMMA SavingLoop ==
    ASSUME LoopOK, player' \in PlayerType, player'.pc = "save",
           player'.then \in {"select", "play", "idle"}, channel' \in {channel, Tail(channel)},
           channel' # channel => channel # <<>>, UNCHANGED <<ending, saving>>, saving.by # "player"
    PROVE  LoopOK'
<1>1. PlayerOK'
  BY DEF PlayerOK, Stopped, Registered
<1>2. ChannelOK'
  <2>0. channel \in Seq(CommandType) /\ Len(channel) <= ChannelSize /\ ChannelSize \in Nat
    BY RoomAssumption DEF LoopOK, ChannelOK, RoomAssumption
  <2>1. channel' \in Seq(CommandType) /\ Len(channel') <= ChannelSize
    <3>1. CASE channel' = channel
      BY <2>0, <3>1
    <3>2. CASE channel' # channel
      <4>1. channel # <<>> /\ channel' = Tail(channel)
        BY <3>2
      <4>2. channel' \in Seq(CommandType) /\ Len(channel') = Len(channel) - 1
        BY <2>0, <4>1
      <4>. QED  BY <2>0, <4>2
    <3>. QED  BY <3>1, <3>2
  <2>. QED  BY <2>1 DEF ChannelOK, Stopped, Registered
<1>. QED  BY <1>1, <1>2 DEF LoopOK, SavingOK

\* A player is registered while there was none.
LEMMA RegisterLoop ==
    ASSUME LoopOK, ~Registered, NEW preferred \in Nat, NEW sort \in Int,
           NEW by \in Requests \cup {Nobody}, Register(preferred, sort, by),
           UNCHANGED <<channel, ending, saving>>
    PROVE  LoopOK'
<1>1. PlayerOK'
  BY DEF Register, PlayerOK, PlayerType, Silent, Stopped, Registered, None, Nobody
<1>2. ChannelOK'
  BY DEF LoopOK, ChannelOK, Register, Silent, Stopped, Registered
<1>3. SavingOK'
  BY DEF LoopOK, SavingOK, Registered
<1>. QED  BY <1>1, <1>2, <1>3 DEF LoopOK

\* A goroutine that waits for no answer offers the player a command.
Unasked(c) == c \in CommandType /\ c.from = Nobody /\ ~c.retried
Offers == \E c : Unasked(c) /\ Offer(c)

LEMMA WakeOffers ==
    ASSUME Wake
    PROVE  Offers
<1>1. Command("wake", None, Nobody) \in CommandType
  BY DEF Command, CommandType, Kinds, None, Nobody
<1>2. Command("wake", None, Nobody).from = Nobody /\ ~Command("wake", None, Nobody).retried
  BY DEF Command
<1>. QED  BY <1>1, <1>2 DEF Wake, Offers, Unasked

LEMMA SwitchedOffers ==
    ASSUME TypeInv, NEW w, StartSwitched(w), Registered
    PROVE  Offers /\ UNCHANGED player
<1>1. w \in WakerType
  BY DEF TypeInv, RestOK, StartSwitched
<1>2. Unasked([Command("play_now", w.item, Nobody) EXCEPT !.sort = w.sort])
  <2> DEFINE c == Command("play_now", w.item, Nobody)
  <2>0. c.from = Nobody /\ ~c.retried
    BY DEF Command
  <2>1. c \in CommandType
    <3>1. w.item \in Nat
      BY <1>1 DEF WakerType
    <3>. QED  BY <3>1 DEF Command, CommandType, Kinds, Nobody
  <2>2. w.sort \in Int
    BY <1>1 DEF WakerType
  <2> HIDE DEF c
  <2>3. /\ [c EXCEPT !.sort = w.sort] \in CommandType
        /\ [c EXCEPT !.sort = w.sort].from = c.from
        /\ [c EXCEPT !.sort = w.sort].retried = c.retried
    BY <2>1, <2>2 DEF CommandType
  <2>4. Unasked([c EXCEPT !.sort = w.sort])
    BY <2>0, <2>3 DEF Unasked
  <2>. QED  BY <2>4 DEF c
<1>3. CASE w.item = None
  BY <1>3, WakeOffers DEF StartSwitched
<1>4. CASE w.item # None
  BY <1>2, <1>4 DEF StartSwitched, Offers
<1>. QED  BY <1>3, <1>4 DEF StartSwitched

LEMMA OffersLoop ==
    ASSUME LoopOK, Registered, Offers, UNCHANGED <<player, ending, saving>>
    PROVE  LoopOK'
<1>1. CASE channel' = channel
  BY <1>1, LoopStaysOK DEF LoopStays
<1>2. CASE channel' # channel
  <2>1. ~Stopped /\ Len(channel) # ChannelSize
    BY <1>2 DEF Offers, Offer
  <2>2. PICK c \in CommandType : channel' = Append(channel, c)
    BY <1>2 DEF Offers, Offer, Unasked
  <2>3. channel' \in Seq(CommandType) /\ Len(channel') <= ChannelSize
    BY <2>1, <2>2, RoomAssumption DEF LoopOK, ChannelOK, RoomAssumption
  <2>. QED  BY <2>1, <2>3 DEF LoopOK, PlayerOK, ChannelOK, SavingOK, Registered, Stopped
<1>. QED  BY <1>1, <1>2

LEMMA GiveUpLoop ==
    ASSUME LoopOK, NEW r \in Requests, GiveUp(r), UNCHANGED <<ending, saving>>
    PROVE  LoopOK'
<1>0. PlayerOK /\ ChannelOK /\ SavingOK
  BY DEF LoopOK
<1>1. /\ player' \in PlayerType
      /\ player'.ack \in {player.ack, Nobody}
      /\ player' = [player EXCEPT !.ack = player'.ack]
      /\ channel' \in Seq(CommandType) /\ Len(channel') = Len(channel)
  BY <1>0, GiveUpType
<1>2. player'.pc = player.pc /\ player'.then = player.then /\ player'.cur = player.cur
  BY <1>0, <1>1 DEF PlayerOK, PlayerType
<1>3. PlayerOK'
  BY <1>0, <1>1, <1>2 DEF PlayerOK, Stopped, Registered
<1>4. ChannelOK'
  <2>1. channel' # <<>> => channel # <<>>
    BY <1>0, <1>1 DEF ChannelOK
  <2>. QED  BY <1>0, <1>1, <1>2, <2>1 DEF ChannelOK, Stopped, Registered
<1>5. SavingOK'
  BY <1>0, <1>2 DEF SavingOK
<1>. QED  BY <1>3, <1>4, <1>5 DEF LoopOK

LEMMA RequestsKeepLoop ==
    ASSUME TypeInv, NEW r \in Requests, Begin(r) \/ Continue(r) \/ TimeOut(r)
    PROVE  LoopOK'
<1>0. LoopOK /\ RequestsOK /\ RequestOK(r) /\ req[r] \in RequestType /\ DataOK
  BY DEF TypeInv, LoopOK, RequestsOK
<1>1. CASE Begin(r)
  <2>1. LoopStays
    BY <1>1 DEF Begin, LoopStays, Replay, BeginEnqueue, BeginTransport, BeginGuarded,
                BeginStopping, BeginRemove, BeginPlayNow
  <2>. QED  BY <1>0, <2>1, LoopStaysOK
<1>2. CASE \/ Fail(r) \/ Succeed(r) \/ Insert(r) \/ Remove(r) \/ Bump(r) \/ StopRoom(r)
           \/ DeleteTemporaryQueue(r) \/ ClearTemporaryQueue(r) \/ SetPlaybackMode(r) \/ Activate(r) \/ Settle(r)
  <2>1. LoopStays
    BY <1>2 DEF LoopStays, Fail, Succeed, Insert, Remove, Bump, StopRoom, DeleteTemporaryQueue, ClearTemporaryQueue,
                SetPlaybackMode, Activate, Settle
  <2>. QED  BY <1>0, <2>1, LoopStaysOK
<1>3. CASE Expire(r)
  <2>1. UNCHANGED <<player, channel, ending>>
        /\ saving' \in {saving, [saving EXCEPT !.overtaken = saving # Unlocked]}
    BY <1>3 DEF Expire
  <2>2. saving = Unlocked \/ saving \in SavingType
    BY <1>0 DEF LoopOK, SavingOK
  <2>3. saving'.by = saving.by /\ (saving' = Unlocked \/ saving' \in SavingType)
    <3>1. CASE saving = Unlocked
      BY <2>1, <3>1 DEF Unlocked
    <3>2. CASE saving \in SavingType
      BY <2>1, <3>2 DEF SavingType
    <3>. QED  BY <2>2, <3>1, <3>2
  <2>4. SavingOK'
    BY <1>0, <2>1, <2>3 DEF LoopOK, SavingOK
  <2>. QED  BY <1>0, <2>1, <2>4 DEF LoopOK, PlayerOK, ChannelOK, Stopped, Registered
<1>4. CASE OrphanTimesOut(r) \/ TimeOut(r)
  BY <1>0, <1>4, GiveUpLoop DEF OrphanTimesOut, TimeOut
<1>5. CASE Send(r)
  <2>1. CASE channel' = channel
    BY <1>0, <1>5, <2>1, LoopStaysOK DEF Send, LoopStays
  <2>2. CASE channel' # channel
    <3> DEFINE c == Command(Kind(req[r].op), req[r].arg, r)
    <3>1. /\ ~Stopped /\ Registered /\ Len(channel) < ChannelSize
          /\ channel' = Append(channel, c) /\ UNCHANGED <<player, ending, saving>>
      BY <1>5, <2>2 DEF Send
    <3>2. req[r].op \in OpNames \ {"none", "enqueue", "set_mode"} /\ req[r].arg \in Nat
      BY <1>0, <1>5 DEF Send, RequestOK, RequestType
    <3>3. Kind(req[r].op) \in Kinds
      BY <3>2 DEF Kind, Kinds, OpNames
    <3>4. c \in CommandType
      BY <1>0, <3>2, <3>3 DEF Command, CommandType, RequestType
    <3> HIDE DEF c
    <3>5. channel' \in Seq(CommandType) /\ Len(channel') <= ChannelSize
      BY <1>0, <3>1, <3>4, RoomAssumption DEF LoopOK, ChannelOK, RoomAssumption
    <3>. QED  BY <1>0, <3>1, <3>5 DEF LoopOK, PlayerOK, ChannelOK, SavingOK, Registered, Stopped
  <2>. QED  BY <2>1, <2>2
<1>6. CASE Start(r)
  <2> DEFINE preferred == IF req[r].op = "play_now" THEN req[r].arg ELSE None
  <2>0. UNCHANGED <<ending, saving>>
    BY <1>6 DEF Start
  <2>1. preferred \in Nat /\ req[r].sort \in Int
    BY <1>0 DEF RequestOK, RequestType, None
  <2>2. \/ UNCHANGED <<player, channel>>
        \/ Registered /\ Wake /\ UNCHANGED player
        \/ ~Registered /\ Register(preferred, req[r].sort, r) /\ UNCHANGED channel
    BY <1>6 DEF Start
  <2> HIDE DEF preferred
  <2>. QED  BY <1>0, <2>0, <2>1, <2>2, LoopStaysOK, WakeOffers, OffersLoop, RegisterLoop DEF LoopStays
<1>. QED  BY <1>1, <1>2, <1>3, <1>4, <1>5, <1>6 DEF Continue
LEMMA PlayerKeepsLoop ==
    ASSUME TypeInv, PlayerStep \/ TrackEnds \/ IdleTimeout
    PROVE  LoopOK'
<1>0. LoopOK /\ DataOK /\ PlayerOK /\ ChannelOK /\ SavingOK
  BY DEF TypeInv, LoopOK
<1>1. CASE Select
  <2>0. /\ player.pc = "select" /\ saving.by # "player" /\ Nobody \in Requests \cup {Nobody}
        /\ UNCHANGED <<channel, ending, saving>>
    BY <1>0, <1>1 DEF Select, SavingOK
  <2>1. CASE player' = [player EXCEPT !.pc = "idle"]
    <3>1. PlayerOK'
      BY <1>0, <2>0, <2>1 DEF PlayerOK, PlayerType, Stopped, Registered
    <3>. QED  BY <1>0, <2>0, <2>1, <3>1 DEF LoopOK, PlayerOK, PlayerType, ChannelOK, SavingOK, Stopped, Registered
  <2>2. CASE FirstItem # None /\ PlayerSaves(Playing(FirstItem, rows[FirstItem].sort), "play", Nobody)
    <3> DEFINE f == Playing(FirstItem, rows[FirstItem].sort)
    <3>1. FirstItem \in DOMAIN rows /\ FirstItem \in Nat
      BY <1>0, <2>2, ChoiceType DEF DataOK
    <3>2. f.cur \in Nat /\ f.sort \in Int /\ f.paused \in BOOLEAN /\ f.forced \in BOOLEAN
      BY <1>0, <3>1 DEF DataOK, Row, Playing, PlayerOK, PlayerType
    <3>3. PlayerSaves(f, "play", Nobody)
      BY <2>2
    <3> HIDE DEF f
    <3>4. player' \in PlayerType /\ player'.pc = "save" /\ player'.then = "play"
      BY <1>0, <2>0, <3>2, <3>3, PlayerSavesType
    <3>. QED  BY <1>0, <2>0, <3>4, SavingLoop
  <2>3. CASE PlayerSaves(Nothing, "idle", Nobody)
    <3>1. /\ Nothing.cur \in Nat /\ Nothing.sort \in Int
          /\ Nothing.paused \in BOOLEAN /\ Nothing.forced \in BOOLEAN
      BY <1>0 DEF Nothing, PlayerOK, PlayerType, None
    <3>2. player' \in PlayerType /\ player'.pc = "save" /\ player'.then = "idle"
      BY <1>0, <2>0, <2>3, <3>1, PlayerSavesType
    <3>. QED  BY <1>0, <2>0, <3>2, SavingLoop
  <2>. QED  BY <1>1, <2>1, <2>2, <2>3 DEF Select
<1>2. ASSUME NEW r, Disconnect(r) \/ SavesFor(r) \/ AcknowledgesOnly(r), channel # <<>>,
             player.pc \in {"play", "idle"}, UNCHANGED <<ending, saving>>
      PROVE  LoopOK'
  <2>0. saving.by # "player"
    BY <1>0, <1>2 DEF SavingOK
  <2>1. CASE Disconnect(r)
    BY <1>0, <1>2, <2>0, <2>1, SilentLoop DEF Disconnect
  <2>2. CASE SavesFor(r)
    BY <1>0, <1>2, <2>0, <2>2, SavingLoop DEF SavesFor
  <2>3. CASE AcknowledgesOnly(r)
    <3>1. /\ player' \in PlayerType /\ player'.pc \in {"play", "idle", "select"}
          /\ player'.ack = player.ack
      BY <1>0, <1>2, <2>3 DEF AcknowledgesOnly, PlayerOK, PlayerType
    <3>2. PlayerOK'
      BY <1>0, <1>2, <3>1 DEF PlayerOK, Stopped, Registered
    <3>3. channel' \in Seq(CommandType) /\ Len(channel') <= ChannelSize
      <4>1. channel \in Seq(CommandType) /\ Len(channel) <= ChannelSize /\ ChannelSize \in Nat
        BY <1>0, RoomAssumption DEF ChannelOK, RoomAssumption
      <4>2. channel' \in Seq(CommandType) /\ Len(channel') = Len(channel) - 1
        BY <1>2, <2>3, <4>1 DEF AcknowledgesOnly
      <4>. QED  BY <4>1, <4>2
    <3>4. ChannelOK'
      BY <3>1, <3>3 DEF ChannelOK, Stopped, Registered
    <3>. QED  BY <1>0, <1>2, <2>0, <3>2, <3>4 DEF LoopOK, SavingOK
  <2>. QED  BY <1>2, <2>1, <2>2, <2>3
<1>3. CASE Take
  <2>1. PICK late \in BOOLEAN : Obey(Head(channel), late)
    BY <1>3 DEF Take
  <2>2. Head(channel) \in CommandType
    BY <1>0, <1>3 DEF Take, ChannelOK
  <2>3. Disconnect(Head(channel).from) \/ SavesFor(Head(channel).from)
          \/ AcknowledgesOnly(Head(channel).from)
    BY <1>0, <2>1, <2>2, ObeyCases
  <2>. QED  BY <1>2, <1>3, <2>3 DEF Take
<1>4. CASE TakeIdle
  BY <1>0, <1>2, <1>4, TakeIdleCases DEF TakeIdle
<1>5. CASE Exit
  <2>1. channel = <<>>
    BY <1>0, <1>5 DEF Exit, PlayerOK, ChannelOK, Stopped
  <2>2. player' = Silent /\ channel' = <<>> /\ ending' = ending + 1 /\ UNCHANGED saving
    BY <1>5, <2>1 DEF Exit
  <2>3. saving.by # "player"
    BY <1>0, <1>5 DEF Exit, SavingOK
  <2>4. PlayerOK'
    BY <2>2 DEF PlayerOK, PlayerType, Silent, Stopped, Registered, None
  <2>5. ChannelOK'
    <3>1. channel' \in Seq(CommandType) /\ Len(channel') = 0
      BY <2>2
    <3>. QED  BY <2>2, <3>1, RoomAssumption DEF ChannelOK, RoomAssumption
  <2>6. SavingOK'
    BY <1>0, <2>2, <2>3 DEF SavingOK
  <2>. QED  BY <2>4, <2>5, <2>6 DEF LoopOK
<1>6. CASE Connect
  <2>0. UNCHANGED <<channel, ending, saving>> /\ player.pc = "connecting" /\ saving.by # "player"
    BY <1>0, <1>6 DEF Connect, SavingOK
  <2>1. /\ player' \in PlayerType
        /\ \/ player'.pc = "select" /\ player'.ack = Nobody
           \/ player'.pc = "save" /\ player'.then = "play"
    BY <1>0, <1>6 DEF Connect, PlayerOK, PlayerType
  <2>2. PlayerOK'
    BY <2>1 DEF PlayerOK, Stopped, Registered
  <2>3. ChannelOK'
    BY <1>0, <2>0, <2>1 DEF ChannelOK, Stopped, Registered
  <2>. QED  BY <1>0, <2>0, <2>2, <2>3 DEF LoopOK, SavingOK
<1>7. CASE TrackEnds
  <2>1. /\ NextItem("natural", FALSE, Nobody) /\ UNCHANGED <<channel, ending, saving>>
        /\ player.pc = "play"
    BY <1>7 DEF TrackEnds
  <2>2. player' \in PlayerType /\ player'.pc = "save" /\ player'.then \in {"select", "play"}
    BY <1>0, <2>1, NextItemType
  <2>3. saving.by # "player"
    BY <1>0, <2>1 DEF SavingOK
  <2>. QED  BY <1>0, <2>1, <2>2, <2>3, SavingLoop
<1>8. CASE IdleTimeout
  <2>1. saving.by # "player"
    BY <1>0, <1>8 DEF IdleTimeout, SavingOK
  <2>. QED  BY <1>0, <1>8, <2>1, SilentLoop DEF IdleTimeout, Disconnect
<1>. QED  BY <1>1, <1>3, <1>4, <1>5, <1>6, <1>7, <1>8 DEF PlayerStep

LEMMA PersistKeepsLoop ==
    ASSUME TypeInv, NEW by \in {"player", "ended"}, PersistRead(by) \/ PersistWrite(by)
    PROVE  LoopOK'
<1>0. LoopOK /\ DataOK /\ PlayerOK /\ ChannelOK /\ SavingOK
  BY DEF TypeInv, LoopOK
<1>1. CASE PersistRead(by)
  <2>1. /\ saving' = [by |-> by, db |-> db, live |-> Registered, overtaken |-> FALSE]
        /\ UNCHANGED <<player, channel, ending>>
        /\ IF by = "player" THEN player.pc = "save" ELSE ending > 0
    BY <1>1 DEF PersistRead
  <2>2. Registered \in BOOLEAN /\ db \in Db
    BY <1>0 DEF Registered, DataOK
  <2> HIDE DEF Registered
  <2>3. saving' \in SavingType /\ saving'.by = by
    BY <2>1, <2>2 DEF SavingType
  <2>4. SavingOK'
    BY <1>0, <2>1, <2>3 DEF SavingOK
  <2>. QED  BY <1>0, <2>1, <2>4 DEF LoopOK, PlayerOK, ChannelOK, Stopped, Registered
<1>2. CASE PersistWrite(by) /\ by = "player"
  <2>1. /\ saving' = Unlocked /\ UNCHANGED <<channel, ending>>
        /\ player' = [player EXCEPT !.pc = player.then, !.ack = Nobody, !.forced = FALSE]
        /\ player.pc = "save"
    BY <1>0, <1>2 DEF PersistWrite, SavingOK
  <2>2. /\ player' \in PlayerType /\ player'.pc = player.then /\ player'.then = player.then
        /\ player'.ack = Nobody /\ player'.cur = player.cur
        /\ player.then \in {"select", "play", "idle", "exit"}
    BY <1>0, <2>1 DEF PlayerOK, PlayerType
  <2>3. PlayerOK'
    BY <1>0, <2>1, <2>2 DEF PlayerOK, Stopped, Registered
  <2>4. ChannelOK'
    BY <1>0, <2>1, <2>2 DEF ChannelOK, Stopped, Registered
  <2>5. SavingOK'
    BY <1>0, <2>1 DEF SavingOK, Unlocked, Nobody
  <2>. QED  BY <2>3, <2>4, <2>5 DEF LoopOK
<1>3. CASE PersistWrite(by) /\ by = "ended"
  <2>1. /\ saving' = Unlocked /\ UNCHANGED <<channel, player>>
        /\ ending' = ending - 1 /\ ending > 0
    BY <1>0, <1>3 DEF PersistWrite, SavingOK
  <2>2. SavingOK'
    BY <1>0, <2>1 DEF SavingOK, Unlocked, Nobody
  <2>. QED  BY <1>0, <2>1, <2>2 DEF LoopOK, PlayerOK, ChannelOK, Stopped, Registered
<1>. QED  BY <1>1, <1>2, <1>3

\* The player, its channel and what it saves keep their types.
LEMMA LoopInductive ==
    ASSUME TypeInv, [Next]_vars
    PROVE  LoopOK'
<1>0. LoopOK /\ DataOK /\ PlayerOK /\ ChannelOK /\ SavingOK /\ RestOK
  BY DEF TypeInv, LoopOK
<1>1. ASSUME NEW r \in Requests, NEW op, NEW arg, Arrive(r, op, arg)  PROVE LoopOK'
  BY <1>0, <1>1, LoopStaysOK DEF LoopStays, Arrive
<1>2. ASSUME NEW r \in Requests, Begin(r) \/ Continue(r) \/ TimeOut(r)  PROVE LoopOK'
  BY <1>2, RequestsKeepLoop
<1>3. CASE PlayerStep \/ TrackEnds \/ IdleTimeout
  BY <1>3, PlayerKeepsLoop
<1>4. ASSUME NEW by \in {"player", "ended"}, PersistRead(by) \/ PersistWrite(by)  PROVE LoopOK'
  BY <1>4, PersistKeepsLoop
<1>5. CASE Heartbeat
  BY <1>0, <1>5, LoopStaysOK DEF LoopStays, Heartbeat
<1>6. CASE StartPrepared
  <2>0. UNCHANGED <<ending, saving>>
    BY <1>6 DEF StartPrepared
  <2>1. \/ UNCHANGED <<player, channel>>
        \/ Registered /\ Wake /\ UNCHANGED player
        \/ ~Registered /\ Register(None, 0, Nobody) /\ UNCHANGED channel
    BY <1>6 DEF StartPrepared
  <2>2. None \in Nat
    BY DEF None
  <2>. QED  BY <1>0, <2>0, <2>1, <2>2, LoopStaysOK, WakeOffers, OffersLoop, RegisterLoop DEF LoopStays
<1>7. ASSUME NEW w \in wakers, StartSwitched(w)  PROVE LoopOK'
  <2>1. w.item \in Nat /\ w.sort \in Int
    BY <1>0, <1>7 DEF StartSwitched, RestOK, WakerType
  <2>2. UNCHANGED <<ending, saving>>
    BY <1>7 DEF StartSwitched
  <2>3. CASE Registered
    BY <1>0, <1>7, <2>2, <2>3, SwitchedOffers, OffersLoop
  <2>4. CASE ~Registered
    <3>1. \/ UNCHANGED player
          \/ Register(w.item, w.sort, Nobody)
      BY <1>7, <2>4 DEF StartSwitched
    <3>2. UNCHANGED channel
      BY <1>7, <2>4 DEF StartSwitched
    <3>. QED  BY <1>0, <2>1, <2>2, <2>4, <3>1, <3>2, LoopStaysOK, RegisterLoop DEF LoopStays
  <2>. QED  BY <2>3, <2>4
<1>8. ASSUME NEW w \in wakers, PlayerIsGone(w) \/ CleanupTimesOut(w)  PROVE LoopOK'
  BY <1>0, <1>8, LoopStaysOK DEF LoopStays, PlayerIsGone, CleanupTimesOut
<1>9. CASE ConnectFails
  <2>1. saving.by # "player"
    BY <1>0, <1>9 DEF ConnectFails, SavingOK
  <2>. QED  BY <1>0, <1>9, <2>1, SilentLoop DEF ConnectFails
<1>10. ASSUME NEW i, NEW outcome, Process(i, outcome)  PROVE LoopOK'
  BY <1>0, <1>10, LoopStaysOK DEF LoopStays, Process, Save
<1>11. CASE Restart
  <2>1. player' = Silent /\ channel' = <<>> /\ ending' = 0 /\ saving' = Unlocked
    BY <1>11 DEF Restart
  <2>2. PlayerOK'
    BY <2>1 DEF PlayerOK, PlayerType, Silent, Stopped, Registered, None
  <2>3. ChannelOK'
    <3>1. channel' \in Seq(CommandType) /\ Len(channel') = 0
      BY <2>1
    <3>. QED  BY <2>1, <3>1, RoomAssumption DEF ChannelOK, RoomAssumption
  <2>4. SavingOK'
    BY <2>1 DEF SavingOK, Unlocked, Nobody
  <2>. QED  BY <2>2, <2>3, <2>4 DEF LoopOK
<1>12. CASE UNCHANGED vars
  BY <1>0, <1>12, LoopStaysOK DEF LoopStays, vars
<1>. QED
  BY <1>1, <1>2, <1>3, <1>4, <1>5, <1>6, <1>7, <1>8, <1>9, <1>10, <1>11, <1>12 DEF Next


-----------------------------------------------------------------------------
(* Types: the requests *)

\* The control lock passes from nobody to r or from r to nobody, or stays.
LockPasses(r) ==
    \/ control' = control
    \/ control = Nobody /\ control' = r
    \/ control = r /\ control' = Nobody

\* One request goes to another step.
LEMMA OneRequest ==
    ASSUME RequestsOK, NEW r \in Requests, NEW x \in RequestType, req' = [req EXCEPT ![r] = x],
           LockPasses(r), RequestOK(r)'
    PROVE  RequestsOK'
<1>1. req' \in [Requests -> RequestType] /\ control' \in Requests \cup {Nobody}
  BY DEF RequestsOK, LockPasses
<1>2. ASSUME NEW q \in Requests, q # r  PROVE RequestOK(q)'
  <2>1. req'[q] = req[q] /\ (control = q => control' = q)
    BY <1>2, RoomAssumption DEF RequestsOK, LockPasses, RoomAssumption, Nobody
  <2>. QED  BY <2>1 DEF RequestsOK, RequestOK
<1>. QED  BY <1>1, <1>2 DEF RequestsOK

LEMMA IdleType ==
    /\ Idle \in RequestType
    /\ Idle.pc = "idle" /\ Idle.op = "none" /\ Idle.arg \in Nat /\ Idle.sort \in Nat
    /\ ~Idle.starter
<1>1. NoUndo \in [{} -> Nat]
  BY DEF NoUndo
<1>2. NoUndo \in Orders
  BY <1>1 DEF Orders
<1>. QED  BY <1>2 DEF Idle, RequestType, OpNames

LEMMA FinishKeeps ==
    ASSUME RequestsOK, NEW r \in Requests, Finish(r)
    PROVE  RequestsOK'
<1>1. req' = [req EXCEPT ![r] = Idle] /\ LockPasses(r)
  BY DEF Finish, LockPasses
<1>2. Idle \in RequestType
  BY IdleType
<1>3. req'[r] = Idle
  BY <1>1 DEF RequestsOK
<1>4. RequestOK(r)'
  BY <1>3, IdleType DEF RequestOK
<1>. QED  BY <1>1, <1>2, <1>4, OneRequest

\* It goes to a step that is open to its operation.
LEMMA NextStepKeeps ==
    ASSUME RequestsOK, NEW r \in Requests,
           NEW pc \in {"bump", "start", "starting", "send", "waiting", "acked", "refused", "insert",
                       "cleared", "settle"},
           req' = [req EXCEPT ![r].pc = pc], LockPasses(r),
           req[r].op # "remove" => control' = r,
           pc = "insert" => req[r].op = "enqueue",
           pc = "settle" => req[r].op \in {"switch", "activate"},
           pc = "cleared" => req[r].op = "clear",
           pc \in {"send", "waiting"} => req[r].op \notin {"none", "enqueue", "set_mode"}
    PROVE  RequestsOK'
<1> DEFINE x == [req[r] EXCEPT !.pc = pc]
<1>1. req[r] \in RequestType /\ RequestOK(r)
  BY DEF RequestsOK
<1>2. x \in RequestType
  BY <1>1 DEF RequestType
<1>3. x.pc = pc /\ x.op = req[r].op /\ x.arg = req[r].arg /\ x.sort = req[r].sort
  BY <1>1 DEF RequestType
<1>4. req' = [req EXCEPT ![r] = x] /\ req'[r] = x
  BY DEF RequestsOK
<1> HIDE DEF x
<1>5. RequestOK(r)'
  BY <1>1, <1>3, <1>4 DEF RequestOK
<1>. QED  BY <1>2, <1>4, <1>5, OneRequest

\* Whoever waits is answered, told that the player ends, or left without an answer.
LEMMA AnsweredKeeps ==
    ASSUME RequestsOK, UNCHANGED control, req' = [q \in Requests |-> req'[q]],
           \A q \in Requests :
               \/ req'[q] = req[q]
               \/ /\ req[q].pc \in {"starting", "send", "waiting"}
                  /\ \E pc \in {"acked", "refused", "orphan"} : req'[q] = [req[q] EXCEPT !.pc = pc]
    PROVE  RequestsOK'
<1>1. ASSUME NEW q \in Requests  PROVE req'[q] \in RequestType /\ RequestOK(q)'
  <2>1. req[q] \in RequestType /\ RequestOK(q)
    BY DEF RequestsOK
  <2>2. CASE req'[q] = req[q]
    BY <2>1, <2>2 DEF RequestOK
  <2>3. CASE req'[q] # req[q]
    <3>1. PICK pc \in {"acked", "refused", "orphan"} : req'[q] = [req[q] EXCEPT !.pc = pc]
      BY <2>3
    <3>2. req[q].pc \in {"starting", "send", "waiting"}
      BY <2>3
    <3>3. /\ req'[q] \in RequestType /\ req'[q].pc = pc /\ req'[q].op = req[q].op
          /\ req'[q].arg = req[q].arg /\ req'[q].sort = req[q].sort
      BY <2>1, <3>1 DEF RequestType
    <3>. QED  BY <2>1, <3>2, <3>3 DEF RequestOK
  <2>. QED  BY <2>2, <2>3
<1>. QED  BY <1>1 DEF RequestsOK

LEMMA BeginKeepsRequests ==
    ASSUME TypeInv, NEW r \in Requests, Begin(r)
    PROVE  RequestsOK'
<1>0. /\ DataOK /\ PlayerOK /\ RequestsOK /\ RequestOK(r) /\ req[r] \in RequestType
      /\ r # Nobody
  BY RoomAssumption DEF TypeInv, RequestsOK, RoomAssumption, Nobody
<1>1. CASE Replay(r)
  BY <1>0, <1>1, FinishKeeps DEF Replay
<1>2. CASE BeginEnqueue(r)
  <2>1. CASE Finish(r)
    BY <1>0, <2>1, FinishKeeps
  <2>2. CASE ~ Finish(r)
    <3> DEFINE x == [req[r] EXCEPT !.pc = "insert", !.sort = NextSortOrder]
    <3>1. /\ req' = [req EXCEPT ![r] = x] /\ control' = r /\ control = Nobody
          /\ req[r].op = "enqueue"
      BY <1>2, <2>2 DEF BeginEnqueue, Begins
    <3>2. NextSortOrder \in Int
      BY <1>0, ChoiceType
    <3>3. x \in RequestType /\ x.pc = "insert" /\ x.op = "enqueue" /\ x.arg = req[r].arg
      BY <1>0, <3>1, <3>2 DEF RequestType
    <3> HIDE DEF x
    <3>4. req'[r] = x
      BY <1>0, <3>1 DEF RequestsOK
    <3>5. RequestOK(r)'
      BY <1>0, <3>1, <3>3, <3>4 DEF RequestOK
    <3>. QED  BY <1>0, <3>1, <3>3, <3>5, OneRequest DEF LockPasses
  <2>. QED  BY <2>1, <2>2
<1>3. CASE BeginTransport(r)
  <2> DEFINE pc == IF Registered THEN "send" ELSE IF req[r].op = "pause" THEN "acked" ELSE "start"
  <2>1. /\ req' = [req EXCEPT ![r].pc = pc] /\ control' = r /\ control = Nobody
        /\ req[r].op \in {"play", "pause", "skip", "previous"}
    BY <1>3 DEF BeginTransport, Begins, ThroughPlayer
  <2>2. pc \in {"send", "acked", "start"}
    OBVIOUS
  <2> HIDE DEF pc
  <2>. QED  BY <1>0, <2>1, <2>2, NextStepKeeps DEF LockPasses
<1>4. CASE BeginPlayNow(r)
  <2> DEFINE item == req[r].arg
             now == IF Registered THEN Snapshot(TRUE).current
                    ELSE IF db.play = "stopped" THEN None ELSE db.current
             interrupts == db.source = Temporary /\ now \notin {None, item}
             moves == interrupts /\ now \in InScope(Temporary) /\ MustMove(item, now)
             x == [req[r] EXCEPT !.pc = IF Registered THEN "send" ELSE "start",
                                 !.sort = rows'[item].sort,
                                 !.undo = IF moves THEN TemporaryOrder ELSE NoUndo]
  <2>1. CASE Finish(r)
    BY <1>0, <2>1, FinishKeeps
  <2>2. CASE ~ Finish(r)
    <3>1. /\ req' = [req EXCEPT ![r] = x] /\ control' = r /\ control = Nobody
          /\ req[r].op = "play_now" /\ item \in DOMAIN rows
      BY <1>4, <2>2 DEF BeginPlayNow, Begins, Playable, IsRow
    <3>2. rows' = rows \/ (/\ MoveTemporaryItemAfter(item, now) /\ UNCHANGED <<lastId, db, cursor>>
                           /\ item \in InScope(Temporary) /\ now \in InScope(Temporary))
      BY <1>4, <2>2 DEF BeginPlayNow, Playable, IsRow, InScope
    <3>3. rows'[item].sort \in Int
      <4>1. CASE rows' = rows
        BY <1>0, <3>1, <4>1 DEF DataOK, Row
      <4>2. CASE rows' # rows
        <5> HIDE DEF item, now
        <5>1. DataOK' /\ DOMAIN rows' = DOMAIN rows
          BY <1>0, <3>2, <4>2, MoveKeepsData
        <5>. QED  BY <3>1, <5>1 DEF DataOK, Row
      <4>. QED  BY <4>1, <4>2
    <3>4. (IF moves THEN TemporaryOrder ELSE NoUndo) \in Orders
      <4>1. NoUndo \in [{} -> Nat]
        BY DEF NoUndo
      <4>2. NoUndo \in Orders
        BY <4>1 DEF Orders
      <4>. QED  BY <1>0, <4>2, OrderType
    <3> HIDE DEF moves, item
    <3>5. x \in RequestType /\ x.pc \in {"send", "start"} /\ x.op = "play_now" /\ x.arg = req[r].arg
      BY <1>0, <3>1, <3>3, <3>4 DEF RequestType
    <3> HIDE DEF x
    <3>6. req'[r] = x
      BY <1>0, <3>1 DEF RequestsOK
    <3>7. RequestOK(r)'
      BY <1>0, <3>1, <3>5, <3>6 DEF RequestOK
    <3>. QED  BY <1>0, <3>1, <3>5, <3>7, OneRequest DEF LockPasses
  <2>. QED  BY <2>1, <2>2
<1>5. CASE BeginGuarded(r)
  <2>1. CASE Finish(r)
    BY <1>0, <2>1, FinishKeeps
  <2>2. CASE ~ Finish(r)
    <3>1. PICK pc \in {"send", "acked"} :
             /\ req' = [req EXCEPT ![r].pc = pc] /\ control' = r /\ control = Nobody
             /\ req[r].op \in {"clear", "set_mode"}
             /\ pc = "send" => req[r].op = "clear"
      BY <1>5, <2>2 DEF BeginGuarded, Begins, ThroughPlayer
    <3>. QED  BY <1>0, <3>1, NextStepKeeps DEF LockPasses
  <2>. QED  BY <2>1, <2>2
<1>6. CASE BeginStopping(r)
  <2>1. CASE Finish(r)
    BY <1>0, <2>1, FinishKeeps
  <2>2. CASE ~ Finish(r)
    <3> DEFINE sort == IF req[r].op = "stop"
                       THEN IF Registered THEN Snapshot(TRUE).current ELSE None
                       ELSE IF req[r].op = "switch" /\ req[r].arg # None
                       THEN rows[req[r].arg].sort ELSE 0
               x == [req[r] EXCEPT !.pc = IF Registered THEN "send" ELSE "acked", !.sort = sort]
    <3>1. /\ req' = [req EXCEPT ![r] = x] /\ control' = r /\ control = Nobody
          /\ req[r].op \in {"stop", "switch", "activate", "expire"}
          /\ req[r].op = "switch" /\ req[r].arg # None => req[r].arg \in DOMAIN rows
      BY <1>6, <2>2 DEF BeginStopping, Begins, Playable, IsRow
    <3>2. Snapshot(TRUE).current \in Nat
      BY <1>0, PersistedType DEF DataOK
    <3>3. sort \in Int /\ (req[r].op = "stop" => sort \in Nat)
      <4>1. CASE req[r].op = "stop"
        <5> DEFINE playing == Snapshot(TRUE).current
        <5>1. sort = playing \/ sort = None
          BY <4>1
        <5>2. playing \in Nat
          BY <3>2
        <5> HIDE DEF sort, playing
        <5>. QED  BY <5>1, <5>2 DEF None
      <4>2. CASE req[r].op = "switch" /\ req[r].arg # None
        BY <1>0, <3>1, <4>2 DEF DataOK, Row
      <4>3. CASE req[r].op # "stop" /\ ~ (req[r].op = "switch" /\ req[r].arg # None)
        BY <4>3
      <4>. QED  BY <4>1, <4>2, <4>3
    <3> HIDE DEF sort
    <3>4. /\ x \in RequestType /\ x.pc \in {"send", "acked"} /\ x.op = req[r].op
          /\ x.arg = req[r].arg /\ x.sort = sort
      BY <1>0, <3>1, <3>3 DEF RequestType
    <3> HIDE DEF x
    <3>5. req'[r] = x
      BY <1>0, <3>1 DEF RequestsOK
    <3>6. RequestOK(r)'
      BY <1>0, <3>1, <3>3, <3>4, <3>5 DEF RequestOK
    <3>. QED  BY <1>0, <3>1, <3>4, <3>6, OneRequest DEF LockPasses
  <2>. QED  BY <2>1, <2>2
<1>7. CASE BeginRemove(r)
  <2> DEFINE sort == IF Registered THEN Snapshot(TRUE).current ELSE None
             x == [req[r] EXCEPT !.pc = "delete", !.sort = sort]
  <2>1. req' = [req EXCEPT ![r] = x] /\ control' = control /\ req[r].op = "remove"
    BY <1>7 DEF BeginRemove
  <2>2. sort \in Int
    <3> DEFINE playing == Snapshot(TRUE).current
    <3>1. playing \in Nat
      BY <1>0, PersistedType DEF DataOK
    <3>2. sort = playing \/ sort = None
      OBVIOUS
    <3> HIDE DEF sort, playing
    <3>. QED  BY <3>1, <3>2 DEF None
  <2> HIDE DEF sort
  <2>3. x \in RequestType /\ x.pc = "delete" /\ x.op = "remove" /\ x.arg = req[r].arg
    BY <1>0, <2>1, <2>2 DEF RequestType
  <2> HIDE DEF x
  <2>4. req'[r] = x
    BY <1>0, <2>1 DEF RequestsOK
  <2>5. RequestOK(r)'
    BY <1>0, <2>1, <2>3, <2>4 DEF RequestOK
  <2>. QED  BY <1>0, <2>1, <2>3, <2>5, OneRequest DEF LockPasses
<1>. QED  BY <1>1, <1>2, <1>3, <1>4, <1>5, <1>6, <1>7 DEF Begin

LEMMA ContinueKeepsRequests ==
    ASSUME TypeInv, NEW r \in Requests, Continue(r) \/ TimeOut(r)
    PROVE  RequestsOK'
<1>0. RequestsOK /\ RequestOK(r) /\ req[r] \in RequestType
  BY DEF TypeInv, RequestsOK
<1>1. CASE \/ Fail(r) \/ Succeed(r) \/ Bump(r) \/ StopRoom(r) \/ ClearTemporaryQueue(r)
           \/ SetPlaybackMode(r) \/ Settle(r) \/ Expire(r)
  <2>1. Finish(r)
    BY <1>1 DEF Fail, Succeed, Bump, StopRoom, ClearTemporaryQueue, SetPlaybackMode, Settle, Expire
  <2>. QED  BY <1>0, <2>1, FinishKeeps
<1>2. CASE Insert(r)
  <2>1. req' = [req EXCEPT ![r].pc = "bump"] /\ control' = control /\ req[r].pc = "insert"
    BY <1>2 DEF Insert
  <2>. QED  BY <1>0, <2>1, NextStepKeeps DEF LockPasses, RequestOK
<1>3. CASE Activate(r)
  <2>1. /\ req' = [req EXCEPT ![r].pc = "settle"] /\ control' = control /\ req[r].pc = "acked"
        /\ req[r].op \in {"switch", "activate"}
    BY <1>3 DEF Activate
  <2>. QED  BY <1>0, <2>1, NextStepKeeps DEF LockPasses, RequestOK
<1>4. CASE Send(r)
  <2>1. PICK pc \in {"refused", "waiting"} :
           req' = [req EXCEPT ![r].pc = pc] /\ control' = control /\ req[r].pc = "send"
    BY <1>4 DEF Send
  <2>. QED  BY <1>0, <2>1, NextStepKeeps DEF LockPasses, RequestOK
<1>5. CASE OrphanTimesOut(r) \/ TimeOut(r)
  <2>1. /\ req' = [req EXCEPT ![r].pc = "refused"] /\ control' = control
        /\ req[r].pc \in {"send", "waiting", "orphan"}
    BY <1>5 DEF OrphanTimesOut, TimeOut, GiveUp
  <2>. QED  BY <1>0, <2>1, NextStepKeeps DEF LockPasses, RequestOK
<1>6. CASE Start(r)
  <2>1. CASE req' = [req EXCEPT ![r].pc = "send", ![r].starter = TRUE] /\ req[r].op = "play_now"
    <3> DEFINE x == [req[r] EXCEPT !.pc = "send", !.starter = TRUE]
    <3>1. req' = [req EXCEPT ![r] = x] /\ control' = control /\ req[r].pc = "start"
      BY <1>6, <2>1 DEF Start
    <3>2. x \in RequestType /\ x.pc = "send" /\ x.op = req[r].op /\ x.arg = req[r].arg
      BY <1>0 DEF RequestType
    <3> HIDE DEF x
    <3>3. req'[r] = x
      BY <1>0, <3>1 DEF RequestsOK
    <3>4. RequestOK(r)'
      BY <1>0, <2>1, <3>1, <3>2, <3>3 DEF RequestOK
    <3>. QED  BY <1>0, <3>1, <3>2, <3>4, OneRequest DEF LockPasses
  <2>2. CASE \E pc \in {"acked", "starting"} : req' = [req EXCEPT ![r].pc = pc]
    <3>1. control' = control /\ req[r].pc = "start"
      BY <1>6 DEF Start
    <3>. QED  BY <1>0, <2>2, <3>1, NextStepKeeps DEF LockPasses, RequestOK
  <2>. QED  BY <1>6, <2>1, <2>2 DEF Start
<1>7. CASE Remove(r)
  <2> DEFINE step == IF req[r].sort = req[r].arg THEN "send" ELSE "acked"
             zero == 0
             x == [req[r] EXCEPT !.pc = step, !.sort = zero]
  <2>1. req' = [req EXCEPT ![r] = x] /\ control' = control /\ req[r].pc = "delete"
    BY <1>7 DEF Remove
  <2>0. step \in {"send", "acked"} /\ zero \in Nat /\ zero \in Int
    OBVIOUS
  <2> HIDE DEF step, zero
  <2>2. /\ x \in RequestType /\ x.pc \in {"send", "acked"} /\ x.op = req[r].op
        /\ x.arg = req[r].arg /\ x.sort = zero
    BY <1>0, <2>0 DEF RequestType
  <2> HIDE DEF x
  <2>3. req'[r] = x
    BY <1>0, <2>1 DEF RequestsOK
  <2>4. RequestOK(r)'
    BY <1>0, <2>0, <2>1, <2>2, <2>3 DEF RequestOK
  <2>. QED  BY <1>0, <2>1, <2>2, <2>4, OneRequest DEF LockPasses
<1>8. CASE DeleteTemporaryQueue(r)
  <2>1. /\ req' = [req EXCEPT ![r].pc = "cleared"] /\ control' = control /\ req[r].pc = "acked"
        /\ req[r].op = "clear"
    BY <1>8 DEF DeleteTemporaryQueue
  <2>. QED  BY <1>0, <2>1, NextStepKeeps DEF LockPasses, RequestOK
<1>. QED  BY <1>1, <1>2, <1>3, <1>4, <1>5, <1>6, <1>7, <1>8 DEF Continue

LEMMA AcknowledgeKeepsRequests ==
    ASSUME RequestsOK, NEW r, Acknowledge(r), UNCHANGED control,
           r \in Requests => req[r].pc \in {"starting", "waiting"}
    PROVE  RequestsOK'
<1>1. req' = [q \in Requests |-> req'[q]]
  BY DEF Acknowledge
<1>2. \A q \in Requests :
         \/ req'[q] = req[q]
         \/ req[q].pc \in {"starting", "send", "waiting"} /\ req'[q] = [req[q] EXCEPT !.pc = "acked"]
  BY DEF Acknowledge
<1>. QED  BY <1>1, <1>2, AnsweredKeeps

LEMMA DisconnectKeepsRequests ==
    ASSUME RequestsOK, NEW r, Disconnect(r), UNCHANGED control,
           r \in Requests => req[r].pc \in {"starting", "waiting"}
    PROVE  RequestsOK'
<1>1. req' = [q \in Requests |-> req'[q]]
  BY DEF Disconnect
<1>2. \A q \in Requests :
         \/ req'[q] = req[q]
         \/ /\ req[q].pc \in {"starting", "send", "waiting"}
            /\ \/ req'[q] = [req[q] EXCEPT !.pc = "acked"]
               \/ req'[q] = [req[q] EXCEPT !.pc = "refused"]
  BY DEF Disconnect
<1>. QED  BY <1>1, <1>2, AnsweredKeeps

\* Whoever sent the first command waits for its answer.
LEMMA HeadWaits ==
    ASSUME TypeInv, AnswersOK, channel # <<>>
    PROVE  /\ Head(channel) \in CommandType
           /\ Head(channel).from \in Requests \cup {Nobody}
           /\ Head(channel).from \in Requests => req[Head(channel).from].pc = "waiting"
<1>1. channel \in Seq(CommandType)
  BY DEF TypeInv, ChannelOK
<1>2. 1 \in DOMAIN channel /\ Head(channel) = channel[1] /\ Head(channel) \in CommandType
  BY <1>1
<1>3. Nobody \notin Requests
  BY RoomAssumption DEF RoomAssumption, Nobody
<1>. QED  BY <1>2, <1>3 DEF AnswersOK, CommandType

\* The requests keep their types.
LEMMA RequestsInductive ==
    ASSUME TypeInv, AnswersOK, [Next]_vars
    PROVE  RequestsOK'
<1>0. RequestsOK /\ PlayerOK /\ ChannelOK /\ DataOK /\ SavingOK /\ Nobody \notin Requests
  BY RoomAssumption DEF TypeInv, RoomAssumption, Nobody
<1>a. \A r : r \in Requests /\ r = player.ack => req[r].pc \in {"starting", "waiting"}
  BY <1>0 DEF AnswersOK
<1>1. ASSUME NEW r \in Requests, NEW op \in Ops, NEW arg \in Arguments(op), Arrive(r, op, arg)
      PROVE  RequestsOK'
  <2> DEFINE x == [Idle EXCEPT !.pc = "lock", !.op = op, !.arg = arg]
  <2>1. req' = [req EXCEPT ![r] = x] /\ control' = control
    BY <1>1 DEF Arrive
  <2>2. arg \in Nat \cup Modes /\ (op = "set_mode" => arg \in Modes) /\ (op # "set_mode" => arg \in Nat)
    BY <1>0, <1>1, RoomAssumption DEF Arguments, DataOK, RoomAssumption, None
  <2>3. op \in OpNames
    BY <1>1, RoomAssumption DEF RoomAssumption, OpNames
  <2>6. x \in RequestType
    BY <2>2, <2>3, IdleType DEF RequestType
  <2>7. req'[r] = x
    BY <1>0, <2>1 DEF RequestsOK
  <2>8. x.pc = "lock" /\ x.op = op /\ x.arg = arg /\ x.sort \in Nat
    BY IdleType DEF RequestType
  <2> HIDE DEF x
  <2>9. RequestOK(r)'
    BY <2>2, <2>7, <2>8 DEF RequestOK
  <2>. QED  BY <1>0, <2>1, <2>6, <2>9, OneRequest DEF LockPasses
<1>2. ASSUME NEW r \in Requests, Begin(r) \/ Continue(r) \/ TimeOut(r)  PROVE RequestsOK'
  BY <1>2, BeginKeepsRequests, ContinueKeepsRequests
<1>3. CASE PlayerStep \/ TrackEnds \/ IdleTimeout
  <2>1. CASE Select \/ Exit \/ TrackEnds
    BY <1>0, <2>1 DEF Select, Exit, TrackEnds, RequestsOK, RequestOK
  <2>2. CASE Connect
    <3>1. CASE UNCHANGED <<req, control>>
      BY <1>0, <3>1 DEF RequestsOK, RequestOK
    <3>2. CASE Acknowledge(player.ack) /\ UNCHANGED control
      BY <1>0, <1>a, <3>2, AcknowledgeKeepsRequests
    <3>. QED  BY <2>2, <3>1, <3>2 DEF Connect
  <2>3. CASE IdleTimeout
    BY <1>0, <2>3, DisconnectKeepsRequests DEF IdleTimeout
  <2>4. ASSUME NEW r, r \in Requests => req[r].pc = "waiting", UNCHANGED control,
               Disconnect(r) \/ SavesFor(r) \/ AcknowledgesOnly(r)
        PROVE  RequestsOK'
    <3>1. CASE Disconnect(r)
      BY <1>0, <2>4, <3>1, DisconnectKeepsRequests
    <3>2. CASE SavesFor(r)
      BY <1>0, <2>4, <3>2 DEF SavesFor, RequestsOK, RequestOK
    <3>3. CASE AcknowledgesOnly(r)
      BY <1>0, <2>4, <3>3, AcknowledgeKeepsRequests DEF AcknowledgesOnly
    <3>. QED  BY <2>4, <3>1, <3>2, <3>3
  <2>5. CASE Take
    <3>1. channel # <<>> /\ UNCHANGED control
      BY <2>5 DEF Take
    <3>2. PICK late \in BOOLEAN : Obey(Head(channel), late)
      BY <2>5 DEF Take
    <3>. QED  BY <1>0, <2>4, <3>1, <3>2, HeadWaits, ObeyCases
  <2>6. CASE TakeIdle
    <3>1. channel # <<>> /\ UNCHANGED control
      BY <2>6 DEF TakeIdle
    <3>. QED  BY <1>0, <2>4, <2>6, <3>1, HeadWaits, TakeIdleCases
  <2>. QED  BY <1>3, <2>1, <2>2, <2>3, <2>5, <2>6 DEF PlayerStep
<1>4. ASSUME NEW by \in {"player", "ended"}, PersistRead(by) \/ PersistWrite(by)  PROVE RequestsOK'
  <2>1. CASE UNCHANGED <<req, control>>
    BY <1>0, <2>1 DEF RequestsOK, RequestOK
  <2>2. CASE Acknowledge(player.ack) /\ UNCHANGED control
    BY <1>0, <1>a, <2>2, AcknowledgeKeepsRequests
  <2>3. \/ UNCHANGED <<req, control>>
        \/ Acknowledge(player.ack) /\ UNCHANGED control
    BY <1>4 DEF PersistRead, PersistWrite, Acknowledge
  <2>. QED  BY <2>1, <2>2, <2>3
<1>5. ASSUME NEW w, Heartbeat \/ StartPrepared \/ StartSwitched(w) \/ PlayerIsGone(w) \/ CleanupTimesOut(w)
      PROVE  RequestsOK'
  BY <1>0, <1>5 DEF Heartbeat, StartPrepared, StartSwitched, PlayerIsGone, CleanupTimesOut, RequestsOK, RequestOK
<1>6. CASE ConnectFails
  <2>1. req' = [q \in Requests |-> req'[q]] /\ UNCHANGED control
    BY <1>6 DEF ConnectFails
  <2>2. \A q \in Requests :
           \/ req'[q] = req[q]
           \/ /\ req[q].pc \in {"starting", "send", "waiting"}
              /\ \/ req'[q] = [req[q] EXCEPT !.pc = "orphan"]
                 \/ req'[q] = [req[q] EXCEPT !.pc = "refused"]
    BY <1>6, <1>a DEF ConnectFails
  <2>. QED  BY <1>0, <2>1, <2>2, AnsweredKeeps
<1>7. ASSUME NEW i, NEW outcome, Process(i, outcome)  PROVE RequestsOK'
  BY <1>0, <1>7 DEF Process, RequestsOK, RequestOK
<1>8. CASE Restart
  <2>2. Idle \in RequestType
    BY IdleType
  <2>3. req' = [r \in Requests |-> Idle] /\ control' = Nobody
    BY <1>8 DEF Restart
  <2>4. req' \in [Requests -> RequestType] /\ \A r \in Requests : req'[r] = Idle
    BY <2>2, <2>3
  <2>. QED  BY <2>3, <2>4, IdleType DEF RequestsOK, RequestOK
<1>9. CASE UNCHANGED vars
  BY <1>0, <1>9 DEF vars, RequestsOK, RequestOK
<1>. QED  BY <1>1, <1>2, <1>3, <1>4, <1>5, <1>6, <1>7, <1>8, <1>9 DEF Next


-----------------------------------------------------------------------------
(* Types: the rest *)

LEMMA RestInductive ==
    ASSUME TypeInv, [Next]_vars
    PROVE  RestOK'
<1>0. RestOK /\ RequestsOK /\ ChannelOK /\ PlayerOK /\ DataOK
  BY DEF TypeInv
<1> DEFINE W == {Prepared} \cup WakerType
<1>w. wakers \subseteq W
  BY <1>0 DEF RestOK
<1> HIDE DEF W
<1>e. ASSUME NEW k \in {"requests", "upsets"}, Event(k)
      PROVE  left' \in [requests : Nat, upsets : Nat]
  BY <1>0, <1>e DEF Event, RestOK
<1>1. CASE UNCHANGED <<wakers, seen, left, obeyed, excused>>
  BY <1>0, <1>1 DEF RestOK
<1>2. ASSUME NEW r \in Requests, NEW op, NEW arg, Arrive(r, op, arg)  PROVE RestOK'
  BY <1>0, <1>2, <1>e DEF Arrive, history, RestOK
<1>3. ASSUME NEW r \in Requests, Begin(r) \/ Continue(r) \/ TimeOut(r)  PROVE RestOK'
  <2>1. CASE Begin(r)
    BY <1>1, <2>1 DEF Begin, Replay, BeginEnqueue, BeginTransport, BeginPlayNow, BeginGuarded,
                      BeginStopping, BeginRemove, history
  <2>2. CASE \/ Start(r) \/ Send(r) \/ OrphanTimesOut(r) \/ Fail(r) \/ Insert(r) \/ Remove(r)
             \/ Bump(r) \/ StopRoom(r) \/ DeleteTemporaryQueue(r) \/ ClearTemporaryQueue(r) \/ SetPlaybackMode(r) \/ Activate(r)
    BY <1>1, <2>2 DEF Start, Send, OrphanTimesOut, Fail, Insert, Remove, Bump, StopRoom,
                      DeleteTemporaryQueue, ClearTemporaryQueue, SetPlaybackMode, Activate, history
  <2>3. CASE Succeed(r)
    BY <1>0, <2>3 DEF Succeed, RestOK, history
  <2>4. CASE Settle(r)
    <3> DEFINE w == [item |-> IF req[r].op = "switch" THEN req[r].arg ELSE None,
                     sort |-> IF req[r].op = "switch" THEN req[r].sort ELSE 0,
                     gone |-> FALSE]
    <3>1. wakers' = wakers \cup {w} /\ UNCHANGED <<seen, left, obeyed, excused>>
      BY <2>4 DEF Settle, history
    <3>2. req[r].op = "switch" => req[r].arg \in Nat /\ req[r].sort \in Int
      BY <1>0 DEF RequestsOK, RequestOK, RequestType
    <3>3. w \in WakerType
      BY <3>2 DEF WakerType, None
    <3> HIDE DEF w
    <3>. QED  BY <1>0, <3>1, <3>3 DEF RestOK
  <2>5. CASE Expire(r)
    <3>1. UNCHANGED <<wakers, left, obeyed>> /\ seen' \in {seen, {}} /\ excused' \in {excused, TRUE}
      BY <2>5 DEF Expire
    <3>. QED  BY <1>0, <3>1 DEF RestOK
  <2>6. CASE TimeOut(r)
    <3>1. excused' \in BOOLEAN /\ UNCHANGED <<wakers, seen, obeyed>>
      BY <2>6 DEF TimeOut
    <3>2. left' \in [requests : Nat, upsets : Nat]
      BY <1>e, <2>6 DEF TimeOut
    <3>. QED  BY <1>0, <3>1, <3>2 DEF RestOK
  <2>. QED  BY <1>3, <2>1, <2>2, <2>3, <2>4, <2>5, <2>6 DEF Continue
<1>4. CASE PlayerStep \/ TrackEnds \/ IdleTimeout
  <2>1. CASE Select \/ Exit \/ Connect \/ TrackEnds
    BY <1>1, <2>1 DEF Select, Exit, Connect, TrackEnds, history
  <2>2. CASE IdleTimeout
    BY <1>1, <2>2 DEF IdleTimeout, Disconnect
  <2>3. ASSUME UNCHANGED <<wakers, seen, left, excused>>, obeyed' \in {obeyed, obeyed + 1}
        PROVE  RestOK'
    BY <1>0, <2>3 DEF RestOK
  <2>4. CASE Take
    <3>1. PICK late \in BOOLEAN : Obey(Head(channel), late)
      BY <2>4 DEF Take
    <3>2. Head(channel) \in CommandType
      BY <1>0, <2>4 DEF Take, ChannelOK
    <3>3. Disconnect(Head(channel).from) => obeyed' = obeyed
      BY DEF Disconnect
    <3>4. AcknowledgesOnly(Head(channel).from) => obeyed' = obeyed
      BY DEF AcknowledgesOnly
    <3>5. obeyed' \in {obeyed, obeyed + 1}
      BY <1>0, <3>1, <3>2, <3>3, <3>4, ObeyCases
    <3>. QED  BY <2>3, <2>4, <3>5 DEF Take
  <2>5. CASE TakeIdle
    BY <1>1, <2>5 DEF TakeIdle, Disconnect
  <2>. QED  BY <1>4, <2>1, <2>2, <2>4, <2>5 DEF PlayerStep
<1>5. ASSUME NEW by \in {"player", "ended"}, PersistRead(by) \/ PersistWrite(by)  PROVE RestOK'
  BY <1>1, <1>5 DEF PersistRead, PersistWrite, history
<1>6. CASE Heartbeat
  BY <1>1, <1>6 DEF Heartbeat, history
<1>7. ASSUME NEW w, StartPrepared \/ StartSwitched(w) \/ PlayerIsGone(w) \/ CleanupTimesOut(w)  PROVE RestOK'
  <2>1. UNCHANGED <<seen, left, obeyed, excused>>
    BY <1>7 DEF StartPrepared, StartSwitched, PlayerIsGone, CleanupTimesOut, history
  <2>2. CASE PlayerIsGone(w)
    <3>1. w \in WakerType
      BY <1>0, <2>2 DEF PlayerIsGone, RestOK, Prepared
    <3>2. [w EXCEPT !.gone = TRUE] \in WakerType
      BY <3>1 DEF WakerType
    <3>. QED  BY <1>0, <2>1, <2>2, <3>2 DEF PlayerIsGone, RestOK
  <2>3. CASE ~PlayerIsGone(w)
    <3>1. wakers' \subseteq wakers
      BY <1>7, <2>3 DEF StartPrepared, StartSwitched, CleanupTimesOut
    <3>. QED  BY <1>0, <2>1, <3>1 DEF RestOK
  <2>. QED  BY <2>2, <2>3
<1>8. CASE ConnectFails
  BY <1>0, <1>8, <1>e DEF ConnectFails, RestOK, history
<1>9. ASSUME NEW i, NEW outcome, Process(i, outcome)  PROVE RestOK'
  <2>1. wakers' \in {wakers, wakers \cup {Prepared}} /\ UNCHANGED <<seen, left, obeyed, excused>>
    BY <1>9 DEF Process, history
  <2>. QED  BY <1>0, <2>1 DEF RestOK
<1>10. CASE Restart
  BY <1>0, <1>10, <1>e DEF Restart, RestOK
<1>11. CASE UNCHANGED vars
  BY <1>1, <1>11 DEF vars
<1>. QED
  BY <1>2, <1>3, <1>4, <1>5, <1>6, <1>7, <1>8, <1>9, <1>10, <1>11 DEF Next

-----------------------------------------------------------------------------
(* Who is answered *)

\* What is in the channel was there before, if anybody waits for it, and nobody waits twice.
Carried ==
    /\ \A n \in DOMAIN channel' : channel'[n].from # Nobody =>
          \E m \in DOMAIN channel : channel[m] = channel'[n]
    /\ \A n, m \in DOMAIN channel' :
          channel'[n].from # Nobody /\ channel'[m].from = channel'[n].from => m = n

\* Whoever the player answers next still waits, and so does everybody in the channel.
LEMMA CarriedAnswers ==
    ASSUME AnswersOK, Carried,
           player'.ack # Nobody =>
              IF player'.pc = "connecting" THEN req'[player'.ack].pc = "starting"
              ELSE req'[player'.ack].pc \in {"starting", "waiting"},
           \A n \in DOMAIN channel' : channel'[n].from # Nobody =>
              /\ req'[channel'[n].from].pc = "waiting"
              /\ req'[channel'[n].from].op = req[channel'[n].from].op
              /\ channel'[n].from # player'.ack
    PROVE  AnswersOK'
  BY DEF AnswersOK, Carried

\* A channel that stays, or is emptied, carries nothing new.
LEMMA SameCarries ==
    ASSUME AnswersOK, channel' \in {channel, <<>>}
    PROVE  Carried
  BY DEF AnswersOK, Carried

LEMMA TailCarries ==
    ASSUME ChannelOK, AnswersOK, channel # <<>>, channel' = Tail(channel)
    PROVE  /\ Carried
           /\ \A n \in DOMAIN channel' : channel'[n].from # Nobody =>
                 /\ channel'[n].from # Head(channel).from
                 /\ \E m \in DOMAIN channel : channel[m] = channel'[n]
<1>1. channel \in Seq(CommandType) /\ Len(channel) \in Nat
  BY DEF ChannelOK
<1>2. /\ DOMAIN channel = 1 .. Len(channel) /\ DOMAIN channel' = 1 .. Len(channel) - 1
      /\ \A n \in DOMAIN channel' : channel'[n] = channel[n + 1]
      /\ Head(channel) = channel[1] /\ 1 \in DOMAIN channel
  BY <1>1
<1>3. \A n \in DOMAIN channel' : n + 1 \in DOMAIN channel /\ n + 1 # 1
  BY <1>1, <1>2
<1>4. \A n, m \in DOMAIN channel' : n + 1 = m + 1 => m = n
  BY <1>2
<1>. QED  BY <1>2, <1>3, <1>4 DEF Carried, AnswersOK

LEMMA OffersCarry ==
    ASSUME ChannelOK, AnswersOK, Offers
    PROVE  Carried
<1>1. CASE channel' = channel
  BY <1>1, SameCarries
<1>2. CASE channel' # channel
  <2>2. PICK c : Unasked(c) /\ Offer(c)
    BY DEF Offers
  <2>1. channel' = Append(channel, c) /\ channel \in Seq(CommandType) /\ Len(channel) \in Nat
    BY <1>2, <2>2 DEF Offer, ChannelOK
  <2>3. /\ DOMAIN channel' = 1 .. Len(channel) + 1 /\ DOMAIN channel = 1 .. Len(channel)
        /\ channel'[Len(channel) + 1] = c
        /\ \A n \in 1 .. Len(channel) : channel'[n] = channel[n]
    BY <2>1
  <2>4. \A n \in DOMAIN channel' : channel'[n].from # Nobody =>
           n \in DOMAIN channel /\ channel'[n] = channel[n]
    BY <2>1, <2>2, <2>3 DEF Unasked
  <2>. QED  BY <2>4 DEF Carried, AnswersOK
<1>. QED  BY <1>1, <1>2

\* What requests do that do not wait, when the player and its channel stay.
LEMMA AnswersStay ==
    ASSUME TypeInv, AnswersOK, Carried,
           player'.ack = player.ack, player'.pc = player.pc \/ player'.pc # "connecting",
           \A q \in Requests : req[q].pc \in {"starting", "waiting"} => req'[q] = req[q]
    PROVE  AnswersOK'
<1>1. player.ack \in Requests \cup {Nobody}
  BY DEF TypeInv, PlayerOK, PlayerType
<1>2. \A n \in DOMAIN channel : channel[n].from \in Requests \cup {Nobody}
  <2>1. channel \in [DOMAIN channel -> CommandType]
    BY DEF TypeInv, ChannelOK
  <2>. QED  BY <2>1 DEF CommandType
<1>3. player'.ack # Nobody => req'[player'.ack] = req[player.ack]
  BY <1>1 DEF AnswersOK
<1>4. \A n \in DOMAIN channel' : channel'[n].from # Nobody =>
         \E m \in DOMAIN channel : channel[m] = channel'[n]
  BY DEF Carried
<1>5. \A n \in DOMAIN channel' : channel'[n].from # Nobody =>
         /\ channel'[n].from \in Requests
         /\ req[channel'[n].from].pc = "waiting"
         /\ channel'[n].from # player.ack
  BY <1>2, <1>4 DEF AnswersOK
<1>. QED  BY <1>3, <1>5, CarriedAnswers DEF AnswersOK

\* Only r moves on, and nobody waits for an answer to r.
OnlyMoves(r) ==
    /\ req[r].pc \notin {"starting", "waiting"}
    /\ \A q \in Requests \ {r} : req'[q] = req[q]

LEMMA RequestsKeepAnswers ==
    ASSUME TypeInv, AnswersOK, NEW r \in Requests, Begin(r) \/ Continue(r) \/ TimeOut(r)
    PROVE  AnswersOK'
<1>0. /\ RequestsOK /\ ChannelOK /\ PlayerOK /\ req[r] \in RequestType /\ r # Nobody
      /\ req \in [Requests -> RequestType]
  BY RoomAssumption DEF TypeInv, RequestsOK, RoomAssumption, Nobody
<1>a. player.ack \in Requests \cup {Nobody}
  BY <1>0 DEF PlayerOK, PlayerType
<1>c. \A n \in DOMAIN channel : channel[n].from \in Requests \cup {Nobody}
  <2>1. channel \in [DOMAIN channel -> CommandType]
    BY <1>0 DEF ChannelOK
  <2>. QED  BY <2>1 DEF CommandType
<1>1. ASSUME OnlyMoves(r), UNCHANGED <<player, channel>>  PROVE AnswersOK'
  BY <1>1, SameCarries, AnswersStay DEF OnlyMoves
<1>2. CASE Begin(r)
  <2>1. OnlyMoves(r)
    BY <1>0, <1>2 DEF OnlyMoves, Begin, Replay, BeginEnqueue, BeginTransport, BeginPlayNow, BeginGuarded,
               BeginStopping, BeginRemove, Begins, ThroughPlayer, Finish
  <2>2. UNCHANGED <<player, channel>>
    BY <1>2 DEF Begin, Replay, BeginEnqueue, BeginTransport, BeginPlayNow, BeginGuarded,
                BeginStopping, BeginRemove
  <2>. QED  BY <1>1, <2>1, <2>2
<1>3. CASE \/ Fail(r) \/ Succeed(r) \/ Insert(r) \/ Remove(r) \/ Bump(r) \/ StopRoom(r)
           \/ DeleteTemporaryQueue(r) \/ ClearTemporaryQueue(r) \/ SetPlaybackMode(r) \/ Activate(r) \/ Settle(r) \/ Expire(r)
  <2>1. OnlyMoves(r)
    BY <1>0, <1>3 DEF OnlyMoves, Fail, Succeed, Insert, Remove, Bump, StopRoom, DeleteTemporaryQueue, ClearTemporaryQueue,
                      SetPlaybackMode, Activate, Settle, Expire, Finish
  <2>2. UNCHANGED <<player, channel>>
    BY <1>3 DEF Fail, Succeed, Insert, Remove, Bump, StopRoom, DeleteTemporaryQueue, ClearTemporaryQueue,
                SetPlaybackMode, Activate, Settle, Expire
  <2>. QED  BY <1>1, <2>1, <2>2
<1>4. CASE Start(r)
  <2>1. OnlyMoves(r)
    BY <1>0, <1>4 DEF OnlyMoves, Start
  <2>2. CASE UNCHANGED <<player, channel>>
    BY <1>1, <2>1, <2>2
  <2>3. CASE Wake /\ UNCHANGED player
    BY <2>1, <2>3, <1>0, OffersCarry, WakeOffers, AnswersStay DEF OnlyMoves
  <2>4. CASE ~ UNCHANGED <<player, channel>> /\ ~ (Wake /\ UNCHANGED player)
    <3>1. /\ ~Registered /\ player'.pc = "connecting" /\ player'.ack = r /\ channel' = channel
          /\ req'[r].pc = "starting"
      <4> DEFINE preferred == IF req[r].op = "play_now" THEN req[r].arg ELSE None
      <4>1. /\ ~Registered /\ Register(preferred, req[r].sort, r) /\ channel' = channel
            /\ req' = [req EXCEPT ![r].pc = "starting"]
        BY <1>4, <2>4 DEF Start
      <4> HIDE DEF preferred
      <4>2. player'.pc = "connecting" /\ player'.ack = r
        BY <4>1 DEF Register, Silent
      <4>3. req'[r] = [req[r] EXCEPT !.pc = "starting"]
        BY <1>0, <4>1
      <4>. QED  BY <1>0, <4>1, <4>2, <4>3 DEF RequestType
    <3>2. channel = <<>>
      BY <1>0, <3>1 DEF ChannelOK
    <3>. QED  BY <3>1, <3>2 DEF AnswersOK
  <2>. QED  BY <2>2, <2>3, <2>4
<1>5. CASE Send(r)
  <2>1. OnlyMoves(r) /\ UNCHANGED player
    BY <1>0, <1>5 DEF OnlyMoves, Send
  <2>2. CASE channel' = channel
    BY <1>1, <2>1, <2>2
  <2>3. CASE channel' # channel
    <3> DEFINE c == Command(Kind(req[r].op), req[r].arg, r)
    <3>1. channel' = Append(channel, c) /\ channel \in Seq(CommandType) /\ Len(channel) \in Nat
      BY <1>0, <1>5, <2>3 DEF Send, ChannelOK
    <3>2. c.from = r /\ (c.retried => req[r].op = "skip")
      BY DEF Command
    <3>3. req'[r].pc = "waiting" /\ req'[r].op = req[r].op
      <4>1. req'[r] = [req[r] EXCEPT !.pc = "waiting"]
        BY <1>0, <1>5, <2>3 DEF Send
      <4>. QED  BY <1>0, <4>1 DEF RequestType
    <3> HIDE DEF c
    <3>4. /\ DOMAIN channel' = 1 .. Len(channel) + 1 /\ DOMAIN channel = 1 .. Len(channel)
          /\ channel'[Len(channel) + 1] = c
          /\ \A n \in 1 .. Len(channel) : channel'[n] = channel[n]
      BY <3>1
    <3>5. \A n \in DOMAIN channel' :
             \/ n = Len(channel) + 1 /\ channel'[n] = c
             \/ n \in DOMAIN channel /\ channel'[n] = channel[n]
      BY <3>1, <3>4
    <3>6. player.ack # r /\ \A n \in DOMAIN channel : channel[n].from # r
      BY <1>0, <2>1 DEF OnlyMoves, AnswersOK
    <3>7. player'.ack # Nobody =>
             IF player'.pc = "connecting" THEN req'[player'.ack].pc = "starting"
             ELSE req'[player'.ack].pc \in {"starting", "waiting"}
      BY <1>a, <2>1, <3>6 DEF OnlyMoves, AnswersOK
    <3>8. ASSUME NEW n \in DOMAIN channel', channel'[n].from # Nobody
          PROVE  /\ req'[channel'[n].from].pc = "waiting"
                 /\ channel'[n].from # player'.ack
                 /\ channel'[n].retried => req'[channel'[n].from].op = "skip"
      <4>1. CASE channel'[n] = c
        BY <2>1, <3>2, <3>3, <3>6, <4>1
      <4>2. CASE n \in DOMAIN channel /\ channel'[n] = channel[n]
        <5>1. channel[n].from \in Requests \ {r}
          BY <1>c, <3>6, <3>8, <4>2
        <5>. QED  BY <2>1, <3>8, <4>2, <5>1 DEF OnlyMoves, AnswersOK
      <4>. QED  BY <3>5, <4>1, <4>2
    <3>9. ASSUME NEW n \in DOMAIN channel', channel'[n].from # Nobody,
                 NEW m \in DOMAIN channel', channel'[m].from = channel'[n].from
          PROVE  m = n
      <4>1. CASE n \in DOMAIN channel /\ channel'[n] = channel[n]
        BY <3>2, <3>5, <3>6, <3>9, <4>1 DEF AnswersOK
      <4>2. CASE n = Len(channel) + 1 /\ channel'[n] = c
        BY <3>2, <3>5, <3>6, <3>9, <4>2
      <4>. QED  BY <3>5, <4>1, <4>2
    <3>. QED  BY <3>7, <3>8, <3>9 DEF AnswersOK
  <2>. QED  BY <2>2, <2>3
<1>6. CASE OrphanTimesOut(r) \/ TimeOut(r)
  <2>0. GiveUp(r) /\ req[r].pc \in {"send", "waiting", "orphan"}
    BY <1>6 DEF OrphanTimesOut, TimeOut
  <2>1. /\ DOMAIN channel' = DOMAIN channel
        /\ \A n \in DOMAIN channel :
              IF channel[n].from = r THEN channel'[n] = [channel[n] EXCEPT !.from = Nobody]
              ELSE channel'[n] = channel[n]
    BY <2>0 DEF GiveUp
  <2>2. \A n \in DOMAIN channel : channel[n].from = r => channel'[n].from = Nobody
    <3>1. channel \in [DOMAIN channel -> CommandType]
      BY <1>0 DEF ChannelOK
    <3>. QED  BY <2>1, <3>1 DEF CommandType
  <2>3. \A n \in DOMAIN channel' : channel'[n].from # Nobody =>
           n \in DOMAIN channel /\ channel'[n] = channel[n] /\ channel[n].from # r
    BY <2>1, <2>2
  <2>4. Carried
    BY <2>3 DEF Carried, AnswersOK
  <2>5. \A q \in Requests \ {r} : req'[q] = req[q]
    BY <1>0, <2>0 DEF GiveUp
  <2>6. player'.pc = player.pc /\ (player'.ack = Nobody \/ (player'.ack = player.ack /\ player.ack # r))
    <3>1. player'.pc = player.pc
          /\ player'.ack = IF player.ack = r /\ player.pc # "connecting" THEN Nobody ELSE player.ack
      BY <1>0, <2>0 DEF GiveUp, PlayerOK, PlayerType
    <3>2. player.pc = "connecting" => player.ack # r
      BY <1>0, <2>0 DEF AnswersOK
    <3>. QED  BY <3>1, <3>2
  <2>7. player'.ack # Nobody =>
           IF player'.pc = "connecting" THEN req'[player'.ack].pc = "starting"
           ELSE req'[player'.ack].pc \in {"starting", "waiting"}
    BY <1>a, <2>5, <2>6 DEF AnswersOK
  <2>8. ASSUME NEW n \in DOMAIN channel', channel'[n].from # Nobody
        PROVE  /\ req'[channel'[n].from].pc = "waiting"
               /\ req'[channel'[n].from].op = req[channel'[n].from].op
               /\ channel'[n].from # player'.ack
    <3>1. channel'[n].from \in Requests \ {r} /\ n \in DOMAIN channel /\ channel'[n] = channel[n]
      BY <1>c, <2>3, <2>8
    <3>. QED  BY <2>5, <2>6, <2>8, <3>1 DEF AnswersOK
  <2>. QED  BY <2>4, <2>7, <2>8, CarriedAnswers
<1>. QED  BY <1>2, <1>3, <1>4, <1>5, <1>6 DEF Continue

\* A player that answers nobody next, while whoever is in the channel still waits.
LEMMA NobodyNext ==
    ASSUME TypeInv, AnswersOK, Carried, player'.ack = Nobody, NEW r,
           \A q \in Requests : q # r /\ req[q].pc = "waiting" => req'[q] = req[q],
           \A n \in DOMAIN channel' : channel'[n].from # Nobody => channel'[n].from # r
    PROVE  AnswersOK'
<1>1. \A n \in DOMAIN channel : channel[n].from \in Requests \cup {Nobody}
  <2>1. channel \in [DOMAIN channel -> CommandType]
    BY DEF TypeInv, ChannelOK
  <2>. QED  BY <2>1 DEF CommandType
<1>2. ASSUME NEW n \in DOMAIN channel', channel'[n].from # Nobody
      PROVE  /\ channel'[n].from \in Requests
             /\ channel'[n].from # r
             /\ req[channel'[n].from].pc = "waiting"
  <2>1. PICK m \in DOMAIN channel : channel[m] = channel'[n]
    BY <1>2 DEF Carried
  <2>. QED  BY <1>1, <1>2, <2>1 DEF AnswersOK
<1>. QED  BY <1>2, CarriedAnswers

\* The player takes the first command.
LEMMA TakingKeepsAnswers ==
    ASSUME TypeInv, AnswersOK, channel # <<>>, player.pc \in {"play", "idle"}, NEW r,
           r = Head(channel).from, Disconnect(r) \/ SavesFor(r) \/ AcknowledgesOnly(r)
    PROVE  AnswersOK'
<1>0. ChannelOK /\ PlayerOK /\ player.ack = Nobody
  BY DEF TypeInv, PlayerOK
<1>1. CASE Disconnect(r)
  <2>1. player'.ack = Nobody /\ channel' = <<>>
    BY <1>1 DEF Disconnect, Silent
  <2>. QED  BY <2>1 DEF AnswersOK
<1>2. CASE SavesFor(r)
  <2>1. player'.pc = "save" /\ player'.ack = r /\ req' = req /\ channel' = Tail(channel)
    BY <1>2 DEF SavesFor
  <2>2. player'.ack # Nobody => req'[player'.ack].pc \in {"starting", "waiting"}
    <3>1. r \in Requests \cup {Nobody} /\ (r \in Requests => req[r].pc = "waiting")
      BY HeadWaits
    <3>. QED  BY <2>1, <3>1
  <2>3. /\ Carried
        /\ \A n \in DOMAIN channel' : channel'[n].from # Nobody =>
              /\ channel'[n].from # r
              /\ \E m \in DOMAIN channel : channel[m] = channel'[n]
    BY <1>0, <2>1, TailCarries
  <2>. QED  BY <2>1, <2>2, <2>3, CarriedAnswers DEF AnswersOK
<1>3. CASE AcknowledgesOnly(r)
  <2>1. /\ channel' = Tail(channel)
        /\ \A q \in Requests : q # r => req'[q] = req[q]
    BY <1>3 DEF AcknowledgesOnly, Acknowledge
  <2>2. player'.ack = Nobody
    BY <1>0, <1>3 DEF AcknowledgesOnly, PlayerOK, PlayerType
  <2>3. /\ Carried
        /\ \A n \in DOMAIN channel' : channel'[n].from # Nobody => channel'[n].from # r
    BY <1>0, <2>1, TailCarries
  <2>. QED  BY <2>1, <2>2, <2>3, NobodyNext
<1>. QED  BY <1>1, <1>2, <1>3

LEMMA PlayerKeepsAnswers ==
    ASSUME TypeInv, AnswersOK, PlayerStep \/ TrackEnds \/ IdleTimeout
    PROVE  AnswersOK'
<1>0. DataOK /\ PlayerOK /\ ChannelOK /\ RequestsOK /\ Nobody \notin Requests
  BY RoomAssumption DEF TypeInv, RoomAssumption, Nobody
<1>n. ASSUME UNCHANGED <<channel, req>>, player'.ack = Nobody  PROVE AnswersOK'
  BY <1>n DEF AnswersOK
<1>1. CASE Select
  <2>1. UNCHANGED <<channel, req>> /\ player.ack = Nobody
    BY <1>0, <1>1 DEF Select, PlayerOK
  <2>2. player'.ack = Nobody
    BY <1>0, <1>1, <2>1 DEF Select, PlayerSaves, PlayerOK, PlayerType
  <2>. QED  BY <1>n, <2>1, <2>2
<1>2. CASE Take
  <2>1. PICK late \in BOOLEAN : Obey(Head(channel), late)
    BY <1>2 DEF Take
  <2>2. channel # <<>> /\ player.pc = "play" /\ Head(channel) \in CommandType
    BY <1>0, <1>2 DEF Take, ChannelOK
  <2>. QED  BY <1>0, <2>1, <2>2, ObeyCases, TakingKeepsAnswers
<1>3. CASE TakeIdle
  <2>1. channel # <<>> /\ player.pc = "idle"
    BY <1>3 DEF TakeIdle
  <2>. QED  BY <1>0, <1>3, <2>1, TakeIdleCases, TakingKeepsAnswers
<1>4. CASE Exit
  <2>1. player'.ack = Nobody /\ UNCHANGED <<channel, req>>
    BY <1>4 DEF Exit, Silent
  <2>. QED  BY <1>n, <2>1
<1>5. CASE Connect
  <2>1. CASE player.cur = None
    <3>1. channel' = channel /\ Acknowledge(player.ack)
      BY <1>5, <2>1 DEF Connect
    <3>2. player'.ack = Nobody
      BY <1>0, <1>5, <2>1 DEF Connect, PlayerOK, PlayerType
    <3>3. \A q \in Requests : q # player.ack => req'[q] = req[q]
      BY <3>1 DEF Acknowledge
    <3>4. \A n \in DOMAIN channel' : channel'[n].from # Nobody => channel'[n].from # player.ack
      BY <3>1 DEF AnswersOK
    <3>. QED  BY <3>1, <3>2, <3>3, <3>4, SameCarries, NobodyNext
  <2>2. CASE player.cur # None
    <3>1. UNCHANGED <<channel, req>> /\ player'.ack = player.ack /\ player'.pc = "save"
      BY <1>0, <1>5, <2>2 DEF Connect, PlayerOK, PlayerType
    <3>. QED  BY <3>1, SameCarries, AnswersStay
  <2>. QED  BY <2>1, <2>2
<1>6. CASE TrackEnds
  <2>1. UNCHANGED <<channel, req>> /\ NextItem("natural", FALSE, Nobody)
    BY <1>6 DEF TrackEnds
  <2>2. player'.ack = Nobody
    BY <1>0, <2>1, NextItemType
  <2>. QED  BY <1>n, <2>1, <2>2
<1>7. CASE IdleTimeout
  <2>1. player'.ack = Nobody /\ channel' = <<>>
    BY <1>7 DEF IdleTimeout, Disconnect, Silent
  <2>. QED  BY <2>1 DEF AnswersOK
<1>. QED  BY <1>1, <1>2, <1>3, <1>4, <1>5, <1>6, <1>7 DEF PlayerStep

\* Whoever the player or a command in the channel will answer waits for it.
LEMMA AnswersInductive ==
    ASSUME TypeInv, AnswersOK, [Next]_vars
    PROVE  AnswersOK'
<1>0. DataOK /\ PlayerOK /\ ChannelOK /\ RequestsOK /\ SavingOK
  BY DEF TypeInv
<1>s. ASSUME UNCHANGED <<player, channel, req>>  PROVE AnswersOK'
  BY <1>s DEF AnswersOK
<1>1. ASSUME NEW r \in Requests, NEW op, NEW arg, Arrive(r, op, arg)  PROVE AnswersOK'
  <2>1. UNCHANGED <<player, channel>> /\ \A q \in Requests : req[q].pc # "idle" => req'[q] = req[q]
    BY <1>0, <1>1 DEF Arrive, RequestsOK
  <2>. QED  BY <2>1, SameCarries, AnswersStay
<1>2. ASSUME NEW r \in Requests, Begin(r) \/ Continue(r) \/ TimeOut(r)  PROVE AnswersOK'
  BY <1>2, RequestsKeepAnswers
<1>3. CASE PlayerStep \/ TrackEnds \/ IdleTimeout
  BY <1>3, PlayerKeepsAnswers
<1>4. ASSUME NEW by \in {"player", "ended"}, PersistRead(by) \/ PersistWrite(by)  PROVE AnswersOK'
  <2>1. CASE UNCHANGED <<player, channel, req>>
    BY <1>s, <2>1
  <2>2. CASE PersistWrite(by) /\ by = "player"
    <3>1. channel' = channel /\ \A q \in Requests : q # player.ack => req'[q] = req[q]
      BY <2>2 DEF PersistWrite
    <3>2. player'.ack = Nobody
      BY <1>0, <2>2 DEF PersistWrite, PlayerOK, PlayerType
    <3>3. \A n \in DOMAIN channel' : channel'[n].from # Nobody => channel'[n].from # player.ack
      BY <3>1 DEF AnswersOK
    <3>. QED  BY <3>1, <3>2, <3>3, SameCarries, NobodyNext
  <2>. QED  BY <1>4, <2>1, <2>2 DEF PersistRead, PersistWrite
<1>5. CASE Heartbeat
  BY <1>s, <1>5 DEF Heartbeat
<1>6. ASSUME NEW w, StartPrepared \/ StartSwitched(w) \/ PlayerIsGone(w) \/ CleanupTimesOut(w)  PROVE AnswersOK'
  <2>1. CASE Offers /\ UNCHANGED <<player, req>>
    BY <1>0, <2>1, OffersCarry, AnswersStay
  <2>2. CASE player'.ack = Nobody /\ UNCHANGED <<channel, req>>
    BY <2>2 DEF AnswersOK
  <2>3. ASSUME NEW preferred, NEW sort, Register(preferred, sort, Nobody)  PROVE player'.ack = Nobody
    BY <2>3 DEF Register, Silent
  <2>4. CASE StartSwitched(w)
    BY <1>0, <1>s, <2>1, <2>2, <2>3, <2>4, SwitchedOffers DEF StartSwitched
  <2>5. CASE StartPrepared
    BY <1>s, <2>1, <2>2, <2>3, <2>5, WakeOffers DEF StartPrepared
  <2>. QED  BY <1>6, <1>s, <2>4, <2>5 DEF PlayerIsGone, CleanupTimesOut
<1>7. CASE ConnectFails \/ Restart
  <2>1. player'.ack = Nobody /\ channel' = <<>>
    BY <1>7 DEF ConnectFails, Restart, Silent
  <2>. QED  BY <2>1 DEF AnswersOK
<1>8. ASSUME NEW i, NEW outcome, Process(i, outcome)  PROVE AnswersOK'
  BY <1>s, <1>8 DEF Process
<1>9. CASE UNCHANGED vars
  BY <1>s, <1>9 DEF vars
<1>. QED  BY <1>1, <1>2, <1>3, <1>4, <1>5, <1>6, <1>7, <1>8, <1>9 DEF Next

LEMMA TypeInductive ==
    ASSUME TypeInv, AnswersOK, [Next]_vars
    PROVE  TypeInv'
<1>1. DataOK' /\ LoopOK' /\ RequestsOK' /\ RestOK'
  BY RoomAssumption, DataInductive, LoopInductive, RequestsInductive, RestInductive
<1>. QED  BY <1>1 DEF TypeInv, LoopOK

-----------------------------------------------------------------------------
(* A room without a player is stopped, and no write is lost *)

\* What a step does to the state in the database: it stays, somebody writes it who holds
\* persistMu, or the room expires.
Stays == UNCHANGED <<db, saving>>
Saves == saving = Unlocked /\ saving' = Unlocked
Expires == saving' = [saving EXCEPT !.overtaken = saving # Unlocked]

LEMMA WhoWrites ==
    ASSUME TypeInv, Next
    PROVE  \/ Stays
           \/ Saves
           \/ Expires
           \/ saving' = Unlocked
           \/ saving'.db = db /\ UNCHANGED db
<1>1. ASSUME NEW r \in Requests, NEW op, NEW arg, Arrive(r, op, arg)  PROVE Stays
  BY <1>1 DEF Arrive, Stays
<1>2. ASSUME NEW r \in Requests, Begin(r) \/ TimeOut(r)  PROVE Stays
  BY <1>2 DEF Begin, Replay, BeginEnqueue, BeginTransport, BeginPlayNow, BeginGuarded, BeginStopping,
              BeginRemove, TimeOut, Stays
<1>3. ASSUME NEW r \in Requests, Continue(r)  PROVE Stays \/ Saves \/ Expires
  <2>1. CASE \/ Start(r) \/ Send(r) \/ OrphanTimesOut(r) \/ Fail(r) \/ Succeed(r) \/ Insert(r)
             \/ Remove(r) \/ Settle(r)
    BY <2>1 DEF Start, Send, OrphanTimesOut, Fail, Succeed, Insert, Remove, Settle, Stays
  <2>2. CASE \/ Bump(r) \/ StopRoom(r) \/ DeleteTemporaryQueue(r) \/ ClearTemporaryQueue(r) \/ SetPlaybackMode(r) \/ Activate(r)
    BY <2>2 DEF Bump, StopRoom, DeleteTemporaryQueue, ClearTemporaryQueue, SetPlaybackMode, Activate, Save, Stays, Saves
  <2>3. CASE Expire(r)
    BY <2>3 DEF Expire, Stays, Expires
  <2>. QED  BY <1>3, <2>1, <2>2, <2>3 DEF Continue
<1>4. ASSUME PlayerStep \/ TrackEnds \/ IdleTimeout  PROVE Stays
  BY <1>4 DEF PlayerStep, Select, Take, TakeIdle, Exit, Connect, TrackEnds, IdleTimeout, Stays
<1>5. ASSUME NEW by \in {"player", "ended"}, PersistRead(by) \/ PersistWrite(by)
      PROVE  saving' = Unlocked \/ (saving'.db = db /\ UNCHANGED db)
  <2>1. CASE PersistRead(by)
    <3>1. saving' = [by |-> by, db |-> db, live |-> Registered, overtaken |-> FALSE] /\ UNCHANGED db
      BY <2>1 DEF PersistRead
    <3>. QED  BY <3>1
  <2>2. CASE PersistWrite(by)
    BY <2>2 DEF PersistWrite
  <2>. QED  BY <1>5, <2>1, <2>2
<1>6. ASSUME Heartbeat  PROVE Saves
  BY <1>6 DEF Heartbeat, Saves
<1>7. ASSUME NEW w, StartPrepared \/ StartSwitched(w) \/ PlayerIsGone(w) \/ CleanupTimesOut(w) \/ ConnectFails  PROVE Stays
  BY <1>7 DEF StartPrepared, StartSwitched, PlayerIsGone, CleanupTimesOut, ConnectFails, Stays
<1>8. ASSUME NEW i, NEW outcome, Process(i, outcome)  PROVE Saves
  BY <1>8 DEF Process, Save, Saves
<1>9. ASSUME Restart  PROVE saving' = Unlocked
  BY <1>9 DEF Restart
<1>. QED  BY <1>1, <1>2, <1>3, <1>4, <1>5, <1>6, <1>7, <1>8, <1>9 DEF Next

\* What is being written was made from the state as it is, unless the room expired.
LEMMA UpdatesInductive ==
    ASSUME TypeInv, UpdatesAreNotLost, [Next]_vars
    PROVE  UpdatesAreNotLost'
<1>1. CASE Stays \/ saving' = Unlocked \/ (saving'.db = db /\ UNCHANGED db)
  BY <1>1 DEF UpdatesAreNotLost, Stays
<1>2. CASE Saves
  BY <1>2 DEF UpdatesAreNotLost, Saves
<1>3. CASE Expires
  <2>1. CASE saving = Unlocked
    <3>1. saving' = Unlocked
      BY <1>3, <2>1 DEF Expires, Unlocked
    <3>. QED  BY <3>1 DEF UpdatesAreNotLost
  <2>2. CASE saving # Unlocked
    <3>1. saving \in SavingType
      BY <2>2 DEF TypeInv, SavingOK
    <3>2. saving'.overtaken
      BY <1>3, <2>2, <3>1 DEF Expires, SavingType
    <3>. QED  BY <3>2 DEF UpdatesAreNotLost
  <2>. QED  BY <2>1, <2>2
<1>4. CASE UNCHANGED vars
  BY <1>1, <1>4 DEF vars, Stays
<1>. QED  BY <1>1, <1>2, <1>3, <1>4, WhoWrites

\* The player is there or not as before, and what is written does not play.
LEMMA SilentStays ==
    ASSUME SilentOK, UNCHANGED ending, db'.play \in {db.play, "stopped"},
           player'.pc \in {"none", "connecting"} => player.pc \in {"none", "connecting"}
    PROVE  SilentOK'
  BY DEF SilentOK, Registered

LEMMA SilentInductive ==
    ASSUME TypeInv, SilentOK, [Next]_vars
    PROVE  SilentOK'
<1>0. DataOK /\ PlayerOK /\ SavingOK /\ db \in Db /\ ChannelOK
  BY DEF TypeInv, DataOK
<1>1. CASE UNCHANGED <<ending, player, db>>
  BY <1>1, SilentStays
<1>2. ASSUME NEW r \in Requests, NEW op, NEW arg, Arrive(r, op, arg)  PROVE SilentOK'
  BY <1>1, <1>2 DEF Arrive
<1>3. ASSUME NEW r \in Requests, Begin(r)  PROVE SilentOK'
  BY <1>1, <1>3 DEF Begin, Replay, BeginEnqueue, BeginTransport, BeginPlayNow, BeginGuarded, BeginStopping,
              BeginRemove
<1>4. ASSUME NEW r \in Requests, Continue(r) \/ TimeOut(r)  PROVE SilentOK'
  <2>1. CASE Send(r) \/ Fail(r) \/ Succeed(r) \/ Insert(r) \/ Remove(r) \/ Settle(r)
    BY <1>1, <2>1 DEF Send, Fail, Succeed, Insert, Remove, Settle
  <2>2. CASE \/ Bump(r) \/ StopRoom(r) \/ DeleteTemporaryQueue(r) \/ ClearTemporaryQueue(r) \/ SetPlaybackMode(r) \/ Activate(r)
             \/ Expire(r)
    <3>1. UNCHANGED <<ending, player>>
      BY <2>2 DEF Bump, StopRoom, DeleteTemporaryQueue, ClearTemporaryQueue, SetPlaybackMode, Activate, Expire
    <3>2. db'.play \in {db.play, "stopped"}
      BY <1>0, <2>2 DEF Bump, StopRoom, DeleteTemporaryQueue, ClearTemporaryQueue, SetPlaybackMode, Activate, Expire, Save, Db
    <3>. QED  BY <3>1, <3>2, SilentStays
  <2>3. CASE OrphanTimesOut(r) \/ TimeOut(r)
    <3>1. GiveUp(r) /\ UNCHANGED <<ending, db>>
      BY <2>3 DEF OrphanTimesOut, TimeOut
    <3>2. player'.pc = player.pc
      BY <1>0, <3>1 DEF GiveUp, PlayerOK, PlayerType
    <3>. QED  BY <3>1, <3>2, SilentStays
  <2>4. CASE Start(r)
    <3>1. UNCHANGED <<ending, db>> /\ (UNCHANGED player \/ ~Registered)
      BY <2>4 DEF Start
    <3>. QED  BY <3>1, SilentStays DEF Registered
  <2>. QED  BY <1>4, <2>1, <2>2, <2>3, <2>4 DEF Continue
<1>5. ASSUME NEW r, UNCHANGED <<ending, db>>, Disconnect(r) \/ SavesFor(r) \/ AcknowledgesOnly(r),
             player.pc \in {"play", "idle"}
      PROVE  SilentOK'
  <2>1. player'.pc \notin {"none", "connecting"}
    BY <1>0, <1>5 DEF Disconnect, SavesFor, AcknowledgesOnly, Silent, PlayerOK, PlayerType
  <2>. QED  BY <1>5, <2>1, SilentStays
<1>6. CASE PlayerStep \/ TrackEnds \/ IdleTimeout
  <2>1. CASE Select
    <3>1. player'.pc \notin {"none", "connecting"} /\ UNCHANGED <<ending, db>>
      BY <1>0, <2>1 DEF Select, PlayerSaves, PlayerOK, PlayerType
    <3>. QED  BY <3>1, SilentStays
  <2>2. CASE Take
    <3>1. PICK late \in BOOLEAN : Obey(Head(channel), late)
      BY <2>2 DEF Take
    <3>2. player.pc = "play" /\ Head(channel) \in CommandType /\ UNCHANGED <<ending, db>>
      BY <1>0, <2>2 DEF Take, ChannelOK
    <3>. QED  BY <1>0, <1>5, <3>1, <3>2, ObeyCases
  <2>3. CASE TakeIdle
    BY <1>0, <1>5, <2>3, TakeIdleCases DEF TakeIdle
  <2>4. CASE Exit
    <3>1. ending' > 0
      BY <1>0, <2>4 DEF Exit, SavingOK
    <3>. QED  BY <3>1 DEF SilentOK
  <2>5. CASE Connect
    <3>1. player.pc = "connecting" /\ UNCHANGED <<ending, db>>
      BY <2>5 DEF Connect
    <3>. QED  BY <3>1, SilentStays
  <2>6. CASE TrackEnds
    <3>1. NextItem("natural", FALSE, Nobody) /\ UNCHANGED <<ending, db>>
      BY <2>6 DEF TrackEnds
    <3>2. player'.pc = "save"
      BY <1>0, <3>1, NextItemType
    <3>. QED  BY <3>1, <3>2, SilentStays
  <2>7. CASE IdleTimeout
    BY <1>5, <2>7 DEF IdleTimeout
  <2>. QED  BY <1>6, <2>1, <2>2, <2>3, <2>4, <2>5, <2>6, <2>7 DEF PlayerStep
<1>7. ASSUME NEW by \in {"player", "ended"}, PersistRead(by)  PROVE SilentOK'
  BY <1>1, <1>7 DEF PersistRead
<1>8. ASSUME PersistWrite("player")  PROVE SilentOK'
  <2>1. /\ player.pc = "save" /\ player.then \in {"select", "play", "idle", "exit"}
        /\ player' = [player EXCEPT !.pc = player.then, !.ack = Nobody, !.forced = FALSE]
    BY <1>0, <1>8 DEF PersistWrite, SavingOK, PlayerOK, PlayerType
  <2>2. player'.pc \notin {"none", "connecting"}
    BY <1>0, <2>1 DEF PlayerOK, PlayerType
  <2>. QED  BY <2>2 DEF SilentOK, Registered
<1>9. ASSUME PersistWrite("ended")  PROVE SilentOK'
  <2>1. /\ saving.by = "ended" /\ player' = player /\ ending' = ending - 1 /\ ending > 0
        /\ db' = Persisted(saving.db, saving.live)
    BY <1>0, <1>9 DEF PersistWrite, SavingOK
  <2>2. saving \in SavingType
    BY <1>0, <2>1 DEF SavingOK, Unlocked, Nobody
  <2> DEFINE now == Snapshot(saving.live)
  <2>3. player.pc \in {"none", "connecting"} => now.play = "stopped"
    BY <1>0 DEF Snapshot, PlayerOK, Registered
  <2>4. db' = [saving.db EXCEPT !.play = now.play, !.current = IF saving.live THEN now.current ELSE @]
    BY <2>1 DEF Persisted
  <2> HIDE DEF now
  <2>5. db'.play = now.play
    BY <2>2, <2>4 DEF SavingType, Db
  <2>. QED  BY <2>1, <2>3, <2>5 DEF SilentOK, Registered
<1>10. CASE Heartbeat
  <2>1. player.pc = "play" /\ player' = player
    BY <1>10 DEF Heartbeat
  <2>. QED  BY <2>1 DEF SilentOK, Registered
<1>11. ASSUME NEW w, StartPrepared \/ StartSwitched(w) \/ PlayerIsGone(w) \/ CleanupTimesOut(w)  PROVE SilentOK'
  <2>1. UNCHANGED <<ending, db>> /\ (UNCHANGED player \/ ~Registered)
    BY <1>11 DEF StartPrepared, StartSwitched, PlayerIsGone, CleanupTimesOut
  <2>. QED  BY <2>1, SilentStays DEF Registered
<1>12. CASE ConnectFails
  <2>1. UNCHANGED <<ending, db>> /\ player.pc = "connecting"
    BY <1>12 DEF ConnectFails
  <2>. QED  BY <2>1, SilentStays
<1>13. ASSUME NEW i, NEW outcome, Process(i, outcome)  PROVE SilentOK'
  BY <1>1, <1>13 DEF Process, Save
<1>14. CASE Restart
  <2>1. db'.play = "stopped"
    BY <1>0, <1>14 DEF Restart, Db
  <2>. QED  BY <2>1 DEF SilentOK
<1>15. CASE UNCHANGED vars
  BY <1>1, <1>15 DEF vars
<1>. QED
  BY <1>2, <1>3, <1>4, <1>6, <1>7, <1>8, <1>9, <1>10, <1>11, <1>12, <1>13, <1>14, <1>15 DEF Next

-----------------------------------------------------------------------------
(* A command id moves the player once *)

\* A request's skip was obeyed: the player is about to say so, or has said so.
Obeyed(r) ==
    /\ req[r].op = "skip"
    /\ \/ req[r].pc = "acked"
       \/ req[r].pc = "waiting" /\ player.ack = r /\ player.pc = "save"

\* Only one request works on a command under the control lock.
LEMMA OneHolder ==
    ASSUME RequestsOK, NEW q \in Requests, NEW r \in Requests,
           req[q].op # "remove", req[q].pc \notin {"idle", "lock"},
           req[r].op # "remove", req[r].pc \notin {"idle", "lock"}
    PROVE  q = r
  BY DEF RequestsOK, RequestOK

\* Nothing that the argument is about changes.
LEMMA SkipStays ==
    ASSUME SkipOK, obeyed' = obeyed, excused => excused', seen' = seen,
           \A n \in DOMAIN channel' : channel'[n].retried =>
              excused' \/ \E m \in DOMAIN channel : channel[m] = channel'[n],
           \A q \in Requests : Obeyed(q) =>
              /\ req'[q].op = "skip"
              /\ \/ req'[q].pc = "acked"
                 \/ req'[q].pc = "waiting" /\ player'.ack = q /\ player'.pc = "save",
           "skip" \in seen => \A q \in Requests : req'[q].op = "skip" =>
              req'[q].pc \in {"idle", "lock"} \/ req'[q] = req[q]
    PROVE  SkipOK'
<1>1. CASE excused'
  BY <1>1 DEF SkipOK
<1>2. CASE ~excused'
  BY <1>2 DEF SkipOK, Obeyed
<1>. QED  BY <1>1, <1>2

\* One request moves on, and it is not one whose skip was obeyed.
LEMMA SkipMoves ==
    ASSUME SkipOK, obeyed' = obeyed, excused' = excused, seen' = seen, UNCHANGED player,
           NEW r \in Requests, \A q \in Requests \ {r} : req'[q] = req[q],
           \A n \in DOMAIN channel' : channel'[n].retried =>
              \E m \in DOMAIN channel : channel[m] = channel'[n],
           ~Obeyed(r),
           "skip" \in seen /\ req'[r].op = "skip" =>
              \/ req'[r].pc \in {"idle", "lock"}
              \/ req[r].op = "skip" /\ req[r].pc \notin {"idle", "lock"}
    PROVE  SkipOK'
<1>1. CASE excused
  BY <1>1 DEF SkipOK
<1>2. CASE ~excused
  <2>1. "skip" \in seen /\ req'[r].op = "skip" => req'[r].pc \in {"idle", "lock"}
    BY <1>2 DEF SkipOK
  <2>. QED  BY <2>1, SkipStays DEF Obeyed
<1>. QED  BY <1>1, <1>2

LEMMA OffersNoRetry ==
    ASSUME ChannelOK, Offers
    PROVE  \A n \in DOMAIN channel' : channel'[n].retried => \E m \in DOMAIN channel : channel[m] = channel'[n]
<1>1. CASE channel' = channel
  BY <1>1
<1>2. CASE channel' # channel
  <2>2. PICK c : Unasked(c) /\ Offer(c)
    BY DEF Offers
  <2>1. channel' = Append(channel, c) /\ channel \in Seq(CommandType) /\ Len(channel) \in Nat
    BY <1>2, <2>2 DEF Offer, ChannelOK
  <2>3. /\ DOMAIN channel' = 1 .. Len(channel) + 1 /\ DOMAIN channel = 1 .. Len(channel)
        /\ channel'[Len(channel) + 1] = c
        /\ \A n \in 1 .. Len(channel) : channel'[n] = channel[n]
    BY <2>1
  <2>. QED  BY <2>1, <2>2, <2>3 DEF Unasked
<1>. QED  BY <1>1, <1>2

LEMMA RequestsKeepSkip ==
    ASSUME TypeInv, AnswersOK, SkipOK, NEW r \in Requests, Begin(r) \/ Continue(r) \/ TimeOut(r)
    PROVE  SkipOK'
<1>0. /\ RequestsOK /\ RequestOK(r) /\ ChannelOK /\ PlayerOK /\ RestOK /\ req[r] \in RequestType
      /\ req \in [Requests -> RequestType] /\ obeyed \in Nat
  BY DEF TypeInv, RequestsOK, RestOK
<1>i. Idle.pc = "idle" /\ Idle.op = "none"
  BY IdleType
<1>f. ASSUME Finish(r)  PROVE req'[r] = Idle /\ \A q \in Requests \ {r} : req'[q] = req[q]
  BY <1>0, <1>f DEF Finish
<1>1. CASE Begin(r)
  <2>1. /\ \A q \in Requests \ {r} : req'[q] = req[q]
        /\ req[r].pc = "lock"
        /\ UNCHANGED <<player, channel, seen, obeyed, excused>>
    BY <1>0, <1>1 DEF Begin, Replay, BeginEnqueue, BeginTransport, BeginPlayNow, BeginGuarded,
               BeginStopping, BeginRemove, Begins, ThroughPlayer, Finish, history
  <2>2. "skip" \in seen => req'[r].op # "skip"
    <3>1. CASE Finish(r)
      BY <1>i, <1>f, <3>1
    <3>2. CASE ~ Finish(r)
      <4>1. \/ Begins(r, {"enqueue", "play", "pause", "skip", "previous", "play_now", "clear",
                          "set_mode", "stop", "switch", "activate", "expire"})
            \/ req[r].op = "remove"
        BY <1>1, <3>2 DEF Begin, Replay, BeginEnqueue, BeginTransport, BeginPlayNow, BeginGuarded,
                 BeginStopping, BeginRemove, Begins
      <4>2. "skip" \in seen => req[r].op # "skip"
        BY <4>1 DEF Begins
      <4>3. req'[r].op = req[r].op
        <5>0. ASSUME NEW x, NEW y, NEW z,
                     \/ req' = [req EXCEPT ![r].pc = x, ![r].sort = y]
                     \/ req' = [req EXCEPT ![r].pc = x, ![r].sort = y, ![r].undo = z]
              PROVE  req'[r].op = req[r].op
          BY <1>0, <5>0 DEF RequestType
        <5>1. CASE BeginEnqueue(r) \/ BeginPlayNow(r) \/ BeginStopping(r)
          <6>1. CASE BeginEnqueue(r)
            BY <3>2, <5>0, <6>1 DEF BeginEnqueue
          <6>2. CASE BeginPlayNow(r)
            <7> DEFINE item == req[r].arg
                       now == IF Registered THEN Snapshot(TRUE).current
                              ELSE IF db.play = "stopped" THEN None ELSE db.current
                       interrupts == db.source = Temporary /\ now \notin {None, item}
                       moves == interrupts /\ now \in InScope(Temporary) /\ MustMove(item, now)
                       x == IF Registered THEN "send" ELSE "start"
                       y == rows'[item].sort
                       z == IF moves THEN TemporaryOrder ELSE NoUndo
            <7>1. req' = [req EXCEPT ![r].pc = x, ![r].sort = y, ![r].undo = z]
              BY <3>2, <6>2 DEF BeginPlayNow
            <7> HIDE DEF x, y, z
            <7>. QED  BY <5>0, <7>1
          <6>3. CASE BeginStopping(r)
            <7>1. PICK x, y : req' = [req EXCEPT ![r].pc = x, ![r].sort = y]
              BY <3>2, <6>3, Zenon DEF BeginStopping
            <7>. QED  BY <5>0, <7>1
          <6>. QED  BY <5>1, <6>1, <6>2, <6>3
        <5>2. CASE BeginTransport(r) \/ BeginGuarded(r)
          BY <1>0, <3>2, <5>2 DEF BeginTransport, BeginGuarded, ThroughPlayer, RequestType
        <5>3. CASE BeginRemove(r)
          BY <1>0, <5>3 DEF BeginRemove, RequestType
        <5>. QED  BY <1>1, <3>2, <5>1, <5>2, <5>3 DEF Begin, Replay
      <4>. QED  BY <4>2, <4>3
    <3>. QED  BY <3>1, <3>2
  <2>. QED  BY <2>1, <2>2, SkipMoves DEF Obeyed
<1>2. CASE \/ Fail(r) \/ Insert(r) \/ Remove(r) \/ Bump(r) \/ StopRoom(r)
           \/ DeleteTemporaryQueue(r) \/ ClearTemporaryQueue(r) \/ SetPlaybackMode(r) \/ Activate(r) \/ Settle(r)
  <2>1. /\ \A q \in Requests \ {r} : req'[q] = req[q]
        /\ UNCHANGED <<player, channel, seen, obeyed, excused>>
    BY <1>0, <1>2 DEF Fail, Insert, Remove, Bump, StopRoom, DeleteTemporaryQueue, ClearTemporaryQueue,
                      SetPlaybackMode, Activate, Settle, Finish, history
  <2>2. /\ req[r].pc \notin {"idle", "lock", "waiting"}
        /\ req[r].pc = "acked" => req[r].op # "skip"
    BY <1>2 DEF Fail, Insert, Remove, Bump, StopRoom, DeleteTemporaryQueue, ClearTemporaryQueue,
                SetPlaybackMode, Activate, Settle
  <2>3. req'[r].op \in {req[r].op, "none"}
    <3>1. CASE Finish(r)
      BY <1>i, <1>f, <3>1
    <3>2. CASE Insert(r) \/ Remove(r) \/ Activate(r) \/ DeleteTemporaryQueue(r)
      BY <1>0, <3>2 DEF Insert, Remove, Activate, DeleteTemporaryQueue, RequestType
    <3>. QED  BY <1>2, <3>1, <3>2 DEF Fail, Bump, StopRoom, ClearTemporaryQueue, SetPlaybackMode, Settle
  <2>. QED  BY <2>1, <2>2, <2>3, SkipMoves DEF Obeyed
<1>3. CASE Succeed(r)
  <2>1. /\ \A q \in Requests \ {r} : req'[q] = req[q]
        /\ UNCHANGED <<player, channel, obeyed, excused>>
        /\ req[r].pc = "acked" /\ req[r].op # "remove"
        /\ req'[r] = Idle
        /\ seen' = IF req[r].op = "skip" THEN seen \cup {"skip"} ELSE seen
    BY <1>3, <1>f DEF Succeed, history
  <2>2. CASE req[r].op # "skip"
    BY <1>i, <2>1, <2>2, SkipMoves DEF Obeyed
  <2>3. CASE req[r].op = "skip"
    <3>1. \A q \in Requests : req'[q].op = "skip" => req'[q].pc \in {"idle", "lock"}
      BY <1>0, <1>i, <2>1, OneHolder
    <3>. QED  BY <2>1, <2>3, <3>1 DEF SkipOK
  <2>. QED  BY <2>2, <2>3
<1>4. CASE Expire(r)
  <2>1. CASE UNCHANGED <<seen, excused>>
    <3>1. /\ \A q \in Requests \ {r} : req'[q] = req[q]
          /\ req'[r] = Idle
          /\ UNCHANGED <<player, channel, obeyed>>
          /\ req[r].op = "expire"
      BY <1>4, <1>f DEF Expire
    <3>. QED  BY <1>i, <2>1, <3>1, SkipMoves DEF Obeyed
  <2>2. CASE ~ UNCHANGED <<seen, excused>>
    <3>1. excused' = TRUE
      BY <1>4, <2>2 DEF Expire
    <3>. QED  BY <3>1 DEF SkipOK
  <2>. QED  BY <2>1, <2>2
<1>5. CASE Start(r)
  <2>1. /\ \A q \in Requests \ {r} : req'[q] = req[q]
        /\ UNCHANGED <<seen, obeyed, excused>>
        /\ req[r].pc = "start"
    BY <1>0, <1>5 DEF Start, history
  <2>2. req'[r].op = req[r].op
    BY <1>0, <1>5 DEF Start, RequestType
  <2>3. CASE UNCHANGED <<player, channel>>
    BY <2>1, <2>2, <2>3, SkipMoves DEF Obeyed
  <2>4. CASE Wake /\ UNCHANGED player
    <3>1. \A n \in DOMAIN channel' : channel'[n].retried => \E m \in DOMAIN channel : channel[m] = channel'[n]
      BY <1>0, <2>4, WakeOffers, OffersNoRetry
    <3>. QED  BY <2>1, <2>2, <2>4, <3>1, SkipMoves DEF Obeyed
  <2>5. CASE ~Registered /\ channel' = channel
    <3>1. \A q \in Requests : Obeyed(q) => q # r /\ req[q].pc = "acked"
      BY <2>1, <2>5 DEF Obeyed, Registered
    <3>2. excused' = excused /\ seen' = seen /\ obeyed' = obeyed
      BY <2>1
    <3>3. CASE excused
      BY <3>2, <3>3 DEF SkipOK
    <3>4. CASE ~excused
      <4>1. "skip" \in seen => req'[r].op # "skip"
        BY <2>1, <2>2, <3>4 DEF SkipOK
      <4>. QED  BY <2>1, <2>5, <3>1, <3>2, <4>1, SkipStays DEF Obeyed
    <3>. QED  BY <3>3, <3>4
  <2>. QED  BY <1>5, <2>3, <2>4, <2>5 DEF Start
<1>6. CASE Send(r)
  <2>1. /\ \A q \in Requests \ {r} : req'[q] = req[q]
        /\ UNCHANGED <<player, seen, obeyed, excused>>
        /\ req[r].pc = "send"
    BY <1>0, <1>6 DEF Send, history
  <2>2. req'[r].op = req[r].op
    BY <1>0, <1>6 DEF Send, RequestType
  <2>3. CASE channel' = channel
    BY <2>1, <2>2, <2>3, SkipMoves DEF Obeyed
  <2>4. CASE channel' # channel /\ ~excused
    <3> DEFINE c == Command(Kind(req[r].op), req[r].arg, r)
    <3>1. channel' = Append(channel, c) /\ channel \in Seq(CommandType) /\ Len(channel) \in Nat
      BY <1>0, <1>6, <2>4 DEF Send, ChannelOK
    <3>2. c.from = r /\ (c.retried => req[r].op = "skip")
      BY DEF Command
    <3>3. r # Nobody
      BY RoomAssumption DEF RoomAssumption, Nobody
    <3> HIDE DEF c
    <3>4. \A n \in DOMAIN channel' : channel'[n] = c \/ (n \in DOMAIN channel /\ channel'[n] = channel[n])
      <4>1. /\ DOMAIN channel' = 1 .. Len(channel) + 1 /\ DOMAIN channel = 1 .. Len(channel)
            /\ channel'[Len(channel) + 1] = c
            /\ \A n \in 1 .. Len(channel) : channel'[n] = channel[n]
        BY <3>1
      <4>. QED  BY <3>1, <4>1
    <3>5. ASSUME req[r].op = "skip"  PROVE obeyed = 0
      <4>1. "skip" \notin seen
        BY <2>1, <2>4, <3>5 DEF SkipOK
      <4>2. \A q \in Requests : ~Obeyed(q)
        BY <1>0, <2>1, <3>5, OneHolder DEF Obeyed
      <4>3. obeyed # 1 /\ obeyed <= 1
        BY <2>4, <4>1, <4>2 DEF SkipOK, Obeyed
      <4>. QED  BY <1>0, <4>3
    <3>6. \A n \in DOMAIN channel' : channel'[n].retried => obeyed' = 0 /\ channel'[n].from # Nobody
      BY <2>1, <2>4, <3>2, <3>3, <3>4, <3>5 DEF SkipOK
    <3>7. obeyed = 1 =>
             \/ "skip" \in seen
             \/ \E q \in Requests :
                   /\ req'[q].op = "skip"
                   /\ \/ req'[q].pc = "acked"
                      \/ req'[q].pc = "waiting" /\ player'.ack = q /\ player'.pc = "save"
      <4>1. ASSUME NEW q \in Requests, Obeyed(q), q = r  PROVE FALSE
        BY <2>1, <4>1 DEF Obeyed
      <4>. QED  BY <2>1, <2>4, <4>1 DEF SkipOK, Obeyed
    <3>8. "skip" \in seen => \A q \in Requests : req'[q].op = "skip" => req'[q].pc \in {"idle", "lock"}
      BY <2>1, <2>2, <2>4 DEF SkipOK
    <3>. QED  BY <2>1, <2>4, <3>6, <3>7, <3>8 DEF SkipOK
  <2>5. CASE excused
    BY <2>1, <2>5 DEF SkipOK
  <2>. QED  BY <2>3, <2>4, <2>5
<1>7. CASE OrphanTimesOut(r) \/ TimeOut(r)
  <2>0. GiveUp(r) /\ req[r].pc \in {"send", "waiting", "orphan"} /\ UNCHANGED <<seen, obeyed>>
    BY <1>7 DEF OrphanTimesOut, TimeOut, history
  <2>1. /\ \A q \in Requests \ {r} : req'[q] = req[q]
        /\ req'[r].pc = "refused" /\ req'[r].op = req[r].op
    BY <1>0, <2>0 DEF GiveUp, RequestType
  <2>2. player'.pc = player.pc /\ \A q \in Requests \ {r} : player.ack = q => player'.ack = q
    BY <1>0, <2>0 DEF GiveUp, PlayerOK, PlayerType
  <2>3. CASE excused' 
    BY <2>3 DEF SkipOK
  <2>4. CASE ~excused'
    <3>1. ~excused /\ (req[r].pc = "orphan" \/ req[r].op # "skip")
      <4>1. CASE OrphanTimesOut(r)
        BY <2>4, <4>1 DEF OrphanTimesOut, history
      <4>2. CASE TimeOut(r)
        <5>1. excused' = (excused \/ req[r].op = "skip")
          BY <4>2 DEF TimeOut
        <5>. QED  BY <2>4, <5>1, Zenon
      <4>. QED  BY <1>7, <4>1, <4>2
    <3>2. \A n \in DOMAIN channel : channel[n].from = r => ~channel[n].retried
      BY <3>1, RoomAssumption DEF AnswersOK, RoomAssumption, Nobody
    <3>3. channel \in [DOMAIN channel -> CommandType]
      BY <1>0 DEF ChannelOK
    <3>4. ASSUME NEW n \in DOMAIN channel', channel'[n].retried
          PROVE  \E m \in DOMAIN channel : channel[m] = channel'[n]
      <4>1. n \in DOMAIN channel
        BY <2>0 DEF GiveUp
      <4>2. CASE channel[n].from = r
        <5>1. channel'[n] = [channel[n] EXCEPT !.from = Nobody]
          BY <2>0, <4>1, <4>2 DEF GiveUp
        <5>2. channel'[n].retried = channel[n].retried
          BY <3>3, <4>1, <5>1 DEF CommandType
        <5>. QED  BY <3>2, <3>4, <4>1, <4>2, <5>2
      <4>3. CASE channel[n].from # r
        BY <2>0, <4>1, <4>3 DEF GiveUp
      <4>. QED  BY <4>2, <4>3
    <3>5. ~Obeyed(r)
      BY <2>0, <3>1 DEF Obeyed
    <3>6. "skip" \in seen => req'[r].op # "skip"
      BY <2>0, <2>1, <3>1 DEF SkipOK
    <3>. QED  BY <2>0, <2>1, <2>2, <2>4, <3>1, <3>4, <3>5, <3>6, SkipStays DEF Obeyed
  <2>. QED  BY <2>3, <2>4
<1>. QED  BY <1>1, <1>2, <1>3, <1>4, <1>5, <1>6, <1>7 DEF Continue

\* Requests that wait are answered or told that the player ends, and the player goes on.
LEMMA SkipAnswered ==
    ASSUME TypeInv, SkipOK, UNCHANGED <<obeyed, excused, seen>>,
           \A n \in DOMAIN channel' : channel'[n].retried => \E m \in DOMAIN channel : channel[m] = channel'[n],
           \A q \in Requests :
               \/ req'[q] = req[q]
               \/ /\ req[q].pc \notin {"idle", "lock"}
                  /\ req[q].pc = "acked" => q = player.ack
                  /\ \E pc \in {"acked", "refused", "orphan"} : req'[q] = [req[q] EXCEPT !.pc = pc],
           player.ack \in Requests /\ req'[player.ack] # req[player.ack] =>
               req[player.ack].pc # "acked" \/ req'[player.ack].pc = "acked",
           player.pc = "save" => \/ UNCHANGED player /\ UNCHANGED req
                                 \/ \A q \in Requests : player.ack = q => req'[q].pc = "acked"
    PROVE  SkipOK'
<1>1. CASE excused
  BY <1>1 DEF SkipOK
<1>2. CASE ~excused
  <2>1. ASSUME NEW q \in Requests  PROVE req'[q].op = req[q].op
    <3>1. req[q] \in RequestType
      BY DEF TypeInv, RequestsOK
    <3>. QED  BY <3>1 DEF RequestType
  <2>2. ASSUME NEW q \in Requests, Obeyed(q)
        PROVE  /\ req'[q].op = "skip"
               /\ \/ req'[q].pc = "acked"
                  \/ req'[q].pc = "waiting" /\ player'.ack = q /\ player'.pc = "save"
    <3>1. req'[q].op = "skip"
      BY <2>1, <2>2 DEF Obeyed
    <3>2. CASE req[q].pc = "acked"
      BY <3>1, <3>2
    <3>3. CASE req[q].pc = "waiting" /\ player.ack = q /\ player.pc = "save"
      BY <3>1, <3>3
    <3>. QED  BY <2>2, <3>2, <3>3 DEF Obeyed
  <2>3. "skip" \in seen => \A q \in Requests : req'[q].op = "skip" =>
              req'[q].pc \in {"idle", "lock"} \/ req'[q] = req[q]
    BY <1>2, <2>1 DEF SkipOK
  <2>. QED  BY <2>2, <2>3, SkipStays
<1>. QED  BY <1>1, <1>2

\* The player takes the first command.
LEMMA TakingKeepsSkip ==
    ASSUME TypeInv, AnswersOK, SkipOK, channel # <<>>, player.pc \in {"play", "idle"}, NEW r,
           r = Head(channel).from, UNCHANGED <<seen, excused>>,
           \/ Disconnect(r)
           \/ /\ SavesFor(r)
              /\ obeyed' \in {obeyed, IF Head(channel).retried THEN obeyed + 1 ELSE obeyed}
           \/ AcknowledgesOnly(r)
    PROVE  SkipOK'
<1>0. ChannelOK /\ PlayerOK /\ player.ack = Nobody /\ Nobody \notin Requests
  BY RoomAssumption DEF TypeInv, PlayerOK, RoomAssumption, Nobody
<1>h. /\ r \in Requests \cup {Nobody}
      /\ r \in Requests => req[r].pc = "waiting"
  BY HeadWaits
<1>1. CASE Disconnect(r)
  <2>1. channel' = <<>> /\ UNCHANGED <<obeyed, excused, seen>>
    BY <1>1 DEF Disconnect
  <2>2. \A q \in Requests :
           \/ req'[q] = req[q]
           \/ /\ req[q].pc \notin {"idle", "lock", "acked"}
              /\ \E pc \in {"acked", "refused", "orphan"} : req'[q] = [req[q] EXCEPT !.pc = pc]
    BY <1>1, <1>h DEF Disconnect
  <2>. QED  BY <1>0, <2>1, <2>2, SkipAnswered
<1>t. ASSUME channel' = Tail(channel)
      PROVE  /\ \A n \in DOMAIN channel' : \E m \in DOMAIN channel : channel[m] = channel'[n]
             /\ \A n \in DOMAIN channel' : channel'[n].from # Nobody => channel'[n].from # r
  <2>1. channel \in Seq(CommandType) /\ Len(channel) \in Nat
    BY <1>0 DEF ChannelOK
  <2>2. /\ DOMAIN channel = 1 .. Len(channel) /\ DOMAIN channel' = 1 .. Len(channel) - 1
        /\ \A n \in DOMAIN channel' : channel'[n] = channel[n + 1]
    BY <1>t, <2>1
  <2>3. \A n \in DOMAIN channel' : \E m \in DOMAIN channel : channel[m] = channel'[n]
    BY <2>1, <2>2
  <2>. QED  BY <1>0, <1>t, <2>3, TailCarries
<1>2. CASE SavesFor(r) /\ obeyed' = obeyed
  <2>1. channel' = Tail(channel) /\ req' = req
    BY <1>2 DEF SavesFor
  <2>. QED  BY <1>0, <1>2, <1>t, <2>1, SkipAnswered
<1>3. CASE SavesFor(r) /\ obeyed' # obeyed
  <2>1. /\ channel' = Tail(channel) /\ req' = req /\ Head(channel).retried /\ obeyed' = obeyed + 1
        /\ player'.ack = r /\ player'.pc = "save"
    <3>1. obeyed' = IF Head(channel).retried THEN obeyed + 1 ELSE obeyed
      BY <1>3 DEF Disconnect, AcknowledgesOnly
    <3>2. Head(channel).retried
      BY <1>3, <3>1
    <3>. QED  BY <1>3, <3>1, <3>2 DEF SavesFor
  <2>2. CASE excused
    BY <2>2 DEF SkipOK
  <2>3. CASE ~excused
    <3>1. channel \in Seq(CommandType) /\ 1 \in DOMAIN channel /\ Head(channel) = channel[1]
      BY <1>0 DEF ChannelOK
    <3>2. obeyed = 0 /\ r \in Requests /\ req[r].pc = "waiting" /\ req[r].op = "skip"
      BY <1>h, <2>1, <2>3, <3>1 DEF SkipOK, AnswersOK
    <3>3. ASSUME NEW n \in DOMAIN channel', channel'[n].retried  PROVE FALSE
      <4>1. PICK m \in DOMAIN channel : channel[m] = channel'[n]
        BY <1>t, <2>1
      <4>2. channel[m].from # Nobody /\ channel[m].from # r
        BY <1>t, <2>1, <2>3, <3>3, <4>1 DEF SkipOK
      <4>3. channel[m] \in CommandType
        BY <3>1
      <4>4. channel[m].from \in Requests
        BY <4>2, <4>3 DEF CommandType
      <4>5. req[channel[m].from].pc = "waiting" /\ req[channel[m].from].op = "skip"
        BY <3>3, <4>1, <4>2 DEF AnswersOK
      <4>6. RequestsOK
        BY DEF TypeInv
      <4>. QED  BY <3>2, <4>2, <4>4, <4>5, <4>6, OneHolder
    <3>4. "skip" \notin seen
      BY <2>3, <3>2 DEF SkipOK
    <3>. QED  BY <2>1, <3>2, <3>3, <3>4 DEF SkipOK
  <2>. QED  BY <2>2, <2>3
<1>4. CASE AcknowledgesOnly(r)
  <2>1. channel' = Tail(channel) /\ UNCHANGED <<obeyed, excused, seen>>
    BY <1>4 DEF AcknowledgesOnly
  <2>2. \A q \in Requests :
           \/ req'[q] = req[q]
           \/ /\ req[q].pc \notin {"idle", "lock", "acked"}
              /\ \E pc \in {"acked", "refused", "orphan"} : req'[q] = [req[q] EXCEPT !.pc = pc]
    BY <1>4, <1>h DEF AcknowledgesOnly, Acknowledge
  <2>. QED  BY <1>0, <1>t, <2>1, <2>2, SkipAnswered
<1>. QED  BY <1>1, <1>2, <1>3, <1>4

LEMMA PlayerKeepsSkip ==
    ASSUME TypeInv, AnswersOK, SkipOK, PlayerStep \/ TrackEnds \/ IdleTimeout
    PROVE  SkipOK'
<1>0. DataOK /\ PlayerOK /\ ChannelOK /\ RequestsOK /\ Nobody \notin Requests
  BY RoomAssumption DEF TypeInv, RoomAssumption, Nobody
<1>1. CASE Select \/ Exit \/ TrackEnds
  <2>1. UNCHANGED <<channel, req, seen, obeyed, excused>> /\ player.pc # "save"
    BY <1>1 DEF Select, Exit, TrackEnds, history
  <2>. QED  BY <2>1, SkipAnswered
<1>2. CASE Take
  <2>1. PICK late \in BOOLEAN : Obey(Head(channel), late)
    BY <1>2 DEF Take
  <2>2. channel # <<>> /\ player.pc = "play" /\ Head(channel) \in CommandType /\ UNCHANGED <<seen, excused>>
    BY <1>0, <1>2 DEF Take, ChannelOK
  <2>. QED  BY <1>0, <2>1, <2>2, ObeyCases, TakingKeepsSkip
<1>3. CASE TakeIdle
  <2>1. channel # <<>> /\ player.pc = "idle" /\ UNCHANGED <<seen, excused>>
    BY <1>3 DEF TakeIdle
  <2>. QED  BY <1>0, <1>3, <2>1, TakeIdleCases, TakingKeepsSkip
<1>4. CASE Connect
  <2>1. UNCHANGED <<channel, seen, obeyed, excused>> /\ player.pc = "connecting"
    BY <1>4 DEF Connect, history
  <2>2. player.ack \in Requests => req[player.ack].pc = "starting"
    BY <1>0, <2>1 DEF AnswersOK
  <2>3. \A q \in Requests :
           \/ req'[q] = req[q]
           \/ q = player.ack /\ req'[q] = [req[q] EXCEPT !.pc = "acked"]
    BY <1>4 DEF Connect, Acknowledge
  <2>. QED  BY <2>1, <2>2, <2>3, SkipAnswered
<1>5. CASE IdleTimeout
  <2>1. channel' = <<>> /\ UNCHANGED <<seen, obeyed, excused>> /\ player.pc = "idle"
    BY <1>5 DEF IdleTimeout, Disconnect
  <2>2. player.ack = Nobody
    BY <1>0, <2>1 DEF PlayerOK
  <2>3. \A q \in Requests :
           \/ req'[q] = req[q]
           \/ req[q].pc \in {"send", "waiting"} /\ req'[q] = [req[q] EXCEPT !.pc = "refused"]
    BY <1>0, <1>5 DEF IdleTimeout, Disconnect
  <2>. QED  BY <1>0, <2>1, <2>2, <2>3, SkipAnswered
<1>. QED  BY <1>1, <1>2, <1>3, <1>4, <1>5 DEF PlayerStep

LEMMA SkipInductive ==
    ASSUME TypeInv, AnswersOK, SkipOK, [Next]_vars
    PROVE  SkipOK'
<1>0. DataOK /\ PlayerOK /\ ChannelOK /\ RequestsOK /\ SavingOK /\ Nobody \notin Requests
  BY RoomAssumption DEF TypeInv, RoomAssumption, Nobody
<1>s. ASSUME UNCHANGED <<player, channel, req, seen, obeyed, excused>>  PROVE SkipOK'
  BY <1>s, SkipAnswered
<1>1. ASSUME NEW r \in Requests, NEW op, NEW arg, Arrive(r, op, arg)  PROVE SkipOK'
  <2> DEFINE x == [Idle EXCEPT !.pc = "lock", !.op = op, !.arg = arg]
  <2>1. /\ req' = [req EXCEPT ![r] = x] /\ UNCHANGED <<player, channel, seen, obeyed, excused>>
        /\ req[r].pc = "idle"
    BY <1>1 DEF Arrive, history
  <2>2. x.pc = "lock"
    BY DEF Idle
  <2> HIDE DEF x
  <2>3. req'[r].pc = "lock" /\ \A q \in Requests \ {r} : req'[q] = req[q]
    BY <1>0, <2>1, <2>2 DEF RequestsOK
  <2>4. ~Obeyed(r)
    BY <2>1 DEF Obeyed
  <2>5. \A n \in DOMAIN channel' : channel'[n].retried => \E m \in DOMAIN channel : channel[m] = channel'[n]
    BY <2>1
  <2>6. UNCHANGED player /\ obeyed' = obeyed /\ excused' = excused /\ seen' = seen
    BY <2>1
  <2>7. "skip" \in seen /\ req'[r].op = "skip" =>
              \/ req'[r].pc \in {"idle", "lock"}
              \/ req[r].op = "skip" /\ req[r].pc \notin {"idle", "lock"}
    BY <2>3
  <2>. QED  BY <2>3, <2>4, <2>5, <2>6, <2>7, SkipMoves
<1>2. ASSUME NEW r \in Requests, Begin(r) \/ Continue(r) \/ TimeOut(r)  PROVE SkipOK'
  BY <1>2, RequestsKeepSkip
<1>3. CASE PlayerStep \/ TrackEnds \/ IdleTimeout
  BY <1>3, PlayerKeepsSkip
<1>4. ASSUME NEW by \in {"player", "ended"}, PersistRead(by) \/ PersistWrite(by)  PROVE SkipOK'
  <2>1. CASE PersistRead(by) \/ (PersistWrite(by) /\ by # "player")
    BY <1>s, <2>1 DEF PersistRead, PersistWrite, history
  <2>2. CASE PersistWrite(by) /\ by = "player"
    <3>1. channel' = channel /\ UNCHANGED <<seen, obeyed, excused>>
      BY <2>2 DEF PersistWrite, history
    <3>2. player.ack \in Requests => req[player.ack].pc \in {"starting", "waiting"}
      BY <1>0 DEF AnswersOK
    <3>3. \A q \in Requests : IF q = player.ack THEN req'[q] = [req[q] EXCEPT !.pc = "acked"]
                              ELSE req'[q] = req[q]
      BY <2>2 DEF PersistWrite
    <3>4. \A q \in Requests : player.ack = q => req'[q].pc = "acked"
      <4>1. \A q \in Requests : req[q] \in RequestType
        BY <1>0 DEF RequestsOK
      <4>. QED  BY <3>3, <4>1 DEF RequestType
    <3>. QED  BY <3>1, <3>2, <3>3, <3>4, SkipAnswered
  <2>. QED  BY <1>4, <2>1, <2>2
<1>5. CASE Heartbeat
  BY <1>s, <1>5 DEF Heartbeat, history
<1>6. ASSUME NEW w, StartPrepared \/ StartSwitched(w) \/ PlayerIsGone(w) \/ CleanupTimesOut(w)  PROVE SkipOK'
  <2>0. UNCHANGED <<req, seen, obeyed, excused>>
    BY <1>6 DEF StartPrepared, StartSwitched, PlayerIsGone, CleanupTimesOut, history
  <2>1. CASE Offers /\ UNCHANGED player
    BY <1>0, <2>0, <2>1, OffersNoRetry, SkipAnswered
  <2>2. CASE ~Registered /\ UNCHANGED channel
    BY <2>0, <2>2, SkipAnswered DEF Registered
  <2>3. CASE StartSwitched(w)
    BY <1>0, <2>1, <2>2, <2>3, SwitchedOffers DEF StartSwitched
  <2>4. CASE StartPrepared
    BY <1>s, <2>0, <2>1, <2>2, <2>4, WakeOffers DEF StartPrepared
  <2>. QED  BY <1>6, <1>s, <2>0, <2>3, <2>4 DEF PlayerIsGone, CleanupTimesOut
<1>7. CASE ConnectFails
  <2>1. channel' = <<>> /\ UNCHANGED <<seen, obeyed, excused>> /\ player.pc = "connecting"
    BY <1>7 DEF ConnectFails, history
  <2>2. player.ack \in Requests => req[player.ack].pc = "starting"
    BY <1>0, <2>1 DEF AnswersOK
  <2>3. \A q \in Requests :
           \/ req'[q] = req[q]
           \/ q = player.ack /\ req'[q] = [req[q] EXCEPT !.pc = "refused"]
           \/ req[q].pc \in {"send", "waiting"} /\ req'[q] = [req[q] EXCEPT !.pc = "orphan"]
    BY <1>7 DEF ConnectFails
  <2>. QED  BY <2>1, <2>2, <2>3, SkipAnswered
<1>8. ASSUME NEW i, NEW outcome, Process(i, outcome)  PROVE SkipOK'
  BY <1>s, <1>8 DEF Process, history
<1>9. CASE Restart
  <2>1. excused' = TRUE
    BY <1>9 DEF Restart
  <2>. QED  BY <2>1 DEF SkipOK
<1>10. CASE UNCHANGED vars
  BY <1>s, <1>10 DEF vars
<1>. QED  BY <1>1, <1>2, <1>3, <1>4, <1>5, <1>6, <1>7, <1>8, <1>9, <1>10 DEF Next

-----------------------------------------------------------------------------
(* The request queue has no track twice *)

\* What is in the request queue was there before, with the same track.
QueueShrinks ==
    \A i \in DOMAIN rows' : rows'[i].scope = Temporary =>
        i \in DOMAIN rows /\ rows[i].scope = Temporary /\ rows'[i].track = rows[i].track

\* Who is about to insert a track was so before.
InsertsStay ==
    \A q \in Requests : req'[q].pc = "insert" => req[q].pc = "insert" /\ req'[q].arg = req[q].arg

LEMMA ShrinkKeepsQueue ==
    ASSUME DataOK, RequestsAreDistinct, QueueShrinks
    PROVE  /\ RequestsAreDistinct'
           /\ Cardinality(InScope(Temporary))' <= Cardinality(InScope(Temporary))
           /\ Cardinality(InScope(Temporary))' \in Nat /\ Cardinality(InScope(Temporary)) \in Nat
<1> DEFINE S == InScope(Temporary)
           T == {i \in DOMAIN rows' : rows'[i].scope = Temporary}
<1>1. T \subseteq S /\ S \subseteq DOMAIN rows
  BY DEF QueueShrinks, InScope
<1>2. InScope(Temporary)' = T
  BY DEF InScope
<1>3. \A i \in T : i \in S /\ rows'[i].track = rows[i].track
  BY DEF QueueShrinks, InScope
<1>4. \A i, j \in T : rows'[i].track = rows'[j].track => i = j
  BY <1>3 DEF RequestsAreDistinct
<1>5. Limit \in Nat /\ Cardinality(S) <= Limit
  BY RoomAssumption DEF RoomAssumption, RequestsAreDistinct
<1> HIDE DEF S, T
<1>6. IsFiniteSet(S) /\ Cardinality(S) \in Nat
  BY <1>1, RowsFinite
<1>7. Cardinality(T) <= Cardinality(S) /\ Cardinality(T) \in Nat
  BY <1>1, <1>6, FS_Subset, FS_CardinalityType
<1>8. Cardinality(T) <= Limit
  BY <1>5, <1>6, <1>7
<1>. QED  BY <1>2, <1>4, <1>6, <1>7, <1>8 DEF RequestsAreDistinct, S

LEMMA ShrinkKeepsRoom ==
    ASSUME DataOK, RequestsAreDistinct, RoomOK, QueueShrinks, InsertsStay
    PROVE  RequestsAreDistinct' /\ RoomOK'
<1>1. /\ RequestsAreDistinct'
      /\ Cardinality(InScope(Temporary))' <= Cardinality(InScope(Temporary))
      /\ Cardinality(InScope(Temporary))' \in Nat /\ Cardinality(InScope(Temporary)) \in Nat
      /\ Limit \in Nat
  BY ShrinkKeepsQueue, RoomAssumption DEF RoomAssumption
<1>2. ASSUME NEW r \in Requests, req'[r].pc = "insert"
      PROVE  /\ Cardinality(InScope(Temporary))' < Limit
             /\ \A i \in InScope(Temporary)' : rows'[i].track # req'[r].arg
  <2>1. req[r].pc = "insert" /\ req'[r].arg = req[r].arg
    BY <1>2 DEF InsertsStay
  <2>2. Cardinality(InScope(Temporary)) < Limit
    BY <2>1 DEF RoomOK
  <2>3. Cardinality(InScope(Temporary))' < Limit
    BY <1>1, <2>2
  <2>4. \A i \in InScope(Temporary)' : rows'[i].track # req'[r].arg
    BY <2>1 DEF RoomOK, QueueShrinks, InScope
  <2>. QED  BY <2>3, <2>4
<1>. QED  BY <1>1, <1>2 DEF RoomOK

\* The row joins under the control lock, after the check.
LEMMA InsertKeepsRoom ==
    ASSUME TypeInv, RequestsAreDistinct, RoomOK, NEW r \in Requests, Insert(r)
    PROVE  RequestsAreDistinct' /\ RoomOK'
<1>0. DataOK /\ RequestsOK /\ RequestOK(r) /\ Limit \in Nat /\ req[r] \in RequestType
  BY RoomAssumption DEF TypeInv, RequestsOK, RoomAssumption
<1> DEFINE S == InScope(Temporary)
           new == lastId + 1
<1>1. /\ new \notin DOMAIN rows
      /\ DOMAIN rows' = DOMAIN rows \cup {new}
      /\ \A i \in DOMAIN rows : rows'[i] = rows[i]
      /\ rows'[new].scope = Temporary /\ rows'[new].track = req[r].arg
  <2> DEFINE after == CursorAfter(Temporary)
             sort == IF req[r].sort <= after THEN after + 10 ELSE req[r].sort
             row == [scope |-> Temporary, sort |-> sort, track |-> req[r].arg, status |-> "pending"]
  <2>1. rows' = [i \in DOMAIN rows \cup {new} |-> IF i \in DOMAIN rows THEN rows[i] ELSE row]
    BY <1>0 DEF Insert
  <2>2. new \notin DOMAIN rows
    BY <1>0 DEF DataOK
  <2>3. row.scope = Temporary /\ row.track = req[r].arg
    OBVIOUS
  <2> HIDE DEF row, new
  <2>. QED  BY <2>1, <2>2, <2>3
<1>2. req[r].pc = "insert" /\ req[r].op = "enqueue"
  BY <1>0 DEF Insert, RequestOK
<1>3. Cardinality(S) < Limit /\ \A i \in S : rows[i].track # req[r].arg
  BY <1>2 DEF RoomOK
<1>4. S \subseteq DOMAIN rows
  BY DEF InScope
<1> HIDE DEF new
<1>5. InScope(Temporary)' = S \cup {new} /\ new \notin S
  BY <1>1 DEF InScope
<1>6. \A i, j \in S \cup {new} : rows'[i].track = rows'[j].track => i = j
  BY <1>1, <1>3, <1>4 DEF RequestsAreDistinct
<1> HIDE DEF S
<1>7. IsFiniteSet(S) /\ Cardinality(S) \in Nat
  BY <1>0, <1>4, RowsFinite
<1>8. Cardinality(S \cup {new}) = Cardinality(S) + 1
  BY <1>5, <1>7, FS_AddElement
<1>9. Cardinality(S \cup {new}) <= Limit
  BY <1>0, <1>3, <1>7, <1>8
<1>10. RequestsAreDistinct'
  BY <1>5, <1>6, <1>9 DEF RequestsAreDistinct
<1>11. \A q \in Requests : req'[q].pc # "insert"
  <2>1. ASSUME NEW q \in Requests, q # r, req[q].pc = "insert"  PROVE FALSE
    BY <1>0, <1>2, <2>1, OneHolder DEF RequestsOK, RequestOK
  <2>2. req' = [req EXCEPT ![r].pc = "bump"] /\ req \in [Requests -> RequestType]
    BY <1>0 DEF Insert, RequestsOK
  <2>3. req'[r].pc = "bump"
    BY <1>0, <2>2 DEF RequestType
  <2>. QED  BY <2>1, <2>2, <2>3
<1>. QED  BY <1>10, <1>11 DEF RoomOK

\* Rows that are taken out, or get another place, leave the queue smaller or the same.
LEMMA StepsShrinkQueue ==
    ASSUME DataOK,
           \/ rows' = rows
           \/ Subrows
           \/ /\ DOMAIN rows' = DOMAIN rows
              /\ \A i \in DOMAIN rows : rows'[i].scope = rows[i].scope /\ rows'[i].track = rows[i].track
    PROVE  QueueShrinks
  BY DEF QueueShrinks, Subrows

LEMMA RequestsKeepRoom ==
    ASSUME TypeInv, RequestsAreDistinct, RoomOK, NEW r \in Requests, Begin(r) \/ Continue(r) \/ TimeOut(r)
    PROVE  RequestsAreDistinct' /\ RoomOK'
<1>0. /\ DataOK /\ RequestsOK /\ RequestOK(r) /\ req[r] \in RequestType
      /\ req \in [Requests -> RequestType]
  BY DEF TypeInv, RequestsOK
<1>i. Idle.pc = "idle"
  BY IdleType
<1>m. ASSUME \A q \in Requests \ {r} : req'[q] = req[q], req'[r].pc # "insert"  PROVE InsertsStay
  BY <1>m DEF InsertsStay
<1>f. ASSUME Finish(r)  PROVE InsertsStay
  BY <1>0, <1>f, <1>i, <1>m DEF Finish
<1>p. ASSUME NEW x, x # "insert", req' = [req EXCEPT ![r].pc = x]  PROVE InsertsStay
  <2>1. req'[r].pc = x
    BY <1>0, <1>p DEF RequestType
  <2>. QED  BY <1>0, <1>m, <1>p, <2>1
<1>x. ASSUME NEW x, NEW y, NEW z, x # "insert",
             \/ req' = [req EXCEPT ![r].pc = x, ![r].sort = y]
             \/ req' = [req EXCEPT ![r].pc = x, ![r].starter = y]
             \/ req' = [req EXCEPT ![r].pc = x, ![r].sort = y, ![r].undo = z]
      PROVE  InsertsStay
  <2>1. req'[r].pc = x
    BY <1>0, <1>x DEF RequestType
  <2>. QED  BY <1>0, <1>m, <1>x, <2>1
<1>1. CASE Replay(r) \/ BeginTransport(r) \/ BeginGuarded(r) \/ BeginStopping(r) \/ BeginRemove(r)
  <2>1. QueueShrinks
    BY <1>0, <1>1, StepsShrinkQueue
       DEF Replay, BeginTransport, BeginGuarded, BeginStopping, BeginRemove, queue
  <2>2. InsertsStay
    <3>1. CASE Replay(r)
      BY <1>f, <3>1 DEF Replay
    <3>2. CASE BeginTransport(r)
      <4> DEFINE x == IF Registered THEN "send" ELSE IF req[r].op = "pause" THEN "acked" ELSE "start"
      <4>1. req' = [req EXCEPT ![r].pc = x] /\ x # "insert"
        BY <3>2 DEF BeginTransport, ThroughPlayer
      <4> HIDE DEF x
      <4>. QED  BY <1>p, <4>1
    <3>3. CASE BeginGuarded(r)
      <4>1. \/ Finish(r)
            \/ \E x \in {"send", "acked"} : req' = [req EXCEPT ![r].pc = x]
        BY <3>3 DEF BeginGuarded, ThroughPlayer
      <4>. QED  BY <1>f, <1>p, <4>1
    <3>4. CASE BeginStopping(r)
      <4> DEFINE x == IF Registered THEN "send" ELSE "acked"
                 y == IF req[r].op = "stop" THEN IF Registered THEN Snapshot(TRUE).current ELSE None
                      ELSE IF req[r].op = "switch" /\ req[r].arg # None
                      THEN rows[req[r].arg].sort ELSE 0
      <4>1. Finish(r) \/ req' = [req EXCEPT ![r].pc = x, ![r].sort = y]
        BY <3>4 DEF BeginStopping
      <4>2. x # "insert"
        OBVIOUS
      <4> HIDE DEF x, y
      <4>. QED  BY <1>f, <1>x, <4>1, <4>2
    <3>5. CASE BeginRemove(r)
      <4> DEFINE y == IF Registered THEN Snapshot(TRUE).current ELSE None
      <4>1. req' = [req EXCEPT ![r].pc = "delete", ![r].sort = y]
        BY <3>5 DEF BeginRemove
      <4> HIDE DEF y
      <4>. QED  BY <1>x, <4>1
    <3>. QED  BY <1>1, <3>1, <3>2, <3>3, <3>4, <3>5
  <2>. QED  BY <1>0, <2>1, <2>2, ShrinkKeepsRoom
<1>2. CASE BeginEnqueue(r)
  <2>0. rows' = rows
    BY <1>2 DEF BeginEnqueue, queue
  <2>1. CASE Finish(r)
    BY <1>0, <1>f, <2>0, <2>1, StepsShrinkQueue, ShrinkKeepsRoom
  <2>2. CASE ~ Finish(r)
    <3>1. /\ \A i \in InScope(Temporary) : rows[i].track # req[r].arg
          /\ ~ (Cardinality(InScope(Temporary)) >= Limit)
          /\ req' = [req EXCEPT ![r].pc = "insert", ![r].sort = NextSortOrder]
      BY <1>2, <2>2 DEF BeginEnqueue
    <3>2. req'[r].arg = req[r].arg /\ \A q \in Requests \ {r} : req'[q] = req[q]
      BY <1>0, <3>1 DEF RequestType
    <3>3. Cardinality(InScope(Temporary)) < Limit
      <4>1. Cardinality(InScope(Temporary)) \in Nat /\ Limit \in Nat
        BY <1>0, RowsFinite, RoomAssumption DEF RoomAssumption, InScope
      <4>. QED  BY <3>1, <4>1
    <3>4. RequestsAreDistinct'
      BY <2>0 DEF RequestsAreDistinct, InScope
    <3>5. ASSUME NEW q \in Requests, req'[q].pc = "insert"
          PROVE  /\ Cardinality(InScope(Temporary))' < Limit
                 /\ \A i \in InScope(Temporary)' : rows'[i].track # req'[q].arg
      <4>1. Cardinality(InScope(Temporary))' < Limit
        BY <2>0, <3>3 DEF InScope
      <4>2. \A i \in InScope(Temporary) : rows[i].track # req'[q].arg
        BY <3>1, <3>2, <3>5 DEF RoomOK
      <4>. QED  BY <2>0, <4>1, <4>2 DEF InScope
    <3>. QED  BY <3>4, <3>5 DEF RoomOK
  <2>. QED  BY <2>1, <2>2
<1>3. CASE BeginPlayNow(r)
  <2> DEFINE item == req[r].arg
             now == IF Registered THEN Snapshot(TRUE).current
                    ELSE IF db.play = "stopped" THEN None ELSE db.current
             interrupts == db.source = Temporary /\ now \notin {None, item}
             moves == interrupts /\ now \in InScope(Temporary) /\ MustMove(item, now)
             x == IF Registered THEN "send" ELSE "start"
             y == rows'[item].sort
             z == IF moves THEN TemporaryOrder ELSE NoUndo
  <2>1. rows' = rows \/ (/\ MoveTemporaryItemAfter(item, now) /\ UNCHANGED <<lastId, db, cursor>>
                         /\ item \in InScope(Temporary) /\ now \in InScope(Temporary))
    BY <1>3 DEF BeginPlayNow, Playable, IsRow, InScope
  <2>2. Finish(r) \/ req' = [req EXCEPT ![r].pc = x, ![r].sort = y, ![r].undo = z]
    BY <1>3 DEF BeginPlayNow
  <2>3. x # "insert"
    OBVIOUS
  <2> HIDE DEF item, now, x, y, z
  <2>4. QueueShrinks
    BY <1>0, <2>1, MoveKeepsData, StepsShrinkQueue
  <2>5. InsertsStay
    BY <1>f, <1>x, <2>2, <2>3
  <2>. QED  BY <1>0, <2>4, <2>5, ShrinkKeepsRoom
<1>4. CASE \/ Start(r) \/ Send(r) \/ OrphanTimesOut(r) \/ TimeOut(r) \/ Succeed(r) \/ Bump(r)
           \/ StopRoom(r) \/ SetPlaybackMode(r)
  <2>1. rows' = rows
    BY <1>4 DEF Start, Send, OrphanTimesOut, TimeOut, Succeed, Bump, StopRoom, SetPlaybackMode, queue
  <2>2. InsertsStay
    <3>1. CASE Succeed(r) \/ Bump(r) \/ StopRoom(r) \/ SetPlaybackMode(r)
      BY <1>f, <3>1 DEF Succeed, Bump, StopRoom, SetPlaybackMode
    <3>2. CASE Send(r) \/ OrphanTimesOut(r) \/ TimeOut(r)
      <4>1. \E x \in {"refused", "waiting"} : req' = [req EXCEPT ![r].pc = x]
        BY <3>2 DEF Send, OrphanTimesOut, TimeOut, GiveUp
      <4>. QED  BY <1>p, <4>1
    <3>3. CASE Start(r)
      <4>1. \/ \E x \in {"acked", "starting"} : req' = [req EXCEPT ![r].pc = x]
            \/ req' = [req EXCEPT ![r].pc = "send", ![r].starter = TRUE]
        BY <3>3 DEF Start
      <4>. QED  BY <1>p, <1>x, <4>1
    <3>. QED  BY <1>4, <3>1, <3>2, <3>3
  <2>. QED  BY <1>0, <2>1, <2>2, StepsShrinkQueue, ShrinkKeepsRoom
<1>5. CASE Insert(r)
  BY <1>5, InsertKeepsRoom
<1>6. CASE Fail(r)
  <2>1. QueueShrinks
    <3>1. CASE rows' = rows
      BY <1>0, <3>1, StepsShrinkQueue
    <3>2. CASE rows' # rows
      <4>1. DOMAIN req[r].undo = InScope(Temporary) /\ rows' = Rewritten(req[r].undo)
        BY <1>6, <3>2 DEF Fail, RestoreTemporaryQueueOrder
      <4>2. \A i \in InScope(Temporary) : req[r].undo[i] \in Int
        <5>1. req[r].undo \in Orders
          BY <1>0 DEF RequestType
        <5>. QED  BY <4>1, <5>1, OrderPlaces
      <4>. QED  BY <1>0, <4>1, <4>2, RewrittenType, StepsShrinkQueue
    <3>. QED  BY <3>1, <3>2
  <2>2. InsertsStay
    BY <1>6, <1>f DEF Fail
  <2>. QED  BY <1>0, <2>1, <2>2, ShrinkKeepsRoom
<1>7. CASE Remove(r)
  <2> DEFINE x == IF req[r].sort = req[r].arg THEN "send" ELSE "acked"
             zero == 0
  <2>1. /\ rows' = Without({req[r].arg})
        /\ req' = [req EXCEPT ![r].pc = x, ![r].sort = zero]
    BY <1>7 DEF Remove
  <2>2. x # "insert"
    OBVIOUS
  <2> HIDE DEF x, zero
  <2>. QED  BY <1>0, <1>x, <2>1, <2>2, WithoutLeavesSubrows, StepsShrinkQueue, ShrinkKeepsRoom
<1>8. CASE DeleteTemporaryQueue(r) \/ ClearTemporaryQueue(r) \/ Settle(r) \/ Expire(r)
  <2>1. InsertsStay
    <3>1. CASE DeleteTemporaryQueue(r)
      BY <1>p, <3>1 DEF DeleteTemporaryQueue
    <3>2. CASE ClearTemporaryQueue(r) \/ Settle(r) \/ Expire(r)
      BY <1>f, <3>2 DEF ClearTemporaryQueue, Settle, Expire
    <3>. QED  BY <1>8, <3>1, <3>2
  <2>2. QueueShrinks
    <3>1. CASE DeleteTemporaryQueue(r)
      BY <1>0, <3>1, WithoutLeavesSubrows, StepsShrinkQueue DEF DeleteTemporaryQueue
    <3>4. CASE ClearTemporaryQueue(r)
      BY <1>0, <3>4, StepsShrinkQueue DEF ClearTemporaryQueue, queue
    <3>2. CASE Settle(r)
      <4> DEFINE S == {i \in DOMAIN rows : rows[i].scope \notin {Temporary, db.source}}
      <4>1. rows' = Without(S)
        BY <3>2 DEF Settle
      <4> HIDE DEF S
      <4>. QED  BY <1>0, <4>1, WithoutLeavesSubrows, StepsShrinkQueue
    <3>3. CASE Expire(r)
      <4>1. rows' = rows \/ rows' = <<>>
        BY <3>3 DEF Expire
      <4>. QED  BY <1>0, <4>1, StepsShrinkQueue DEF QueueShrinks
    <3>. QED  BY <1>8, <3>1, <3>2, <3>3, <3>4
  <2>. QED  BY <1>0, <2>1, <2>2, ShrinkKeepsRoom
<1>9. CASE Activate(r)
  <2> DEFINE new == IF req[r].op = "activate" THEN lastId + 1 .. lastId + Saved ELSE {}
             source == IF req[r].op = "activate" THEN lastId + 1 ELSE Temporary
             row(i) == [scope |-> source, sort |-> 10 * (i - lastId), track |-> i - lastId,
                        status |-> "pending"]
  <2>1. rows' = [i \in DOMAIN rows \cup new |-> IF i \in DOMAIN rows THEN rows[i] ELSE row(i)]
    BY <1>9 DEF Activate
  <2>2. \A i \in new : row(i).scope # Temporary
    <3>1. lastId \in Nat
      BY <1>0 DEF DataOK
    <3>2. CASE req[r].op = "activate"
      BY <3>1, <3>2 DEF Temporary
    <3>3. CASE req[r].op # "activate"
      BY <3>3
    <3>. QED  BY <3>2, <3>3
  <2> HIDE DEF new, row
  <2>3. QueueShrinks
    BY <2>1, <2>2 DEF QueueShrinks
  <2>4. InsertsStay
    BY <1>9, <1>p DEF Activate
  <2>. QED  BY <1>0, <2>3, <2>4, ShrinkKeepsRoom
<1>. QED  BY <1>1, <1>2, <1>3, <1>4, <1>5, <1>6, <1>7, <1>8, <1>9 DEF Begin, Continue

\* A command takes rows out of the queue, or none.
LEMMA ObeyShrinks ==
    ASSUME DataOK, PlayerOK, NEW c \in CommandType, NEW late \in BOOLEAN, Obey(c, late)
    PROVE  rows' = rows \/ Subrows
<1>0. /\ c.kind \in Kinds /\ c.from \in Requests \cup {Nobody}
  BY DEF CommandType
<1>1. CASE c.kind \in {"skip", "previous"}
  <2>1. NextItem(IF c.kind = "skip" THEN "next" ELSE "previous", late, c.from)
    BY <1>1 DEF Obey
  <2>. QED  BY <1>0, <2>1, NextItemType
<1>2. CASE c.kind \notin {"skip", "previous"}
  BY <1>2 DEF Obey, Disconnect
<1>. QED  BY <1>1, <1>2

LEMMA RoomInductive ==
    ASSUME TypeInv, AnswersOK, RequestsAreDistinct, RoomOK, [Next]_vars
    PROVE  RequestsAreDistinct' /\ RoomOK'
<1>0. DataOK /\ PlayerOK /\ ChannelOK /\ RequestsOK
  BY DEF TypeInv
<1>s. ASSUME UNCHANGED <<rows, req>>  PROVE RequestsAreDistinct' /\ RoomOK'
  BY <1>0, <1>s, StepsShrinkQueue, ShrinkKeepsRoom DEF InsertsStay
<1>a. ASSUME NEW r, Acknowledge(r)  PROVE InsertsStay
  <2>1. \A q \in Requests : req'[q] = req[q] \/ req'[q] = [req[q] EXCEPT !.pc = "acked"]
    BY <1>a DEF Acknowledge
  <2>2. \A q \in Requests : req[q] \in RequestType
    BY <1>0 DEF RequestsOK
  <2>3. \A q \in Requests : [req[q] EXCEPT !.pc = "acked"].pc = "acked"
    BY <2>2 DEF RequestType
  <2>. QED  BY <2>1, <2>3 DEF InsertsStay
<1>d. ASSUME NEW r, Disconnect(r)  PROVE InsertsStay
  <2>1. \A q \in Requests : \/ req'[q] = req[q] \/ req'[q] = [req[q] EXCEPT !.pc = "acked"]
                            \/ req'[q] = [req[q] EXCEPT !.pc = "refused"]
    BY <1>d DEF Disconnect
  <2>2. \A q \in Requests : req[q] \in RequestType
    BY <1>0 DEF RequestsOK
  <2>3. \A q \in Requests : /\ [req[q] EXCEPT !.pc = "acked"].pc = "acked"
                            /\ [req[q] EXCEPT !.pc = "refused"].pc = "refused"
    BY <2>2 DEF RequestType
  <2>. QED  BY <2>1, <2>3 DEF InsertsStay
<1>1. ASSUME NEW r \in Requests, NEW op, NEW arg, Arrive(r, op, arg)
      PROVE  RequestsAreDistinct' /\ RoomOK'
  <2> DEFINE x == [Idle EXCEPT !.pc = "lock", !.op = op, !.arg = arg]
  <2>1. req' = [req EXCEPT ![r] = x] /\ rows' = rows
    BY <1>1 DEF Arrive, queue
  <2>2. x.pc = "lock"
    BY DEF Idle
  <2> HIDE DEF x
  <2>3. InsertsStay
    BY <1>0, <2>1, <2>2 DEF InsertsStay, RequestsOK
  <2>. QED  BY <1>0, <2>1, <2>3, StepsShrinkQueue, ShrinkKeepsRoom
<1>2. ASSUME NEW r \in Requests, Begin(r) \/ Continue(r) \/ TimeOut(r)
      PROVE  RequestsAreDistinct' /\ RoomOK'
  BY <1>2, RequestsKeepRoom
<1>3. CASE PlayerStep \/ TrackEnds \/ IdleTimeout
  <2>1. InsertsStay
    <3>1. CASE UNCHANGED req
      BY <3>1 DEF InsertsStay
    <3>2. CASE Connect
      BY <1>a, <3>1, <3>2 DEF Connect
    <3>3. CASE IdleTimeout
      BY <1>d, <3>3 DEF IdleTimeout
    <3>4. CASE Take
      <4>1. PICK late \in BOOLEAN : Obey(Head(channel), late)
        BY <3>4 DEF Take
      <4>2. Head(channel) \in CommandType
        BY <1>0, <3>4 DEF Take, ChannelOK
      <4>. QED  BY <1>0, <1>a, <1>d, <3>1, <4>1, <4>2, ObeyCases DEF SavesFor, AcknowledgesOnly
    <3>5. CASE TakeIdle
      BY <1>0, <1>a, <1>d, <3>1, <3>5, TakeIdleCases DEF SavesFor, AcknowledgesOnly
    <3>. QED  BY <1>3, <3>1, <3>2, <3>3, <3>4, <3>5 DEF PlayerStep, Select, Exit, TrackEnds
  <2>2. rows' = rows \/ Subrows
    <3>1. CASE Select \/ TakeIdle \/ Exit \/ Connect \/ IdleTimeout
      BY <3>1 DEF Select, TakeIdle, Exit, Connect, IdleTimeout, Disconnect, queue
    <3>2. CASE TrackEnds
      <4>1. NextItem("natural", FALSE, Nobody)
        BY <3>2 DEF TrackEnds
      <4>. QED  BY <1>0, <4>1, NextItemType
    <3>3. CASE Take
      <4>1. PICK late \in BOOLEAN : Obey(Head(channel), late)
        BY <3>3 DEF Take
      <4>2. Head(channel) \in CommandType
        BY <1>0, <3>3 DEF Take, ChannelOK
      <4>. QED  BY <1>0, <4>1, <4>2, ObeyShrinks
    <3>. QED  BY <1>3, <3>1, <3>2, <3>3 DEF PlayerStep
  <2>. QED  BY <1>0, <2>1, <2>2, StepsShrinkQueue, ShrinkKeepsRoom
<1>4. ASSUME NEW by \in {"player", "ended"}, PersistRead(by) \/ PersistWrite(by)
      PROVE  RequestsAreDistinct' /\ RoomOK'
  <2>1. rows' = rows
    BY <1>4 DEF PersistRead, PersistWrite, queue
  <2>2. UNCHANGED req \/ Acknowledge(player.ack)
    BY <1>4 DEF PersistRead, PersistWrite, Acknowledge
  <2>3. InsertsStay
    BY <1>a, <2>2 DEF InsertsStay
  <2>. QED  BY <1>0, <2>1, <2>3, StepsShrinkQueue, ShrinkKeepsRoom
<1>5. CASE Heartbeat
  BY <1>s, <1>5 DEF Heartbeat, queue
<1>6. ASSUME NEW w, StartPrepared \/ StartSwitched(w) \/ PlayerIsGone(w) \/ CleanupTimesOut(w)
      PROVE  RequestsAreDistinct' /\ RoomOK'
  BY <1>s, <1>6 DEF StartPrepared, StartSwitched, PlayerIsGone, CleanupTimesOut, queue
<1>7. CASE ConnectFails
  <2>1. rows' = rows
    BY <1>7 DEF ConnectFails, queue
  <2>2. \A q \in Requests : \/ req'[q] = req[q] \/ req'[q] = [req[q] EXCEPT !.pc = "orphan"]
                            \/ req'[q] = [req[q] EXCEPT !.pc = "refused"]
    BY <1>7 DEF ConnectFails
  <2>3. \A q \in Requests : req[q] \in RequestType
    BY <1>0 DEF RequestsOK
  <2>4. \A q \in Requests : /\ [req[q] EXCEPT !.pc = "orphan"].pc = "orphan"
                            /\ [req[q] EXCEPT !.pc = "refused"].pc = "refused"
    BY <2>3 DEF RequestType
  <2>5. InsertsStay
    BY <2>2, <2>4 DEF InsertsStay
  <2>. QED  BY <1>0, <2>1, <2>5, StepsShrinkQueue, ShrinkKeepsRoom
<1>8. ASSUME NEW i \in DOMAIN rows, NEW outcome, Process(i, outcome)
      PROVE  RequestsAreDistinct' /\ RoomOK'
  <2>1. rows' = [rows EXCEPT ![i].status = outcome] /\ req' = req
    BY <1>8 DEF Process
  <2>2. rows \in [DOMAIN rows -> Row] /\ rows[i] \in Row
    BY <1>0 DEF DataOK
  <2>3. [rows[i] EXCEPT !.status = outcome].scope = rows[i].scope
        /\ [rows[i] EXCEPT !.status = outcome].track = rows[i].track
    BY <2>2 DEF Row
  <2>4. DOMAIN rows' = DOMAIN rows
        /\ \A j \in DOMAIN rows : rows'[j] = IF j = i THEN [rows[i] EXCEPT !.status = outcome] ELSE rows[j]
    BY <2>1, <2>2
  <2>5. QueueShrinks
    BY <2>3, <2>4 DEF QueueShrinks
  <2>. QED  BY <1>0, <2>1, <2>5, ShrinkKeepsRoom DEF InsertsStay
<1>9. CASE Restart
  <2>1. rows' = rows /\ \A q \in Requests : req'[q].pc = "idle"
    BY <1>9, IdleType DEF Restart, queue
  <2>. QED  BY <1>0, <2>1, StepsShrinkQueue, ShrinkKeepsRoom DEF InsertsStay
<1>10. CASE UNCHANGED vars
  BY <1>s, <1>10 DEF vars
<1>. QED  BY <1>1, <1>2, <1>3, <1>4, <1>5, <1>6, <1>7, <1>8, <1>9, <1>10 DEF Next

-----------------------------------------------------------------------------
(* The theorems *)

LEMMA IInvInductive ==
    ASSUME IInv, [Next]_vars
    PROVE  IInv'
<1>1. TypeInv' /\ AnswersOK' /\ SilentOK' /\ UpdatesAreNotLost' /\ SkipOK'
  BY TypeInductive, AnswersInductive, SilentInductive, UpdatesInductive, SkipInductive DEF IInv
<1>2. RequestsAreDistinct' /\ RoomOK'
  BY RoomInductive DEF IInv, DoneOnce
<1>3. SkipsOncePerCommand'
  BY <1>1 DEF TypeInv, RestOK, SkipOK, SkipsOncePerCommand
<1>. QED  BY <1>1, <1>2, <1>3 DEF IInv, DoneOnce

LEMMA InitIInv ==
    ASSUME Init
    PROVE  IInv
<1>1. DataOK
  <2> DEFINE row(i) == [scope |-> Temporary, sort |-> 10 * i, track |-> i,
                        status |-> IF i = 1 THEN "ready" ELSE "pending"]
  <2>1. rows = [i \in 1 .. 2 |-> row(i)] /\ lastId = 2
    BY DEF Init
  <2>2. \A i \in 1 .. 2 : row(i) \in Row
    BY DEF Row, Temporary
  <2> HIDE DEF row
  <2>3. rows \in [DOMAIN rows -> Row] /\ DOMAIN rows = 1 .. 2
    BY <2>1, <2>2
  <2>4. db \in Db
    BY DEF Init, Db, Modes, None, Temporary
  <2>5. cursor \in [scope : Nat \cup {-1}, after : Int]
    BY DEF Init, Temporary
  <2>. QED  BY <2>1, <2>3, <2>4, <2>5 DEF DataOK
<1>2. PlayerOK
  BY DEF Init, PlayerOK, PlayerType, Silent, Stopped, Registered, None
<1>3. ChannelOK
  <2>1. channel \in Seq(CommandType) /\ Len(channel) = 0
    BY DEF Init
  <2>. QED  BY <2>1, RoomAssumption DEF Init, ChannelOK, RoomAssumption
<1>4. SavingOK
  BY DEF Init, SavingOK, Unlocked, Nobody
<1>5. req \in [Requests -> RequestType] /\ \A r \in Requests : req[r] = Idle
  BY IdleType DEF Init
<1>6. RequestsOK
  BY <1>5, IdleType DEF Init, RequestsOK, RequestOK
<1>7. RestOK
  BY RoomAssumption DEF Init, RestOK, RoomAssumption
<1>8. AnswersOK /\ SilentOK /\ UpdatesAreNotLost
  BY DEF Init, AnswersOK, SilentOK, UpdatesAreNotLost, Silent
<1>9. SkipOK /\ SkipsOncePerCommand
  BY DEF Init, SkipOK, SkipsOncePerCommand
<1>10. RoomOK
  BY <1>5, IdleType DEF RoomOK
<1>11. RequestsAreDistinct
  <2>1. DOMAIN rows = 1 .. 2 /\ \A i \in 1 .. 2 : rows[i].track = i
    BY DEF Init
  <2>2. \A i, j \in InScope(Temporary) : rows[i].track = rows[j].track => i = j
    BY <2>1 DEF InScope
  <2> DEFINE S == InScope(Temporary)
  <2>3. S \subseteq 1 .. 2
    BY <2>1 DEF InScope
  <2> HIDE DEF S
  <2>4. 1 \in Int /\ 2 \in Int
    OBVIOUS
  <2>5. IsFiniteSet(1 .. 2) /\ Cardinality(1 .. 2) = IF 1 > 2 THEN 0 ELSE 2 - 1 + 1
    BY <2>4, FS_Interval, Zenon
  <2>6. IsFiniteSet(S) /\ Cardinality(S) <= Cardinality(1 .. 2)
    BY <2>3, <2>5, FS_Subset
  <2>7. Cardinality(S) \in Nat /\ Limit \in Nat /\ Limit >= 2
    BY <2>6, FS_CardinalityType, RoomAssumption DEF RoomAssumption
  <2>8. Cardinality(S) <= Limit
    BY <2>5, <2>6, <2>7
  <2>. QED  BY <2>2, <2>8 DEF RequestsAreDistinct, S
<1>. QED
  BY <1>1, <1>2, <1>3, <1>4, <1>6, <1>7, <1>8, <1>9, <1>10, <1>11 DEF IInv, TypeInv, DoneOnce

LEMMA IInvHolds == Spec => []IInv
  BY InitIInv, IInvInductive, PTL DEF Spec

\* The variables keep their types; a player that is stopped plays nothing, and only the
\* holder of the room's control lock works on its command (manager.go and player.go).
THEOREM TypeCorrect == Spec => []TypeOK
<1>1. IInv => TypeOK
  BY DEF IInv, TypeInv, DataOK, PlayerOK, PlayerType, ChannelOK, SavingOK, RequestsOK, RequestOK,
         RequestType, RestOK, SavingType, Unlocked, TypeOK, Nobody
<1>. QED  BY <1>1, IInvHolds, PTL

\* A room whose player is gone for good is shown as stopped: whatever a player or a
\* command was writing when the player ended, its end is persisted after it (run's
\* deferred disconnect, ensurePlayingItem's goroutine, resetPlaybackOnStartup).
THEOREM SilentRoomsStop == Spec => []SilentRoomsAreStopped
<1>1. IInv => SilentRoomsAreStopped
  BY DEF IInv, SilentOK, SilentRoomsAreStopped
<1>. QED  BY <1>1, IInvHolds, PTL

\* What is about to be written over the room's state was made from that state, unless the
\* room's playback expired meanwhile (persistPlayerStateAndNotify under persistMu).
THEOREM NoWriteIsLost == Spec => []UpdatesAreNotLost
<1>1. IInv => UpdatesAreNotLost
  BY DEF IInv
<1>. QED  BY <1>1, IInvHolds, PTL

\* A skip that is asked for twice under one command id skips once, unless it timed out,
\* and a track that is asked for by several requests is queued once, in a queue that stays
\* within its limit (runCommand's seenCommands, Enqueue under the control lock).
THEOREM DoneOnlyOnce == Spec => []DoneOnce
<1>1. IInv => DoneOnce
  BY DEF IInv
<1>. QED  BY <1>1, IInvHolds, PTL
=============================================================================
