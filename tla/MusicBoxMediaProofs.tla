------------------------ MODULE MusicBoxMediaProofs ------------------------
(* Theorems about MusicBoxMedia for every value of its constants.          *)
EXTENDS MusicBoxMedia, SequenceTheorems, FiniteSetTheorems, TLAPS

-----------------------------------------------------------------------------
(* The cache directory as a sequence *)

LEMMA RemoveAtIsSeq ==
    ASSUME NEW S, NEW s \in Seq(S), NEW k \in 1 .. Len(s)
    PROVE  RemoveAt(s, k) \in Seq(S)
<1>1. Len(s) \in Nat /\ s \in [1 .. Len(s) -> S]
  BY LenProperties
<1>2. SubSeq(s, 1, k - 1) \in Seq(S)
  <2>1. \A i \in 1 .. k - 1 : s[i] \in S
    BY <1>1
  <2> QED BY <1>1, <2>1, SubSeqProperties
<1>3. SubSeq(s, k + 1, Len(s)) \in Seq(S)
  <2>1. \A i \in k + 1 .. Len(s) : s[i] \in S
    BY <1>1
  <2> QED BY <1>1, <2>1, SubSeqProperties
<1> QED BY <1>2, <1>3, ConcatProperties DEF RemoveAt

LEMMA WithoutIsSeq ==
    ASSUME disk \in Seq(Tracks), NEW t \in Tracks
    PROVE  DiskWithout(t) \in Seq(Tracks)
<1>1. CASE Cached(t)
  <2>1. PICK k \in 1 .. Len(disk) : disk[k] = t
    BY <1>1 DEF Cached, Contains
  <2>2. (CHOOSE j \in 1 .. Len(disk) : disk[j] = t) \in 1 .. Len(disk)
    BY <2>1
  <2> QED BY <1>1, <2>2, RemoveAtIsSeq DEF DiskWithout
<1>2. CASE ~Cached(t)
  BY <1>2 DEF DiskWithout
<1> QED BY <1>1, <1>2

LEMMA TouchedIsSeq ==
    ASSUME disk \in Seq(Tracks), NEW t \in Tracks
    PROVE  Touched(t) \in Seq(Tracks)
  BY WithoutIsSeq, AppendProperties DEF Touched

-----------------------------------------------------------------------------
(* Types *)

LEMMA SetRowType ==
    ASSUME TypeOK, NEW i \in Items, NEW status \in Status
    PROVE  SetRow(i, status) \in [Items -> Status]
  BY DEF TypeOK, SetRow

LEMMA UpsetType ==
    ASSUME TypeOK, Upset
    PROVE  upsets' \in Nat
  BY DEF TypeOK, Upset

\* The part of TypeOK about workers, for the steps that change no other part.
WorkersOK ==
    /\ worker \in [Workers -> WorkerState]
    /\ \A w \in Workers : worker[w].pc \in Running => worker[w].item \in Items

LEMMA GotoType ==
    ASSUME WorkersOK, NEW w \in Workers, NEW pc \in Running, Goto(w, pc),
           worker[w].item \in Items
    PROVE  WorkersOK'
  BY DEF WorkersOK, Goto, WorkerState

LEMMA ExitType ==
    ASSUME WorkersOK, NEW w \in Workers, Exit(w)
    PROVE  WorkersOK'
  BY DEF WorkersOK, Exit, IdleWorker, WorkerState, Running, NoItem

LEMMA StreamType ==
    ASSUME WorkersOK, NEW w \in Workers, NEW pc \in Running, worker[w].item \in Items,
           NEW stream \in {"writing", "published", "failed"},
           worker' = [worker EXCEPT ![w].pc = pc, ![w].stream = stream]
    PROVE  WorkersOK'
<1> DEFINE moved == [worker EXCEPT ![w].pc = pc]
<1>1. moved \in [Workers -> WorkerState] /\ moved[w].pc = pc
      /\ \A v \in Workers : moved[v].item = worker[v].item /\ (v # w => moved[v].pc = worker[v].pc)
  BY DEF WorkersOK, WorkerState
<1>2. worker' = [moved EXCEPT ![w].stream = stream]
  OBVIOUS
<1> HIDE DEF moved
<1>3. worker' \in [Workers -> WorkerState]
      /\ \A v \in Workers : worker'[v].item = moved[v].item /\ worker'[v].pc = moved[v].pc
  <2> DEFINE new == [moved[w] EXCEPT !.stream = stream]
  <2>1. new \in WorkerState /\ new.pc = moved[w].pc /\ new.item = moved[w].item
    BY <1>1 DEF WorkerState
  <2>2. worker' = [moved EXCEPT ![w] = new]
    BY <1>2
  <2> HIDE DEF new
  <2> QED BY <2>1, <2>2, <1>1
<1> QED BY <1>1, <1>3 DEF WorkersOK

LEMMA FinishProcessType ==
    ASSUME WorkersOK, NEW w \in Workers, worker[w].pc \in Running, pumps \subseteq Rooms,
           FinishProcess(w)
    PROVE  WorkersOK' /\ pumps' \subseteq Rooms
  BY ExitType, ItemAssumption DEF FinishProcess, WorkersOK

PlayersOK ==
    /\ player \in [Rooms -> PlayerState]
    /\ \A r \in Rooms : player[r].pc \in {"selected", "open"} => player[r].item \in Items

LEMMA ChosenType ==
    ASSUME TypeOK, NEW i \in Items
    PROVE  Chosen(i) \in PlayerState /\ Chosen(i).pc = "chosen"
  BY DEF TypeOK, Chosen, PlayerState, Status

LEMMA NextItemType ==
    ASSUME TypeOK, NEW r \in Rooms, NEW next \in NextItem(r)
    PROVE  next \in PlayerState /\ next.pc = "chosen"
<1>1. Nothing \in PlayerState /\ Nothing.pc = "chosen"
  BY DEF Nothing, IdlePlayer, PlayerState, NoItem
<1> QED BY <1>1, ChosenType DEF NextItem, PlayableIn, QueueOf

LEMMA PlayerType ==
    ASSUME PlayersOK, NEW r \in Rooms, NEW next \in PlayerState, next.pc = "chosen",
           player' = [player EXCEPT ![r] = next]
    PROVE  PlayersOK'
  BY DEF PlayersOK

CleanerOK ==
    /\ cleaner \in CleanerState
    /\ cleaner.pc \in {"current", "repair", "remove"} => cleaner.todo # <<>>

LEMMA ScanType ==
    ASSUME TypeOK, NEW by \in Workers \cup {None}, cleaner' = Scan(by)
    PROVE  CleanerOK'
<1>1. FileBytes * Len(disk) \in Int
  BY SizeAssumption, LenProperties DEF TypeOK
<1> QED BY <1>1 DEF TypeOK, CleanerOK, Scan, CleanerState

LEMMA IdleCleanerType ==
    ASSUME cleaner' = IdleCleaner
    PROVE  CleanerOK'
  BY EmptySeq DEF CleanerOK, IdleCleaner, CleanerState

LEMMA SkippedType ==
    ASSUME CleanerOK, cleaner.todo # <<>>
    PROVE  Skipped \in CleanerState /\ Skipped.pc = "next"
<1>1. Tail(cleaner.todo) \in Seq(Tracks)
  BY HeadTailProperties DEF CleanerOK, CleanerState
<1> QED BY <1>1 DEF CleanerOK, CleanerState, Skipped

CleaningWorker ==
    cleaner.pc # "idle" /\ cleaner.by # None => worker[cleaner.by].pc = "cleaning"

\* A process that is not in its cleanup moves on: the cleaning one stays.
LEMMA CleaningElsewhere ==
    ASSUME CleaningWorker, CleanerOK, UNCHANGED cleaner, NEW w \in Workers,
           worker[w].pc # "cleaning",
           \A v \in Workers \ {w} : worker'[v] = worker[v]
    PROVE  CleaningWorker'
  BY DEF CleaningWorker, CleanerOK, CleanerState, WorkersOK

\* TypeOK is inductive, and so holds in every reachable state.
THEOREM TypeCorrect == Spec => []TypeOK
<1> USE ItemAssumption
<1>1. Init => TypeOK
  <2> SUFFICES ASSUME Init PROVE TypeOK
    OBVIOUS
  <2>1. IdleWorker \in WorkerState /\ IdleWorker.pc \notin Running
    BY DEF IdleWorker, WorkerState, Running
  <2>2. IdlePump \in PumpState /\ IdlePump.pc # "reserve"
    BY DEF IdlePump, PumpState
  <2>3. IdlePlayer \in PlayerState /\ IdlePlayer.pc = "idle"
    BY DEF IdlePlayer, PlayerState
  <2>4. IdleCleaner \in CleanerState /\ IdleCleaner.pc = "idle"
    BY EmptySeq DEF IdleCleaner, CleanerState
  <2> QED BY <2>1, <2>2, <2>3, <2>4, SizeAssumption, EmptySeq DEF Init, TypeOK, Status
<1>2. TypeOK /\ [Next]_vars => TypeOK'
  <2> SUFFICES ASSUME TypeOK, [Next]_vars PROVE TypeOK'
    OBVIOUS
  <2> row \in [Items -> Status] /\ WorkersOK /\ PlayersOK /\ CleanerOK /\ CleaningWorker
    BY DEF TypeOK, WorkersOK, PlayersOK, CleanerOK, CleaningWorker
  <2>1. CASE UNCHANGED vars
    BY <2>1 DEF TypeOK, vars
  <2>2. ASSUME NEW i \in Items, RemoveItem(i) PROVE TypeOK'
    BY <2>2, UpsetType DEF TypeOK, RemoveItem, Status
  <2>3. ASSUME NEW r \in Rooms, PumpRead(r) PROVE TypeOK'
    <3>1. pump' \in PumpState /\ (pump'.pc = "reserve" =>
             pump'.item \in Items /\ RoomOf[pump'.item] = pump'.room)
      BY <2>3 DEF TypeOK, PumpRead, PendingIn, Window, QueueOf, PumpState
    <3> QED BY <2>3, <3>1 DEF TypeOK, PumpRead
  <2>4. ASSUME NEW r \in Rooms, PressPlay(r) PROVE TypeOK'
    BY <2>4 DEF TypeOK, PressPlay
  <2>28. ASSUME NEW r \in Rooms, PumpFail(r) PROVE TypeOK'
    <3>1. pump' \in PumpState /\ (pump'.pc = "reserve" => pump' = pump)
      BY <2>28 DEF TypeOK, PumpFail, IdlePump, PumpState
    <3> QED BY <2>28, <3>1, UpsetType DEF TypeOK, PumpFail, Fault
  <2>5. ASSUME NEW w \in Workers, PumpReserve(w) PROVE TypeOK'
    <3>1. WorkersOK'
      BY <2>5 DEF TypeOK, WorkersOK, PumpReserve, IdleWorker, WorkerState, Running
    <3>2. pump' \in PumpState /\ pump'.pc = "idle"
      BY <2>5 DEF PumpReserve, IdlePump, PumpState
    <3>3. row' \in [Items -> Status]
      BY <2>5, SetRowType DEF PumpReserve, TypeOK, Status
    <3>9. CleaningWorker'
      BY <2>5, CleaningElsewhere DEF PumpReserve, WorkersOK
    <3> QED BY <2>5, <3>1, <3>2, <3>3, <3>9 DEF TypeOK, CleaningWorker, PumpReserve, WorkersOK
  <2>6. ASSUME NEW w \in Workers, LoadItem(w) PROVE TypeOK'
    <3>1. worker[w].item \in Items
      BY <2>6 DEF LoadItem, WorkersOK, Running
    <3>2. WorkersOK'
      BY <2>6, <3>1, GotoType, ExitType DEF LoadItem, Running
    <3>3. upsets' \in Nat
      BY <2>6, UpsetType DEF LoadItem, Fault, TypeOK
    <3>4. CleaningWorker'
      BY <2>6, CleaningElsewhere DEF LoadItem, Goto, Exit, WorkersOK
    <3> QED BY <2>6, <3>2, <3>3, <3>4 DEF CleaningWorker, TypeOK, LoadItem, WorkersOK
  <2>7. ASSUME NEW w \in Workers, CacheHit(w) PROVE TypeOK'
    <3>1. worker[w].item \in Items
      BY <2>7 DEF CacheHit, WorkersOK, Running
    <3>2. WorkersOK'
      BY <2>7, <3>1, GotoType DEF CacheHit, Running
    <3>3. disk' \in Seq(Tracks)
      BY <2>7, <3>1, TouchedIsSeq DEF CacheHit, TypeOK, TrackAt
    <3>9. CleaningWorker'
      BY <2>7, CleaningElsewhere DEF CacheHit, Goto, WorkersOK
    <3> QED BY <2>7, <3>2, <3>3, <3>9 DEF TypeOK, CleaningWorker, CacheHit, WorkersOK
  <2>8. ASSUME NEW w \in Workers, CacheMiss(w) PROVE TypeOK'
    <3>1. worker[w].item \in Items
      BY <2>8 DEF CacheMiss, WorkersOK, Running
    <3>2. WorkersOK'
      BY <2>8, <3>1, GotoType, StreamType DEF CacheMiss, Running
    <3>3. streams' \in [Tracks -> Workers \cup {None}]
      BY <2>8, <3>1 DEF CacheMiss, TypeOK, TrackAt
    <3>9. CleaningWorker'
      BY <2>8, CleaningElsewhere DEF CacheMiss, Goto, WorkersOK
    <3> QED BY <2>8, <3>2, <3>3, <3>9 DEF TypeOK, CleaningWorker, CacheMiss, WorkersOK
  <2>9. ASSUME NEW w \in Workers, MarkPlayable(w) PROVE TypeOK'
    <3>1. WorkersOK'
      <4> DEFINE new == [worker[w] EXCEPT !.playable = TRUE]
      <4>0. worker[w] \in WorkerState
        BY DEF WorkersOK
      <4>1. new \in WorkerState /\ new.pc = worker[w].pc /\ new.item = worker[w].item
        <5> PICK x \in WorkerState : x = worker[w]
          BY <4>0
        <5>1. [x EXCEPT !.playable = TRUE] \in WorkerState
          BY DEF WorkerState
        <5>2. [x EXCEPT !.playable = TRUE].pc = x.pc /\ [x EXCEPT !.playable = TRUE].item = x.item
          BY DEF WorkerState
        <5> QED BY <5>1, <5>2
      <4>2. worker' = [worker EXCEPT ![w] = new]
        BY <2>9 DEF MarkPlayable
      <4> HIDE DEF new
      <4> QED BY <4>1, <4>2 DEF WorkersOK
    <3>2. CleaningWorker'
      BY <2>9 DEF MarkPlayable, CleaningWorker, CleanerOK, CleanerState, WorkersOK,
                  WorkerState
    <3> QED BY <2>9, <3>1, <3>2 DEF TypeOK, MarkPlayable, WorkersOK, CleaningWorker
  <2>10. ASSUME NEW w \in Workers, TranscodeFail(w) PROVE TypeOK'
    <3>1. worker[w].item \in Items
      BY <2>10 DEF TranscodeFail, WorkersOK, Running
    <3>2. WorkersOK'
      BY <2>10, <3>1, StreamType DEF TranscodeFail, Running
    <3>9. CleaningWorker'
      BY <2>10, CleaningElsewhere DEF TranscodeFail, WorkersOK
    <3> QED BY <2>10, <3>2, <3>9 DEF TypeOK, CleaningWorker, TranscodeFail, WorkersOK
  <2>11. ASSUME NEW w \in Workers, Publish(w) PROVE TypeOK'
    <3>1. worker[w].item \in Items
      BY <2>11 DEF Publish, WorkersOK, Running
    <3>2. WorkersOK'
      BY <2>11, <3>1, StreamType DEF Publish, Running
    <3>3. disk' \in Seq(Tracks)
      BY <2>11, <3>1, TouchedIsSeq DEF Publish, TypeOK, TrackAt
    <3>9. CleaningWorker'
      BY <2>11, CleaningElsewhere DEF Publish, WorkersOK
    <3> QED BY <2>11, <3>2, <3>3, <3>9 DEF TypeOK, CleaningWorker, Publish, WorkersOK
  <2>12. ASSUME NEW w \in Workers, RecordReady(w) PROVE TypeOK'
    <3>1. worker[w].item \in Items
      BY <2>12 DEF RecordReady, WorkersOK, Running
    <3>2. WorkersOK'
      BY <2>12, <3>1, GotoType DEF RecordReady, Running
    <3>3. row' \in [Items -> Status]
      BY <2>12, <3>1 DEF RecordReady, SetRow, Status
    <3>4. upsets' \in Nat
      BY <2>12, UpsetType DEF RecordReady, Fault, TypeOK
    <3>5. CleaningWorker'
      BY <2>12, CleaningElsewhere DEF RecordReady, Goto, WorkersOK
    <3> QED BY <2>12, <3>2, <3>3, <3>4, <3>5 DEF CleaningWorker, TypeOK, RecordReady, WorkersOK
  <2>13. ASSUME NEW w \in Workers, RecordFailure(w) PROVE TypeOK'
    <3>1. worker[w].item \in Items
      BY <2>13 DEF RecordFailure, WorkersOK, Running
    <3>2. WorkersOK'
      BY <2>13, <3>1, GotoType DEF RecordFailure, Running
    <3>3. row' \in [Items -> Status]
      BY <2>13, <3>1 DEF RecordFailure, SetRow, Status
    <3>4. upsets' \in Nat
      BY <2>13, UpsetType DEF RecordFailure, Fault, TypeOK
    <3>5. CleaningWorker'
      BY <2>13, CleaningElsewhere DEF RecordFailure, Goto, WorkersOK
    <3>6. stuck' \subseteq Items
      BY <2>13, <3>1 DEF RecordFailure, Strands, TypeOK
    <3> QED BY <2>13, <3>2, <3>3, <3>4, <3>5, <3>6 DEF CleaningWorker, TypeOK, RecordFailure, WorkersOK
  <2>14. ASSUME NEW w \in Workers, RetireStream(w) PROVE TypeOK'
    <3>1. worker[w].item \in Items
      BY <2>14 DEF RetireStream, WorkersOK, Running
    <3>2. WorkersOK'
      BY <2>14, <3>1
         DEF RetireStream, WorkersOK, IdleWorker, WorkerState, Running, NoItem
    <3>3. streams' \in [Tracks -> Workers \cup {None}]
      BY <2>14 DEF RetireStream, Retired, TypeOK
    <3>4. pumps' \subseteq Rooms
      BY <2>14, <3>1 DEF RetireStream, TypeOK
    <3>9. CleaningWorker'
      BY <2>14, CleaningElsewhere DEF RetireStream, WorkersOK
    <3> QED BY <2>14, <3>2, <3>3, <3>4, <3>9 DEF TypeOK, CleaningWorker, RetireStream, WorkersOK
  <2>15. ASSUME NEW w \in Workers, ReturnToPending(w) PROVE TypeOK'
    <3>0. worker[w].item \in Items
      BY <2>15 DEF ReturnToPending, WorkersOK, Running
    <3>1. row' \in [Items -> Status]
      BY <2>15, <3>0, SetRowType DEF ReturnToPending, Status
    <3>2. WorkersOK'
      BY <2>15, ExitType DEF ReturnToPending
    <3>3. stuck' \subseteq Items
      BY <2>15, <3>0 DEF ReturnToPending, Strands, TypeOK
    <3>9. CleaningWorker'
      BY <2>15, CleaningElsewhere DEF ReturnToPending, Exit, WorkersOK
    <3> QED BY <2>15, <3>1, <3>2, <3>3, <3>9 DEF TypeOK, CleaningWorker, ReturnToPending, WorkersOK
  <2>16. ASSUME NEW w \in Workers, StartCleanup(w) PROVE TypeOK'
    <3>1. worker[w].pc \in Running /\ worker[w].item \in Items
      BY <2>16 DEF StartCleanup, WorkersOK, Running
    <3>2. WorkersOK' /\ pumps' \subseteq Rooms
      BY <2>16, <3>1, GotoType, FinishProcessType DEF StartCleanup, TypeOK, Running
    <3>3. CleanerOK'
      BY <2>16, ScanType DEF StartCleanup, CleanerOK
    <3>4. CleaningWorker'
      BY <2>16 DEF StartCleanup, CleaningWorker, Scan, Goto, WorkersOK, WorkerState
    <3> QED BY <2>16, <3>2, <3>3, <3>4
            DEF TypeOK, StartCleanup, WorkersOK, CleanerOK, CleaningWorker
  <2>17. CASE BackgroundCleanup
    <3>1. CleanerOK'
      BY <2>17, ScanType, IdleCleanerType DEF BackgroundCleanup
    <3>2. CleaningWorker'
      BY <2>17 DEF BackgroundCleanup, CleaningWorker, Scan, IdleCleaner
    <3> QED BY <2>17, <3>1, <3>2 DEF TypeOK, BackgroundCleanup, CleanerOK, CleaningWorker
  <2>18. CASE CleanerNext
    <3>1. cleaner.todo # <<>> => Skipped \in CleanerState /\ Skipped.pc = "next"
      BY SkippedType
    <3>2. CleanerOK'
      BY <2>18, <3>1, IdleCleanerType DEF CleanerNext, CleanerOK, CleanerState
    <3>3. cleaner.by # None =>
             cleaner.by \in Workers /\ worker[cleaner.by].pc \in Running
      BY <2>18 DEF CleanerNext, CleaningWorker, CleanerOK, CleanerState, Running
    <3>4. WorkersOK' /\ pumps' \subseteq Rooms
      BY <2>18, <3>3, FinishProcessType DEF CleanerNext, TypeOK, WorkersOK
    <3>5. CleaningWorker'
      <4>1. cleaner' = IdleCleaner \/ (cleaner'.by = cleaner.by /\ UNCHANGED worker)
        <5>1. Skipped.by = cleaner.by /\ [cleaner EXCEPT !.pc = "current"].by = cleaner.by
          BY DEF Skipped, CleanerOK, CleanerState
        <5> QED BY <2>18, <5>1 DEF CleanerNext
      <4> QED BY <2>18, <4>1 DEF CleanerNext, CleaningWorker, IdleCleaner
    <3> QED BY <2>18, <3>2, <3>4, <3>5
            DEF TypeOK, CleanerNext, WorkersOK, CleanerOK, CleaningWorker
  <2>19. CASE CleanerCurrent
    <3>1. CleanerOK'
      BY <2>19, SkippedType DEF CleanerCurrent, CleanerOK, CleanerState
    <3>2. CleaningWorker'
      BY <2>19 DEF CleanerCurrent, CleaningWorker, Skipped, CleanerOK, CleanerState
    <3> QED BY <2>19, <3>1, <3>2 DEF TypeOK, CleanerCurrent, CleanerOK, CleaningWorker
  <2>20. CASE CleanerRepair
    <3>1. {RoomOf[i] : i \in {j \in Items : HasFile(j, Head(cleaner.todo))}} \in SUBSET Rooms
      OBVIOUS
    <3>2. CleanerOK'
      BY <2>20, <3>1 DEF CleanerRepair, CleanerOK, CleanerState
    <3>3. row' \in [Items -> Status]
      BY <2>20 DEF CleanerRepair, TypeOK, Status
    <3>4. CleaningWorker'
      BY <2>20 DEF CleanerRepair, CleaningWorker, CleanerOK, CleanerState
    <3> QED BY <2>20, <3>2, <3>3, <3>4
            DEF TypeOK, CleanerRepair, CleanerOK, CleaningWorker
  <2>21. CASE CleanerRemove
    <3>1. cleaner.todo # <<>>
      BY <2>21 DEF CleanerRemove, CleanerOK
    <3>2. disk' \in Seq(Tracks)
      BY <2>21, <3>1, HeadTailProperties, WithoutIsSeq
         DEF CleanerRemove, TypeOK, CleanerState
    <3>3. Skipped \in CleanerState /\ Skipped.pc = "next" /\ Skipped.by = cleaner.by
      BY <3>1, SkippedType DEF Skipped, CleanerOK, CleanerState
    <3>4. FileBytes \in Int
      BY SizeAssumption
    <3>5. cleaner' \in CleanerState /\ cleaner'.pc = "next" /\ cleaner'.by = cleaner.by
      <4>1. cleaner.total - FileBytes \in Int
        BY <3>4 DEF CleanerOK, CleanerState
      <4>2. Skipped.total = cleaner.total
        BY DEF Skipped, CleanerOK, CleanerState
      <4>3. cleaner' = [Skipped EXCEPT !.total = cleaner.total - FileBytes, !.rooms = {}]
        BY <2>21, <4>2, <3>3 DEF CleanerRemove, CleanerState
      <4> QED BY <3>3, <4>1, <4>3 DEF CleanerState
    <3>6. pumps' \subseteq Rooms
      BY <2>21 DEF CleanerRemove, TypeOK, CleanerState
    <3>7. CleaningWorker'
      BY <2>21, <3>5 DEF CleanerRemove, CleaningWorker
    <3> QED BY <2>21, <3>2, <3>5, <3>6, <3>7 DEF TypeOK, CleanerRemove, CleaningWorker
  <2>22. ASSUME NEW r \in Rooms, Choose(r) PROVE TypeOK'
    <3>1. PICK next \in PlayerState :
             next.pc = "chosen" /\ player' = [player EXCEPT ![r] = next]
      BY <2>22, NextItemType, ChosenType DEF Choose, PlayableIn, QueueOf
    <3>2. PlayersOK'
      BY <3>1, PlayerType
    <3> QED BY <2>22, <3>2 DEF TypeOK, Choose, PlayersOK
  <2>23. ASSUME NEW r \in Rooms, PersistCurrent(r) PROVE TypeOK'
    <3>1. PlayersOK'
      BY <2>23 DEF PersistCurrent, PlayersOK, PlayerState
    <3>2. current' \in [Rooms -> Items \cup {NoItem}]
      BY <2>23 DEF PersistCurrent, PlayersOK, PlayerState, TypeOK
    <3> QED BY <2>23, <3>1, <3>2 DEF TypeOK, PersistCurrent, PlayersOK
  <2>24. ASSUME NEW r \in Rooms, OpenMedia(r) PROVE TypeOK'
    <3>1. TrackOf[player[r].item] \in Tracks
      BY <2>24 DEF OpenMedia, PlayersOK
    <3>2. PlayersOK'
      BY <2>24 DEF OpenMedia, PlayersOK, PlayerState
    <3>3. disk' \in Seq(Tracks) /\ lease' \in [Tracks -> Nat]
      BY <2>24, <3>1, TouchedIsSeq DEF OpenMedia, TypeOK
    <3> QED BY <2>24, <3>2, <3>3 DEF TypeOK, OpenMedia, PlayersOK
  <2>25. ASSUME NEW r \in Rooms, SkipUnopened(r) PROVE TypeOK'
    <3>1. PlayersOK'
      BY <2>25, NextItemType, PlayerType DEF SkipUnopened
    <3> QED BY <2>25, <3>1 DEF TypeOK, SkipUnopened, PlayersOK
  <2>26. ASSUME NEW r \in Rooms, FinishTrack(r) PROVE TypeOK'
    <3>1. [player[r] EXCEPT !.pc = "chosen"] \in PlayerState
      BY DEF PlayersOK, PlayerState
    <3>2. PlayersOK'
      <4>1. PICK next \in NextItem(r) \cup {[player[r] EXCEPT !.pc = "chosen"]} :
                    player' = [player EXCEPT ![r] = next]
        BY <2>26 DEF FinishTrack
      <4>2. [player[r] EXCEPT !.pc = "chosen"].pc = "chosen"
        BY DEF PlayersOK, PlayerState
      <4>3. next \in PlayerState /\ next.pc = "chosen"
        BY <3>1, <4>1, <4>2, NextItemType
      <4> QED BY <4>1, <4>3, PlayerType
    <3>3. lease' \in [Tracks -> Nat]
      BY <2>26 DEF FinishTrack, Released, TypeOK
    <3> QED BY <2>26, <3>2, <3>3 DEF TypeOK, FinishTrack, PlayersOK
  <2>27. CASE Restart
    <3>1. WorkersOK'
      BY <2>27 DEF Restart, WorkersOK, IdleWorker, WorkerState, Running
    <3>2. pump' \in PumpState /\ pump'.pc = "idle"
      BY <2>27 DEF Restart, IdlePump, PumpState
    <3>3. PlayersOK'
      BY <2>27 DEF Restart, PlayersOK, IdlePlayer, PlayerState
    <3>4. CleanerOK'
      BY <2>27, IdleCleanerType DEF Restart
    <3>5. row' \in [Items -> Status] /\ upsets' \in Nat
      BY <2>27, UpsetType DEF Restart, ResetRows, TypeOK, Status
    <3>6. cleaner'.pc = "idle"
      BY <2>27 DEF Restart, IdleCleaner
    <3> QED BY <2>27, <3>1, <3>2, <3>3, <3>4, <3>5, <3>6
            DEF TypeOK, Restart, WorkersOK, PlayersOK, CleanerOK
  <2> QED
    BY <2>1, <2>2, <2>3, <2>4, <2>5, <2>6, <2>7, <2>8, <2>9, <2>10, <2>11, <2>12,
       <2>13, <2>14, <2>15, <2>16, <2>17, <2>18, <2>19, <2>20, <2>21, <2>22, <2>23,
       <2>24, <2>25, <2>26, <2>27, <2>28 DEF Next, ProcessStep, CleanerStep, PlayerStep
<1> QED BY <1>1, <1>2, PTL DEF Spec

-----------------------------------------------------------------------------
(* One downloading row per room *)

\* Only a pump's reservation makes a row downloading.
LEMMA NoNewDownload ==
    ASSUME TypeOK, [Next]_vars, ~\E w \in Workers : PumpReserve(w)
    PROVE  \A i \in Items : row'[i] = "downloading" => row[i] = "downloading"
<1> USE DEF TypeOK, SetRow
<1>1. CASE UNCHANGED row
  BY <1>1
<1>2. ASSUME NEW i \in Items, RemoveItem(i)
      PROVE  \A j \in Items : row'[j] = "downloading" => row[j] = "downloading"
  BY <1>2 DEF RemoveItem
<1>3. ASSUME NEW w \in Workers,
             RecordReady(w) \/ RecordFailure(w) \/ ReturnToPending(w)
      PROVE  \A j \in Items : row'[j] = "downloading" => row[j] = "downloading"
  BY <1>3 DEF RecordReady, RecordFailure, ReturnToPending
<1>4. CASE CleanerRepair
  BY <1>4 DEF CleanerRepair
<1>5. CASE Restart
  BY <1>5 DEF Restart, ResetRows
<1>6. ASSUME NEW r \in Rooms, PumpRead(r) \/ PumpFail(r) \/ PressPlay(r) \/ PlayerStep(r)
      PROVE  UNCHANGED row
  BY <1>6 DEF PumpRead, PumpFail, PressPlay, PlayerStep, Choose, PersistCurrent, OpenMedia,
              SkipUnopened, FinishTrack
<1>7. ASSUME NEW w \in Workers,
             LoadItem(w) \/ CacheHit(w) \/ CacheMiss(w) \/ TranscodeFail(w) \/ Publish(w)
               \/ RetireStream(w) \/ StartCleanup(w) \/ MarkPlayable(w)
      PROVE  UNCHANGED row
  BY <1>7 DEF LoadItem, CacheHit, CacheMiss, TranscodeFail, Publish, RetireStream, StartCleanup,
              MarkPlayable
<1>8. CASE BackgroundCleanup \/ CleanerNext \/ CleanerCurrent \/ CleanerRemove
  BY <1>8 DEF BackgroundCleanup, CleanerNext, CleanerCurrent, CleanerRemove
<1>9. CASE UNCHANGED vars
  BY <1>9 DEF vars
<1> QED
  BY <1>1, <1>2, <1>3, <1>4, <1>5, <1>6, <1>7, <1>8, <1>9, ItemAssumption
     DEF Next, ProcessStep, CleanerStep

\* While a pump holds its reservation its room has no downloading row: the pump
\* lock, not the database, keeps another pump out.
ReservedSlotFree ==
    pump.pc = "reserve" => \A i \in Items :
        RoomOf[i] = pump.room => row[i] # "downloading"

\* Only PumpRead makes a reservation.
LEMMA NoNewReservation ==
    ASSUME TypeOK, [Next]_vars, ~\E r \in Rooms : PumpRead(r), pump'.pc = "reserve"
    PROVE  pump' = pump
<1>1. ASSUME NEW w \in Workers, PumpReserve(w) PROVE FALSE
  BY <1>1 DEF PumpReserve, IdlePump
<1>2. ASSUME NEW r \in Rooms, PressPlay(r) \/ PlayerStep(r) PROVE pump' = pump
  BY <1>2 DEF PressPlay, PlayerStep, Choose, PersistCurrent, OpenMedia, SkipUnopened,
              FinishTrack
<1>3. ASSUME NEW w \in Workers, ProcessStep(w) \/ MarkPlayable(w) PROVE pump' = pump
  BY <1>3 DEF ProcessStep, LoadItem, CacheHit, CacheMiss, TranscodeFail, Publish,
              RecordReady, RecordFailure, RetireStream, ReturnToPending, StartCleanup,
              MarkPlayable
<1>4. CASE BackgroundCleanup \/ CleanerStep
  BY <1>4 DEF BackgroundCleanup, CleanerStep, CleanerNext, CleanerCurrent,
              CleanerRepair, CleanerRemove
<1>5. CASE Restart
  BY <1>5 DEF Restart, IdlePump
<1>6. ASSUME NEW i \in Items, RemoveItem(i) PROVE pump' = pump
  BY <1>6 DEF RemoveItem
<1>7. CASE UNCHANGED vars
  BY <1>7 DEF vars
<1>8. ASSUME NEW r \in Rooms, PumpFail(r) PROVE pump' = pump
  BY <1>8 DEF PumpFail, IdlePump
<1> QED BY <1>1, <1>2, <1>3, <1>4, <1>5, <1>6, <1>7, <1>8, ItemAssumption DEF Next

\* pumpRoom never lets two rows of a room be downloading.
THEOREM RoomsDownloadOneRow == Spec => []OneDownloadingRow
<1> DEFINE Inv == OneDownloadingRow /\ ReservedSlotFree
<1>1. Init => Inv
  BY DEF Init, OneDownloadingRow, ReservedSlotFree, IdlePump
<1>2. TypeOK /\ Inv /\ [Next]_vars => Inv'
  <2> SUFFICES ASSUME TypeOK, Inv, [Next]_vars PROVE Inv'
    OBVIOUS
  <2>1. ASSUME NEW w \in Workers, PumpReserve(w) PROVE Inv'
    <3>1. ReservedSlotFree'
      BY <2>1 DEF PumpReserve, ReservedSlotFree, IdlePump
    <3>2. \A i \in Items : row'[i] = "downloading"
                             => row[i] = "downloading" \/ i = pump.item
      BY <2>1 DEF PumpReserve, SetRow, TypeOK
    <3>3. \A i \in Items : row[i] = "downloading" => RoomOf[i] # RoomOf[pump.item]
      BY <2>1 DEF PumpReserve, ReservedSlotFree, TypeOK
    <3> QED BY <3>1, <3>2, <3>3 DEF OneDownloadingRow
  <2>2. CASE ~\E w \in Workers : PumpReserve(w)
    <3>1. \A i \in Items : row'[i] = "downloading" => row[i] = "downloading"
      BY <2>2, NoNewDownload
    <3>2. OneDownloadingRow'
      BY <3>1 DEF OneDownloadingRow
    <3>3. ASSUME NEW r \in Rooms, PumpRead(r) PROVE ReservedSlotFree'
      BY <3>1, <3>3 DEF PumpRead, Startable, Downloading, ReservedSlotFree, TypeOK, PumpState
    <3>4. CASE ~\E r \in Rooms : PumpRead(r)
      <4>1. pump'.pc = "reserve" => pump' = pump
        BY <3>4, NoNewReservation
      <4> QED BY <3>1, <3>2, <4>1 DEF ReservedSlotFree
    <3> QED BY <3>2, <3>3, <3>4
  <2> QED BY <2>1, <2>2
<1>3. Inv => OneDownloadingRow
  OBVIOUS
<1> QED BY <1>1, <1>2, <1>3, TypeCorrect, PTL DEF Spec

-----------------------------------------------------------------------------
(* Every downloading row has its worker *)

\* A row whose last status was not written stays so until the process restarts.
LEMMA StuckStays ==
    ASSUME [Next]_vars, ~Restart
    PROVE  stuck \subseteq stuck'
<1>1. ASSUME NEW w \in Workers, PumpReserve(w) \/ ProcessStep(w) \/ MarkPlayable(w)
      PROVE  stuck \subseteq stuck'
  BY <1>1 DEF PumpReserve, ProcessStep, LoadItem, CacheHit, CacheMiss, TranscodeFail,
              Publish, RecordReady, RecordFailure, RetireStream, ReturnToPending,
              StartCleanup, MarkPlayable, Strands
<1>2. ASSUME NEW r \in Rooms, PumpRead(r) \/ PumpFail(r) \/ PressPlay(r) \/ PlayerStep(r)
      PROVE  stuck' = stuck
  BY <1>2 DEF PumpRead, PumpFail, PressPlay, PlayerStep, Choose, PersistCurrent, OpenMedia,
              SkipUnopened, FinishTrack
<1>3. ASSUME NEW i \in Items, RemoveItem(i) PROVE stuck' = stuck
  BY <1>3 DEF RemoveItem
<1>4. CASE BackgroundCleanup \/ CleanerStep
  BY <1>4 DEF BackgroundCleanup, CleanerStep, CleanerNext, CleanerCurrent,
              CleanerRepair, CleanerRemove
<1>5. CASE UNCHANGED vars
  BY <1>5 DEF vars
<1> QED BY <1>1, <1>2, <1>3, <1>4, <1>5, ItemAssumption DEF Next

\* A downloading row always has a worker that will record its outcome, unless its
\* last worker could not write one: whatever else fails, is removed or restarts.
THEOREM DownloadsHaveWorkers == Spec => []DownloadingHasWorker
<1>1. Init => DownloadingHasWorker
  BY DEF Init, DownloadingHasWorker
<1>2. TypeOK /\ DownloadingHasWorker /\ [Next]_vars => DownloadingHasWorker'
  <2> SUFFICES ASSUME TypeOK, DownloadingHasWorker, [Next]_vars,
                      NEW i \in Items, row'[i] = "downloading"
               PROVE  WorkedOn(i)' \/ i \in stuck'
    BY DEF DownloadingHasWorker
  <2> USE DEF Works, WorkedOn, Unrecorded
  <2>1. ASSUME NEW v \in Workers, PumpReserve(v) PROVE WorkedOn(i)' \/ i \in stuck'
    <3>1. \A w \in Workers : w # v => worker'[w] = worker[w]
      BY <2>1 DEF PumpReserve, TypeOK
    <3>2. worker'[v].pc = "spawned" /\ worker'[v].item = pump.item /\ worker[v].pc = "none"
      BY <2>1 DEF PumpReserve, IdleWorker, TypeOK
    <3>3. row[i] = "downloading" \/ i = pump.item
      BY <2>1 DEF PumpReserve, SetRow, TypeOK
    <3> QED BY <2>1, <3>1, <3>2, <3>3 DEF DownloadingHasWorker, PumpReserve
  <2> SUFFICES ASSUME ~\E v \in Workers : PumpReserve(v)
               PROVE  WorkedOn(i)' \/ i \in stuck'
    BY <2>1
  <2>6. ASSUME Restart PROVE FALSE
    BY <2>6 DEF Restart, ResetRows, TypeOK
  <2>11. CASE i \in stuck
    BY <2>6, <2>11, StuckStays
  <2> SUFFICES ASSUME i \notin stuck PROVE WorkedOn(i)' \/ i \in stuck'
    BY <2>11
  <2>2. PICK w \in Workers : Works(w, i)
    BY NoNewDownload DEF DownloadingHasWorker
  <2> SUFFICES ASSUME i \notin stuck' PROVE Works(w, i)'
    OBVIOUS
  <2>3. CASE UNCHANGED worker
    BY <2>2, <2>3
  <2>4. ASSUME NEW v \in Workers, ProcessStep(v) \/ MarkPlayable(v) PROVE Works(w, i)'
    <3>1. CASE w # v
      <4>1. worker'[w] = worker[w]
        BY <2>4, <3>1 DEF ProcessStep, LoadItem, CacheHit, CacheMiss, TranscodeFail,
             Publish, RecordReady, RecordFailure, RetireStream, ReturnToPending,
             StartCleanup, MarkPlayable, Goto, Exit, FinishProcess, TypeOK
      <4> QED BY <4>1, <2>2
    <3>2. CASE w = v
      <4> USE <3>2, <2>2 DEF Goto, TypeOK, WorkerState
      <4>1. CASE LoadItem(v)
        BY <4>1 DEF LoadItem, Queued, Exit
      <4>2. CASE CacheHit(v) \/ CacheMiss(v) \/ TranscodeFail(v) \/ Publish(v) \/ MarkPlayable(v)
        BY <4>2 DEF CacheHit, CacheMiss, TranscodeFail, Publish, MarkPlayable
      <4>3. CASE RecordReady(v)
        BY <4>3 DEF RecordReady, SetRow, Queued
      <4>4. CASE RecordFailure(v)
        BY <4>4 DEF RecordFailure, SetRow, Queued, Strands
      <4>5. CASE RetireStream(v)
        BY <4>5 DEF RetireStream, IdleWorker
      <4>6. CASE ReturnToPending(v)
        BY <4>6 DEF ReturnToPending, SetRow, Queued, Strands
      <4>7. CASE StartCleanup(v)
        BY <4>7 DEF StartCleanup
      <4> QED BY <4>1, <4>2, <4>3, <4>4, <4>5, <4>6, <4>7, <2>4 DEF ProcessStep
    <3> QED BY <3>1, <3>2
  <2>5. CASE CleanerNext
    <3>1. cleaner.by # None => cleaner.by # w
      BY <2>2, <2>5 DEF CleanerNext, TypeOK
    <3>2. worker'[w] = worker[w]
      BY <2>5, <3>1 DEF CleanerNext, FinishProcess, Exit, TypeOK
    <3> QED BY <2>2, <3>2
  <2>7. ASSUME NEW r \in Rooms, PumpRead(r) \/ PumpFail(r) \/ PressPlay(r) \/ PlayerStep(r)
        PROVE  UNCHANGED worker
    BY <2>7 DEF PumpRead, PumpFail, PressPlay, PlayerStep, Choose, PersistCurrent, OpenMedia,
                SkipUnopened, FinishTrack
  <2>8. CASE BackgroundCleanup \/ CleanerCurrent \/ CleanerRepair \/ CleanerRemove
    BY <2>3, <2>8 DEF BackgroundCleanup, CleanerCurrent, CleanerRepair, CleanerRemove
  <2>9. ASSUME NEW j \in Items, RemoveItem(j) PROVE UNCHANGED worker
    BY <2>9 DEF RemoveItem
  <2>10. CASE UNCHANGED vars
    BY <2>3, <2>10 DEF vars
  <2> QED
    BY <2>3, <2>4, <2>5, <2>6, <2>7, <2>8, <2>9, <2>10, ItemAssumption
       DEF Next, CleanerStep
<1> QED BY <1>1, <1>2, TypeCorrect, PTL DEF Spec

\* Both facts about downloads, as the runs check them.
THEOREM DownloadsOwned == Spec => []DownloadsAreOwned
<1>1. OneDownloadingRow /\ DownloadingHasWorker => DownloadsAreOwned
  BY DEF DownloadsAreOwned
<1> QED BY <1>1, RoomsDownloadOneRow, DownloadsHaveWorkers, PTL

-----------------------------------------------------------------------------
(* The registry of growing transcodes *)

\* Where a worker may be while its stream is registered.
Streaming == {"transcoding", "failing", "failed", "prepared", "ready", "unmarked"}

\* A registered stream is its worker's, and is being written only by a worker that
\* holds the track's lock; the reverse keeps two transcodes of a track apart.
StreamInv ==
    /\ \A t \in Tracks : streams[t] # None =>
          /\ worker[streams[t]].pc \in Streaming
          /\ TrackAt(streams[t]) = t
    /\ \A w \in Workers : worker[w].stream = "writing" => worker[w].pc = "transcoding"

\* A worker goes on without losing its place among those with a stream.
LEMMA WorkerGoesOn ==
    ASSUME TypeOK, StreamInv, UNCHANGED streams, NEW w \in Workers,
           \A v \in Workers : v # w => worker'[v] = worker[v],
           worker'[w].item = worker[w].item,
           worker[w].pc \in Streaming => worker'[w].pc \in Streaming,
           worker'[w].stream = "writing" => worker'[w].pc = "transcoding"
    PROVE  StreamInv'
<1>1. \A t \in Tracks : streams[t] # None => streams[t] \in Workers
  BY DEF TypeOK
<1>2. \A v \in Workers : worker[v].pc \in Streaming
         => worker'[v].pc \in Streaming /\ worker'[v].item = worker[v].item
  OBVIOUS
<1>3. \A v \in Workers : worker'[v].stream = "writing" => worker'[v].pc = "transcoding"
  BY DEF StreamInv
<1>4. \A t \in Tracks : streams[t] # None =>
         worker[streams[t]].pc \in Streaming /\ TrackOf[worker[streams[t]].item] = t
  BY DEF StreamInv, TrackAt
<1> QED BY <1>1, <1>2, <1>3, <1>4 DEF StreamInv, TrackAt

\* A worker without a stream starts or ends.
LEMMA WorkerReplaced ==
    ASSUME TypeOK, StreamInv, UNCHANGED streams, NEW w \in Workers,
           \A v \in Workers : v # w => worker'[v] = worker[v],
           worker[w].pc \notin Streaming, worker'[w].stream # "writing"
    PROVE  StreamInv'
<1>1. \A t \in Tracks : streams[t] # None =>
         /\ streams[t] \in Workers \ {w}
         /\ worker[streams[t]].pc \in Streaming /\ TrackOf[worker[streams[t]].item] = t
  BY DEF TypeOK, StreamInv, TrackAt
<1>2. \A v \in Workers : worker'[v].stream = "writing" => worker'[v].pc = "transcoding"
  BY DEF StreamInv
<1> QED BY <1>1, <1>2 DEF StreamInv, TrackAt

LEMMA StreamInvInductive ==
    ASSUME TypeOK, StreamInv, [Next]_vars
    PROVE  StreamInv'
<1>1. CASE UNCHANGED <<streams, worker>>
  BY <1>1 DEF StreamInv, TrackAt
<1>2. ASSUME NEW w \in Workers, PumpReserve(w) PROVE StreamInv'
  BY <1>2, WorkerReplaced DEF PumpReserve, IdleWorker, TypeOK, Streaming
<1>3. ASSUME NEW w \in Workers, LoadItem(w) PROVE StreamInv'
  <2>1. worker'[w].stream # "writing" /\ \A v \in Workers : v # w => worker'[v] = worker[v]
    <3>1. worker[w].stream # "writing" /\ worker[w] \in WorkerState
      BY <1>3 DEF LoadItem, TypeOK, StreamInv
    <3>2. ASSUME NEW pc \in Running, Goto(w, pc)
          PROVE  worker'[w].stream = worker[w].stream
                   /\ \A v \in Workers : v # w => worker'[v] = worker[v]
      BY <3>1, <3>2 DEF Goto, TypeOK, WorkerState
    <3>3. CASE Goto(w, "waiting") \/ Goto(w, "unready")
      BY <3>1, <3>2, <3>3 DEF Running
    <3>4. CASE Exit(w)
      BY <3>4 DEF Exit, IdleWorker, TypeOK
    <3> QED BY <1>3, <3>3, <3>4 DEF LoadItem
  <2> QED BY <1>3, <2>1, WorkerReplaced DEF LoadItem, Streaming
<1>4. ASSUME NEW w \in Workers, CacheHit(w) PROVE StreamInv'
  <2>1. worker'[w].stream # "writing" /\ \A v \in Workers : v # w => worker'[v] = worker[v]
    BY <1>4 DEF CacheHit, Goto, TypeOK, WorkerState, StreamInv
  <2> QED BY <1>4, <2>1, WorkerReplaced DEF CacheHit, Streaming
<1>5. ASSUME NEW w \in Workers, CacheMiss(w) PROVE StreamInv'
  <2>1. TrackAt(w) \in Tracks /\ worker[w] \in WorkerState
    BY <1>5, ItemAssumption DEF CacheMiss, TypeOK, Running, TrackAt
  <2>2. CASE Goto(w, "failing") /\ UNCHANGED streams
    <3>1. /\ worker'[w].item = worker[w].item /\ worker'[w].pc = "failing"
          /\ worker'[w].stream = worker[w].stream
          /\ \A v \in Workers : v # w => worker'[v] = worker[v]
      BY <2>1, <2>2 DEF Goto, TypeOK, WorkerState
    <3>2. worker[w].stream # "writing"
      BY <1>5 DEF CacheMiss, StreamInv
    <3> QED BY <2>2, <3>1, <3>2, WorkerGoesOn DEF Streaming
  <2>3. CASE streams' = [streams EXCEPT ![TrackAt(w)] = w]
             /\ worker' = [worker EXCEPT ![w].pc = "transcoding", ![w].stream = "writing"]
    BY <1>5, <2>1, <2>3 DEF CacheMiss, TypeOK, WorkerState, StreamInv, Streaming, TrackAt
  <2> QED BY <1>5, <2>2, <2>3 DEF CacheMiss
<1>6. ASSUME NEW w \in Workers, MarkPlayable(w) \/ TranscodeFail(w) \/ Publish(w)
      PROVE  StreamInv'
  <2>1. UNCHANGED streams /\ \A v \in Workers : v # w => worker'[v] = worker[v]
    BY <1>6 DEF MarkPlayable, TranscodeFail, Publish, TypeOK
  <2>2. /\ worker'[w].item = worker[w].item
        /\ worker[w].pc \in Streaming => worker'[w].pc \in Streaming
        /\ worker'[w].stream = "writing" => worker'[w].pc = "transcoding"
    BY <1>6 DEF MarkPlayable, TranscodeFail, Publish, TypeOK, WorkerState, StreamInv,
                Streaming
  <2> QED BY <2>1, <2>2, WorkerGoesOn
<1>7. ASSUME NEW w \in Workers, RecordReady(w) \/ RecordFailure(w) PROVE StreamInv'
  <2>1. UNCHANGED streams /\ \A v \in Workers : v # w => worker'[v] = worker[v]
    BY <1>7 DEF RecordReady, RecordFailure, Goto, TypeOK
  <2>2. /\ worker'[w].item = worker[w].item
        /\ worker[w].pc \in Streaming => worker'[w].pc \in Streaming
        /\ worker'[w].stream = "writing" => worker'[w].pc = "transcoding"
    BY <1>7 DEF RecordReady, RecordFailure, Goto, TypeOK, WorkerState, StreamInv,
                Streaming
  <2> QED BY <2>1, <2>2, WorkerGoesOn
<1>8. ASSUME NEW w \in Workers, RetireStream(w) PROVE StreamInv'
  <2>1. worker[w].stream # "writing"
    BY <1>8 DEF RetireStream, StreamInv
  <2>2. \A t \in Tracks : streams'[t] # w
    BY <1>8, <2>1, ItemAssumption DEF RetireStream, Retired, TypeOK, StreamInv
  <2>3. \A t \in Tracks : streams'[t] = None \/ streams'[t] = streams[t]
    BY <1>8 DEF RetireStream, Retired, TypeOK
  <2>4. worker'[w].stream = "none"
    BY <1>8 DEF RetireStream, IdleWorker, TypeOK
  <2>5. \A v \in Workers : v # w => worker'[v] = worker[v]
    BY <1>8 DEF RetireStream, TypeOK
  <2>6. \A t \in Tracks : streams'[t] # None => worker'[streams'[t]] = worker[streams[t]]
    BY <2>2, <2>3, <2>5 DEF TypeOK
  <2> QED BY <2>3, <2>4, <2>5, <2>6 DEF StreamInv, TrackAt
<1>9. ASSUME NEW w \in Workers, ReturnToPending(w) PROVE StreamInv'
  BY <1>9, WorkerReplaced DEF ReturnToPending, Exit, IdleWorker, TypeOK, Streaming
<1>10. ASSUME NEW w \in Workers, StartCleanup(w) PROVE StreamInv'
  <2>1. worker'[w].stream # "writing" /\ \A v \in Workers : v # w => worker'[v] = worker[v]
    <3>1. worker[w].stream # "writing"
      BY <1>10 DEF StartCleanup, StreamInv
    <3>2. CASE Goto(w, "cleaning")
      BY <3>1, <3>2 DEF Goto, TypeOK, WorkerState
    <3>3. CASE Exit(w)
      BY <3>3 DEF Exit, IdleWorker, TypeOK
    <3> QED BY <1>10, <3>2, <3>3 DEF StartCleanup, FinishProcess
  <2> QED BY <1>10, <2>1, WorkerReplaced DEF StartCleanup, Streaming
<1>11. CASE CleanerNext
  <2>1. CASE UNCHANGED worker
    BY <1>1, <1>11, <2>1 DEF CleanerNext
  <2>2. CASE cleaner.by # None /\ FinishProcess(cleaner.by)
    <3>1. cleaner.by \in Workers /\ worker[cleaner.by].pc \notin Streaming
      BY <1>11, <2>2 DEF CleanerNext, TypeOK, CleanerState, Streaming
    <3> QED BY <1>11, <2>2, <3>1, WorkerReplaced
            DEF CleanerNext, FinishProcess, Exit, IdleWorker, TypeOK
  <2> QED BY <1>11, <2>1, <2>2 DEF CleanerNext
<1>12. CASE Restart
  BY <1>12 DEF Restart, IdleWorker, StreamInv
<1>13. ASSUME NEW r \in Rooms, PumpRead(r) \/ PumpFail(r) \/ PressPlay(r) \/ PlayerStep(r)
       PROVE  UNCHANGED <<streams, worker>>
  BY <1>13 DEF PumpRead, PumpFail, PressPlay, PlayerStep, Choose, PersistCurrent, OpenMedia,
               SkipUnopened, FinishTrack
<1>14. CASE BackgroundCleanup \/ CleanerCurrent \/ CleanerRepair \/ CleanerRemove
  BY <1>1, <1>14 DEF BackgroundCleanup, CleanerCurrent, CleanerRepair, CleanerRemove
<1>15. ASSUME NEW i \in Items, RemoveItem(i) PROVE UNCHANGED <<streams, worker>>
  BY <1>15 DEF RemoveItem
<1>16. CASE UNCHANGED vars
  BY <1>1, <1>16 DEF vars
<1> QED
  BY <1>1, <1>2, <1>3, <1>4, <1>5, <1>6, <1>7, <1>8, <1>9, <1>10, <1>11, <1>12, <1>13,
     <1>14, <1>15, <1>16, ItemAssumption DEF Next, ProcessStep, CleanerStep

LEMMA StreamInvHolds == Spec => []StreamInv
<1>1. Init => StreamInv
  BY DEF Init, StreamInv, IdleWorker
<1> QED BY <1>1, StreamInvInductive, TypeCorrect, PTL DEF Spec

\* Every registered stream has a process that will retire it.
THEOREM StreamsHaveOwners == Spec => []RegisteredStreamHasOwner
<1>1. TypeOK /\ StreamInv => RegisteredStreamHasOwner
  BY DEF TypeOK, StreamInv, RegisteredStreamHasOwner, Streaming, Running
<1> QED BY <1>1, TypeCorrect, StreamInvHolds, PTL

\* Nobody takes a growing stream away from the readers of its track.
THEOREM WritersKeepStreams == Spec => StreamKeptWhileWriting
<1> DEFINE StepKeeps ==
      \A t \in Tracks, w \in Workers :
         streams[t] = w /\ worker[w].stream = "writing"
             => streams'[t] = w \/ worker'[w].stream # "writing"
<1>1. TypeOK /\ StreamInv /\ [Next]_vars => StepKeeps
  <2> SUFFICES ASSUME TypeOK, StreamInv, [Next]_vars, NEW t \in Tracks, NEW w \in Workers,
                      streams[t] = w, worker[w].stream = "writing"
               PROVE  streams'[t] = w \/ worker'[w].stream # "writing"
    OBVIOUS
  <2>1. worker[w].pc = "transcoding" /\ TrackAt(w) = t
    BY ItemAssumption DEF StreamInv
  <2>2. CASE UNCHANGED streams
    BY <2>2
  <2>3. ASSUME NEW v \in Workers, CacheMiss(v) PROVE streams'[t] = w
    <3>1. TrackAt(v) # t
      BY <2>1, <2>3 DEF CacheMiss, CacheLockFree, HoldsCacheLock
    <3> QED BY <2>3, <3>1 DEF CacheMiss, TypeOK
  <2>4. ASSUME NEW v \in Workers, RetireStream(v) PROVE streams'[t] = w
    BY <2>4 DEF RetireStream, Retired, TypeOK
  <2>5. CASE Restart
    BY <2>5 DEF Restart, IdleWorker
  <2>6. ASSUME NEW v \in Workers,
               PumpReserve(v) \/ LoadItem(v) \/ CacheHit(v) \/ TranscodeFail(v) \/ Publish(v)
                 \/ RecordReady(v) \/ RecordFailure(v) \/ ReturnToPending(v)
                 \/ StartCleanup(v) \/ MarkPlayable(v)
        PROVE  UNCHANGED streams
    BY <2>6 DEF PumpReserve, LoadItem, CacheHit, TranscodeFail, Publish, RecordReady,
                RecordFailure, ReturnToPending, StartCleanup, MarkPlayable
  <2>7. ASSUME NEW r \in Rooms, PumpRead(r) \/ PumpFail(r) \/ PressPlay(r) \/ PlayerStep(r)
        PROVE  UNCHANGED streams
    BY <2>7 DEF PumpRead, PumpFail, PressPlay, PlayerStep, Choose, PersistCurrent, OpenMedia,
                SkipUnopened, FinishTrack
  <2>8. CASE BackgroundCleanup \/ CleanerStep
    BY <2>2, <2>8 DEF BackgroundCleanup, CleanerStep, CleanerNext, CleanerCurrent,
                      CleanerRepair, CleanerRemove
  <2>9. ASSUME NEW i \in Items, RemoveItem(i) PROVE UNCHANGED streams
    BY <2>9 DEF RemoveItem
  <2>10. CASE UNCHANGED vars
    BY <2>2, <2>10 DEF vars
  <2> QED
    BY <2>2, <2>3, <2>4, <2>5, <2>6, <2>7, <2>8, <2>9, <2>10, ItemAssumption
       DEF Next, ProcessStep
<1> QED BY <1>1, TypeCorrect, StreamInvHolds, PTL DEF Spec, StreamKeptWhileWriting

\* Every transcode writes to its stream, so retireStream leaves it alone.
TranscodingWrites ==
    \A w \in Workers : worker[w].pc = "transcoding" => worker[w].stream = "writing"

LEMMA TranscodingWritesInductive ==
    ASSUME TypeOK, TranscodingWrites, [Next]_vars
    PROVE  TranscodingWrites'
<1> USE DEF TranscodingWrites
<1>1. CASE UNCHANGED worker
  BY <1>1
<1>2. ASSUME NEW w \in Workers, CacheMiss(w) PROVE TranscodingWrites'
  <2>1. CASE Goto(w, "failing")
    BY <2>1 DEF Goto, TypeOK, WorkerState
  <2>2. CASE worker' = [worker EXCEPT ![w].pc = "transcoding", ![w].stream = "writing"]
    BY <2>2 DEF TypeOK, WorkerState
  <2> QED BY <1>2, <2>1, <2>2 DEF CacheMiss
<1>3. ASSUME NEW w \in Workers, MarkPlayable(w) PROVE TranscodingWrites'
  BY <1>3 DEF MarkPlayable, TypeOK, WorkerState
\* The other steps of a worker do not take it into a transcode.
<1>4. ASSUME NEW w \in Workers, worker'[w].pc # "transcoding",
             \A v \in Workers : v # w => worker'[v] = worker[v]
      PROVE  TranscodingWrites'
  BY <1>4
<1>5. ASSUME NEW w \in Workers, NEW pc \in Running \ {"transcoding"}, Goto(w, pc)
      PROVE  TranscodingWrites'
  BY <1>5 DEF Goto, TypeOK, WorkerState
<1>6. ASSUME NEW w \in Workers, Exit(w) PROVE TranscodingWrites'
  BY <1>6 DEF Exit, IdleWorker, TypeOK
<1>7. ASSUME NEW w \in Workers,
              LoadItem(w) \/ CacheHit(w) \/ RecordReady(w) \/ RecordFailure(w)
       PROVE  TranscodingWrites'
  BY <1>5, <1>6, <1>7 DEF LoadItem, CacheHit, RecordReady, RecordFailure, Running
<1>8. ASSUME NEW w \in Workers, TranscodeFail(w) \/ Publish(w) PROVE TranscodingWrites'
  BY <1>8 DEF TranscodeFail, Publish, TypeOK, WorkerState
<1>9. ASSUME NEW w \in Workers, PumpReserve(w) \/ RetireStream(w) \/ ReturnToPending(w)
       PROVE  TranscodingWrites'
  <2>1. CASE PumpReserve(w)
    BY <1>4, <2>1 DEF PumpReserve, IdleWorker, TypeOK
  <2>2. CASE RetireStream(w)
    <3>1. \A v \in Workers : v # w => worker'[v] = worker[v]
      BY <2>2 DEF RetireStream, TypeOK
    <3>2. worker'[w].pc # "transcoding"
      BY <2>2 DEF RetireStream, IdleWorker, TypeOK
    <3> QED BY <1>4, <3>1, <3>2
  <2>3. CASE ReturnToPending(w)
    BY <1>6, <2>3 DEF ReturnToPending
  <2> QED BY <1>9, <2>1, <2>2, <2>3
<1>10. ASSUME NEW w \in Workers, StartCleanup(w) PROVE TranscodingWrites'
  BY <1>5, <1>6, <1>10 DEF StartCleanup, FinishProcess, Running
<1>11. CASE CleanerNext
  <2>1. CASE cleaner.by # None /\ FinishProcess(cleaner.by)
    <3>1. cleaner.by \in Workers
      BY <2>1 DEF TypeOK, CleanerState
    <3> QED BY <1>4, <2>1, <3>1 DEF FinishProcess, Exit, IdleWorker, TypeOK
  <2> QED BY <1>1, <1>11, <2>1 DEF CleanerNext
<1>12. CASE CleanerCurrent \/ CleanerRepair \/ CleanerRemove \/ BackgroundCleanup
  BY <1>1, <1>12 DEF CleanerCurrent, CleanerRepair, CleanerRemove, BackgroundCleanup
<1>13. CASE Restart
  BY <1>13 DEF Restart, IdleWorker
<1>14. ASSUME NEW r \in Rooms, PumpRead(r) \/ PumpFail(r) \/ PressPlay(r) \/ PlayerStep(r)
       PROVE  UNCHANGED worker
  BY <1>14 DEF PumpRead, PumpFail, PressPlay, PlayerStep, Choose, PersistCurrent, OpenMedia,
               SkipUnopened, FinishTrack
<1>15. ASSUME NEW i \in Items, RemoveItem(i) PROVE UNCHANGED worker
  BY <1>15 DEF RemoveItem
<1>16. CASE UNCHANGED vars
  BY <1>1, <1>16 DEF vars
<1> QED
  BY <1>1, <1>2, <1>3, <1>7, <1>8, <1>9, <1>10, <1>11, <1>12, <1>13, <1>14, <1>15, <1>16,
     ItemAssumption DEF Next, ProcessStep, CleanerStep

\* A row plays on from a stream that stays registered, unless the transcode fails.
LEMMA WorkerKeepsRow ==
    ASSUME NEW i \in Items, NEW w \in Workers, OwnStream(i, w),
           UNCHANGED streams, worker'[w].playable = worker[w].playable
    PROVE  ~LosesStream(i, w)
<1>1. TrackOf[i] \in Tracks /\ w # None
  BY ItemAssumption
<1>2. worker[w].playable /\ worker[w].stream # "failed"
  BY <1>1 DEF OwnStream, Playable, StreamPlayable
<1>3. streams'[TrackOf[i]] = w
  BY DEF OwnStream
<1> QED BY <1>1, <1>2, <1>3 DEF LosesStream, Playable, StreamPlayable

\* A row keeps the stream it plays from unless the file is evicted before the row is
\* recorded, or an earlier process of the row is still to retire its own.
THEOREM EvictionApartPlayable == Spec => PlayableUnlessEvicted
<1> DEFINE TakenLate(i, w) ==
      /\ worker[w].pc = "prepared"
      /\ \/ ~Cached(TrackOf[i])
         \/ \E v \in Workers \ {w} :
              worker[v].item = i /\ worker[v].pc \in {"ready", "unmarked", "failed"}
<1>1. ASSUME TypeOK, TranscodingWrites, [Next]_vars,
             NEW i \in Items, NEW w \in Workers, OwnStream(i, w), LosesStream(i, w)
      PROVE  TakenLate(i, w)
  <2>1. /\ TrackOf[i] \in Tracks /\ streams[TrackOf[i]] = w /\ w # None
        /\ worker[w].item = i /\ worker[w].pc \in {"transcoding", "prepared"}
        /\ worker[w].playable /\ row[i] = "downloading"
    BY <1>1, ItemAssumption DEF OwnStream, Playable, StreamPlayable
  <2>2. ~(UNCHANGED streams /\ worker'[w].playable = worker[w].playable)
    BY <1>1, WorkerKeepsRow
  <2>3. row'[i] = "downloading"
    BY <1>1 DEF LosesStream
  <2>4. ASSUME NEW v \in Workers, CacheMiss(v) PROVE TakenLate(i, w)
    <3>1. v # w /\ worker'[w] = worker[w]
      <4>1. v # w
        BY <2>1, <2>4 DEF CacheMiss
      <4>2. CASE Goto(v, "failing")
        BY <1>1, <4>1, <4>2 DEF Goto, TypeOK
      <4>3. CASE worker' = [worker EXCEPT ![v].pc = "transcoding", ![v].stream = "writing"]
        BY <1>1, <4>1, <4>3 DEF TypeOK
      <4> QED BY <2>4, <4>1, <4>2, <4>3 DEF CacheMiss
    <3>2. streams' = [streams EXCEPT ![TrackAt(v)] = v] /\ TrackAt(v) = TrackOf[i]
      BY <2>1, <2>2, <2>4, <3>1, WorkerKeepsRow, <1>1
         DEF CacheMiss, TypeOK, LosesStream, Playable, StreamPlayable, OwnStream
    <3> QED BY <2>1, <2>4, <3>2 DEF CacheMiss, CacheLockFree, HoldsCacheLock, TrackAt
  <2>5. ASSUME NEW v \in Workers, RetireStream(v) PROVE TakenLate(i, w)
    <3>1. v # w /\ worker'[w] = worker[w]
      BY <2>1, <2>5 DEF RetireStream, TypeOK
    <3>2. /\ streams' = [streams EXCEPT ![TrackAt(v)] = None]
          /\ worker[streams[TrackAt(v)]].item = worker[v].item
          /\ worker[streams[TrackAt(v)]].stream # "writing"
      BY <2>2, <2>5, <3>1 DEF RetireStream, Retired
    <3>3. TrackAt(v) = TrackOf[i]
      BY <1>1, <2>1, <3>1, <3>2
         DEF TypeOK, LosesStream, Playable, StreamPlayable, OwnStream
    <3>4. worker[v].item = i /\ worker[w].pc = "prepared"
      BY <1>1, <2>1, <3>2, <3>3 DEF TranscodingWrites
    <3> QED BY <2>5, <3>1, <3>4 DEF RetireStream
  \* No other step takes the stream away.
  <2>6. CASE UNCHANGED <<streams, worker>>
    BY <2>2, <2>6
  <2>7. ASSUME NEW v \in Workers,
               LoadItem(v) \/ CacheHit(v) \/ MarkPlayable(v) \/ TranscodeFail(v) \/ Publish(v)
                 \/ RecordReady(v) \/ RecordFailure(v) \/ PumpReserve(v)
                 \/ ReturnToPending(v) \/ StartCleanup(v)
        PROVE  FALSE
    <3>1. UNCHANGED streams
      BY <2>7 DEF LoadItem, CacheHit, MarkPlayable, TranscodeFail, Publish, RecordReady,
                  RecordFailure, PumpReserve, ReturnToPending, StartCleanup
    <3>2. CASE v # w
      <4>1. worker'[w] = worker[w]
        <5>1. CASE LoadItem(v) \/ CacheHit(v) \/ RecordReady(v) \/ RecordFailure(v)
          BY <1>1, <3>2, <5>1
             DEF LoadItem, CacheHit, RecordReady, RecordFailure, Goto, Exit, TypeOK
        <5>2. CASE \/ MarkPlayable(v) \/ TranscodeFail(v) \/ Publish(v) \/ PumpReserve(v)
                   \/ ReturnToPending(v)
          BY <1>1, <3>2, <5>2
             DEF MarkPlayable, TranscodeFail, Publish, PumpReserve, ReturnToPending, Exit,
                 TypeOK
        <5>3. CASE StartCleanup(v)
          BY <1>1, <3>2, <5>3 DEF StartCleanup, FinishProcess, Goto, Exit, TypeOK
        <5> QED BY <2>7, <5>1, <5>2, <5>3
      <4> QED BY <2>2, <3>1, <4>1
    <3>3. CASE v = w
      <4>1. TranscodeFail(w) \/ Publish(w) \/ RecordReady(w)
        BY <2>1, <2>7, <3>3 DEF LoadItem, CacheHit, MarkPlayable, RecordFailure, PumpReserve,
                                ReturnToPending, StartCleanup
      <4>2. worker'[w].playable = worker[w].playable
        BY <1>1, <4>1 DEF TranscodeFail, Publish, RecordReady, Goto, TypeOK, WorkerState
      <4> QED BY <2>2, <3>1, <4>2
    <3> QED BY <3>2, <3>3
  <2>8. CASE CleanerStep \/ BackgroundCleanup
    <3>1. UNCHANGED streams
      BY <2>8 DEF CleanerStep, CleanerNext, CleanerCurrent, CleanerRepair, CleanerRemove,
                  BackgroundCleanup
    <3>2. CASE UNCHANGED worker
      BY <2>6, <3>1, <3>2
    <3>3. CASE cleaner.pc # "idle" /\ cleaner.by # None /\ FinishProcess(cleaner.by)
      <4>1. worker'[w] = worker[w]
        BY <1>1, <2>1, <3>3 DEF FinishProcess, Exit, TypeOK
      <4> QED BY <2>2, <3>1, <4>1
    <3> QED BY <2>8, <3>2, <3>3 DEF CleanerStep, CleanerNext, CleanerCurrent, CleanerRepair,
                                    CleanerRemove, BackgroundCleanup
  <2>9. CASE Restart
    BY <2>1, <2>3, <2>9 DEF Restart, ResetRows
  <2>10. ASSUME NEW r \in Rooms, PumpRead(r) \/ PumpFail(r) \/ PressPlay(r) \/ PlayerStep(r)
         PROVE  UNCHANGED <<streams, worker>>
    BY <2>10 DEF PumpRead, PumpFail, PressPlay, PlayerStep, Choose, PersistCurrent, OpenMedia,
                 SkipUnopened, FinishTrack
  <2>11. ASSUME NEW j \in Items, RemoveItem(j) PROVE UNCHANGED <<streams, worker>>
    BY <2>11 DEF RemoveItem
  <2>12. CASE UNCHANGED vars
    BY <2>6, <2>12 DEF vars
  <2> HIDE DEF TakenLate
  <2> QED
    BY <1>1, <2>4, <2>5, <2>6, <2>7, <2>8, <2>9, <2>10, <2>11, <2>12, ItemAssumption
       DEF Next, ProcessStep
<1>2. Init => TranscodingWrites
  BY DEF Init, TranscodingWrites, IdleWorker
<1>3. Spec => []TranscodingWrites
  BY <1>2, TranscodingWritesInductive, TypeCorrect, PTL DEF Spec
<1>4. TypeOK /\ TranscodingWrites /\ [Next]_vars
        => \A i \in Items, w \in Workers : OwnStream(i, w) /\ LosesStream(i, w) => TakenLate(i, w)
  BY <1>1
<1> QED BY <1>3, <1>4, TypeCorrect, PTL DEF Spec, PlayableUnlessEvicted

-----------------------------------------------------------------------------
(* Leases and the size of the cache *)

Readers(t) == {r \in Rooms : Reading(r, t)}

\* However many rooms there are, finitely many of them read a track.
LeaseInv ==
    \A t \in Tracks : IsFiniteSet(Readers(t)) /\ lease[t] = Cardinality(Readers(t))

\* The cleaner's total is never more than there is on the disk: it counted the files
\* when it scanned, and since then only it has removed any.
CacheInv ==
    cleaner.pc # "idle" =>
       /\ cleaner.total <= FileBytes * Len(disk)
       /\ cleaner.pc \in {"current", "repair", "remove"} => cleaner.total > CacheTarget

\* Removing a file shortens the sequence by one at most, and touching one does not.
LEMMA WithoutLength ==
    ASSUME disk \in Seq(Tracks), NEW t \in Tracks
    PROVE  Len(DiskWithout(t)) \in Nat /\ Len(DiskWithout(t)) >= Len(disk) - 1
<1>1. CASE Cached(t)
  <2>1. PICK k \in 1 .. Len(disk) : disk[k] = t
    BY <1>1 DEF Cached, Contains
  <2> DEFINE j == CHOOSE i \in 1 .. Len(disk) : disk[i] = t
  <2>2. j \in 1 .. Len(disk)
    BY <2>1
  <2>3. DiskWithout(t) = RemoveAt(disk, j)
    BY <1>1 DEF DiskWithout
  <2> HIDE DEF j
  <2>4. Len(RemoveAt(disk, j)) = Len(disk) - 1
    <3>1. Len(disk) \in Nat /\ \A i \in 1 .. Len(disk) : disk[i] \in Tracks
      BY LenProperties
    <3>2. SubSeq(disk, 1, j - 1) \in Seq(Tracks) /\ Len(SubSeq(disk, 1, j - 1)) = j - 1
      BY <2>2, <3>1, SubSeqProperties
    <3>3. /\ SubSeq(disk, j + 1, Len(disk)) \in Seq(Tracks)
          /\ Len(SubSeq(disk, j + 1, Len(disk))) = Len(disk) - j
      BY <2>2, <3>1, SubSeqProperties
    <3>4. Len(SubSeq(disk, 1, j - 1) \o SubSeq(disk, j + 1, Len(disk))) = (j - 1) + (Len(disk) - j)
      BY <3>2, <3>3, ConcatProperties
    <3>5. RemoveAt(disk, j) = SubSeq(disk, 1, j - 1) \o SubSeq(disk, j + 1, Len(disk))
      BY DEF RemoveAt
    <3>6. j \in Int /\ Len(disk) \in Int
      BY <2>2, <3>1
    <3>7. Len(RemoveAt(disk, j)) = (j - 1) + (Len(disk) - j)
      BY <3>4, <3>5
    <3>8. (j - 1) + (Len(disk) - j) = Len(disk) - 1
      BY <3>6
    <3> QED BY <3>7, <3>8
  <2> QED BY <2>2, <2>3, <2>4, LenProperties
<1>2. CASE ~Cached(t)
  BY <1>2, LenProperties DEF DiskWithout
<1> QED BY <1>1, <1>2

LEMMA TouchedLength ==
    ASSUME disk \in Seq(Tracks), NEW t \in Tracks
    PROVE  Len(Touched(t)) \in Nat /\ Len(Touched(t)) >= Len(disk)
<1>1. Len(disk) \in Nat
  BY LenProperties
<1>2. Len(Touched(t)) = Len(DiskWithout(t)) + 1
  BY WithoutIsSeq, AppendProperties DEF Touched
<1> QED BY <1>1, <1>2, WithoutLength

\* The cache keeps its files, or gains one.
LEMMA CacheInvKept ==
    ASSUME TypeOK, CacheInv, disk' \in Seq(Tracks), Len(disk') >= Len(disk),
           cleaner'.pc # "idle" => /\ cleaner.pc # "idle" /\ cleaner'.total = cleaner.total
                                   /\ cleaner'.pc \in {"current", "repair", "remove"}
                                      => cleaner.pc \in {"current", "repair", "remove"}
    PROVE  CacheInv'
<1>1. /\ Len(disk) \in Nat /\ Len(disk') \in Nat /\ FileBytes \in Nat
      /\ cleaner.total \in Int /\ CacheTarget \in Int
  BY SizeAssumption, LenProperties DEF TypeOK, CleanerState, CacheTarget
<1>2. FileBytes * Len(disk') >= FileBytes * Len(disk)
  BY <1>1
<1>3. CASE cleaner'.pc # "idle"
  <2>1. cleaner'.total <= FileBytes * Len(disk')
    BY <1>1, <1>2, <1>3 DEF CacheInv
  <2> QED BY <2>1, <1>3 DEF CacheInv, CacheTarget
<1>4. CASE cleaner'.pc = "idle"
  BY <1>4 DEF CacheInv
<1> QED BY <1>3, <1>4

LEMMA CacheInvInductive ==
    ASSUME TypeOK, CacheInv, [Next]_vars
    PROVE  CacheInv'
<1>0. disk \in Seq(Tracks) /\ Len(disk) \in Nat
  BY LenProperties DEF TypeOK
<1>1. CASE UNCHANGED <<disk, cleaner>>
  BY <1>1, <1>0, CacheInvKept
<1>2. ASSUME NEW t \in Tracks, disk' = Touched(t), UNCHANGED cleaner
      PROVE  CacheInv'
  BY <1>0, <1>2, TouchedIsSeq, TouchedLength, CacheInvKept
<1>3. ASSUME NEW w \in Workers, CacheHit(w) \/ Publish(w) PROVE CacheInv'
  <2>1. TrackAt(w) \in Tracks
    BY <1>3, ItemAssumption DEF CacheHit, Publish, TypeOK, Running, TrackAt
  <2> QED BY <1>2, <1>3, <2>1 DEF CacheHit, Publish
<1>4. ASSUME NEW r \in Rooms, OpenMedia(r) PROVE CacheInv'
  <2>1. TrackOf[player[r].item] \in Tracks
    BY <1>4, ItemAssumption DEF OpenMedia, TypeOK
  <2> QED BY <1>1, <1>2, <1>4, <2>1 DEF OpenMedia
<1>5. ASSUME NEW by, cleaner' = Scan(by), UNCHANGED disk PROVE CacheInv'
  <2>1. cleaner'.pc = "next" /\ cleaner'.total = FileBytes * Len(disk)
    BY <1>5 DEF Scan
  <2>2. FileBytes * Len(disk) \in Int
    BY <1>0, SizeAssumption
  <2> QED BY <1>5, <2>1, <2>2 DEF CacheInv
<1>6. ASSUME cleaner' = IdleCleaner PROVE CacheInv'
  BY <1>6 DEF CacheInv, IdleCleaner
<1>7. ASSUME NEW w \in Workers, StartCleanup(w) PROVE CacheInv'
  BY <1>1, <1>5, <1>7 DEF StartCleanup
<1>8. CASE BackgroundCleanup
  BY <1>5, <1>6, <1>8 DEF BackgroundCleanup
<1>9. cleaner \in CleanerState
  BY DEF TypeOK
<1>10. CASE CleanerNext
  <2>1. CASE cleaner.todo = <<>> \/ cleaner.total <= CacheTarget
    BY <1>6, <1>10, <2>1 DEF CleanerNext
  <2>2. CASE ~(cleaner.todo = <<>> \/ cleaner.total <= CacheTarget)
    <3>1. cleaner.total \in Int /\ CacheTarget \in Int
      BY <1>9, SizeAssumption DEF CleanerState, CacheTarget
    <3>2. cleaner.pc = "next" /\ cleaner.total > CacheTarget /\ UNCHANGED disk
      BY <1>10, <2>2, <3>1 DEF CleanerNext
    <3>3. cleaner'.total = cleaner.total
      BY <1>9, <1>10, <2>2 DEF CleanerNext, Skipped, CleanerState
    <3> QED BY <3>2, <3>3 DEF CacheInv, CacheTarget
  <2> QED BY <2>1, <2>2
<1>11. CASE CleanerCurrent \/ CleanerRepair
  <2>1. cleaner.pc \in {"current", "repair"} /\ UNCHANGED disk
    BY <1>11 DEF CleanerCurrent, CleanerRepair
  <2>2. cleaner'.total = cleaner.total
    BY <1>9, <1>11 DEF CleanerCurrent, CleanerRepair, Skipped, CleanerState
  <2> QED BY <1>0, <2>1, <2>2, CacheInvKept
<1>12. CASE CleanerRemove
  <2>1. /\ cleaner.pc = "remove" /\ disk' = DiskWithout(Head(cleaner.todo))
        /\ cleaner' = [Skipped EXCEPT !.total = Skipped.total - FileBytes, !.rooms = {}]
    BY <1>12 DEF CleanerRemove
  <2>2. Head(cleaner.todo) \in Tracks /\ cleaner.todo # <<>>
    BY <1>9, <2>1, HeadTailProperties DEF TypeOK, CleanerState
  <2>3. Skipped \in CleanerState /\ Skipped.pc = "next" /\ Skipped.total = cleaner.total
    <3>1. CleanerOK
      BY DEF TypeOK, CleanerOK
    <3> QED BY <1>9, <2>2, <3>1, SkippedType DEF Skipped, CleanerState
  <2>4. cleaner'.pc = "next" /\ cleaner'.total = cleaner.total - FileBytes
    BY <2>1, <2>3 DEF CleanerState
  <2>5. Len(disk') \in Nat /\ Len(disk') >= Len(disk) - 1
    BY <1>0, <2>1, <2>2, WithoutLength
  <2>6. FileBytes * Len(disk) - FileBytes <= FileBytes * Len(disk')
    <3>1. FileBytes \in Nat
      BY SizeAssumption
    <3>2. FileBytes * (Len(disk) - 1) = FileBytes * Len(disk) - FileBytes
      BY <1>0, <3>1
    <3>3. FileBytes * (Len(disk) - 1) <= FileBytes * Len(disk')
      BY <1>0, <2>5, <3>1
    <3> QED BY <3>2, <3>3
  <2>7. cleaner.total <= FileBytes * Len(disk)
    BY <2>1 DEF CacheInv
  <2>8. cleaner'.total <= FileBytes * Len(disk')
    <3>1. /\ cleaner.total \in Int /\ FileBytes \in Int /\ FileBytes * Len(disk) \in Int
          /\ FileBytes * Len(disk') \in Int
      BY <1>0, <1>9, <2>5, SizeAssumption DEF CleanerState
    <3> QED BY <2>4, <2>6, <2>7, <3>1
  <2> QED BY <2>4, <2>8 DEF CacheInv
<1>13. CASE Restart
  BY <1>6, <1>13 DEF Restart
<1>14. ASSUME NEW w \in Workers,
              PumpReserve(w) \/ LoadItem(w) \/ CacheMiss(w) \/ TranscodeFail(w) \/ MarkPlayable(w)
                \/ RecordReady(w) \/ RecordFailure(w) \/ RetireStream(w) \/ ReturnToPending(w)
       PROVE  UNCHANGED <<disk, cleaner>>
  BY <1>14 DEF PumpReserve, LoadItem, CacheMiss, TranscodeFail, MarkPlayable, RecordReady,
               RecordFailure, RetireStream, ReturnToPending
<1>15. ASSUME NEW r \in Rooms, \/ PumpRead(r) \/ PumpFail(r) \/ PressPlay(r) \/ Choose(r) \/ PersistCurrent(r)
                               \/ SkipUnopened(r) \/ FinishTrack(r)
       PROVE  UNCHANGED <<disk, cleaner>>
  BY <1>15 DEF PumpRead, PumpFail, PressPlay, Choose, PersistCurrent, SkipUnopened, FinishTrack
<1>16. ASSUME NEW i \in Items, RemoveItem(i) PROVE UNCHANGED <<disk, cleaner>>
  BY <1>16 DEF RemoveItem
<1>17. CASE UNCHANGED vars
  BY <1>1, <1>17 DEF vars
<1> QED
  BY <1>1, <1>3, <1>4, <1>7, <1>8, <1>10, <1>11, <1>12, <1>13, <1>14, <1>15, <1>16, <1>17,
     ItemAssumption DEF Next, ProcessStep, CleanerStep, PlayerStep

\* The readers of a track, when one room's player goes on.
LEMMA ReadersChange ==
    ASSUME TypeOK, NEW r \in Rooms, NEW next \in PlayerState, player' = [player EXCEPT ![r] = next]
    PROVE  /\ next.pc = "open" => \A t \in Tracks :
                 Readers(t)' = IF TrackOf[next.item] = t THEN Readers(t) \cup {r} ELSE Readers(t) \ {r}
           /\ next.pc # "open" => \A t \in Tracks : Readers(t)' = Readers(t) \ {r}
  BY DEF TypeOK, Readers, Reading

LEMMA LeaseInvInductive ==
    ASSUME TypeOK, LeaseInv, [Next]_vars
    PROVE  LeaseInv'
<1>1. CASE UNCHANGED <<lease, player>>
  BY <1>1 DEF LeaseInv, Readers, Reading
<1>2. ASSUME NEW r \in Rooms, NEW next \in PlayerState, player' = [player EXCEPT ![r] = next],
             player[r].pc # "open", next.pc # "open", UNCHANGED lease
      PROVE  LeaseInv'
  <2>1. \A t \in Tracks : Readers(t)' = Readers(t)
    BY <1>2, ReadersChange DEF Readers, Reading
  <2> QED BY <1>2, <2>1 DEF LeaseInv
<1>3. ASSUME NEW r \in Rooms, Choose(r) PROVE LeaseInv'
  <2>1. PICK next \in NextItem(r) \cup {Chosen(i) : i \in Items} : player' = [player EXCEPT ![r] = next]
    BY <1>3 DEF Choose, PlayableIn, QueueOf
  <2>2. next \in PlayerState /\ next.pc = "chosen"
    BY NextItemType, ChosenType
  <2> QED BY <1>2, <1>3, <2>1, <2>2 DEF Choose
<1>4. ASSUME NEW r \in Rooms, PersistCurrent(r) PROVE LeaseInv'
  <2> DEFINE next == [player[r] EXCEPT !.pc = IF player[r].item = NoItem THEN "idle" ELSE "selected"]
  <2>1. next \in PlayerState /\ next.pc # "open" /\ player' = [player EXCEPT ![r] = next]
    BY <1>4 DEF PersistCurrent, TypeOK, PlayerState
  <2> QED BY <1>2, <1>4, <2>1 DEF PersistCurrent
<1>5. ASSUME NEW r \in Rooms, SkipUnopened(r) PROVE LeaseInv'
  <2>1. PICK next \in NextItem(r) : player' = [player EXCEPT ![r] = next]
    BY <1>5 DEF SkipUnopened
  <2> QED BY <1>2, <1>5, <2>1, NextItemType DEF SkipUnopened
<1>6. ASSUME NEW r \in Rooms, OpenMedia(r) PROVE LeaseInv'
  <2> DEFINE t0 == TrackOf[player[r].item]
             next == [player[r] EXCEPT !.pc = "open"]
  <2>1. /\ player[r].pc = "selected" /\ t0 \in Tracks
        /\ lease' = [lease EXCEPT ![t0] = lease[t0] + 1]
        /\ player' = [player EXCEPT ![r] = next]
    BY <1>6, ItemAssumption DEF OpenMedia, TypeOK
  <2>2. next \in PlayerState /\ next.pc = "open" /\ TrackOf[next.item] = t0
    <3>1. player[r] \in PlayerState
      BY DEF TypeOK
    <3> QED BY <3>1 DEF PlayerState
  <2>3. \A t \in Tracks : r \notin Readers(t)
    BY <2>1 DEF Readers, Reading
  <2>4. \A t \in Tracks : Readers(t)' = IF t = t0 THEN Readers(t) \cup {r} ELSE Readers(t)
    <3> HIDE DEF next
    <3>0. \A t \in Tracks :
             Readers(t)' = IF TrackOf[next.item] = t THEN Readers(t) \cup {r} ELSE Readers(t) \ {r}
      <4>1. next \in PlayerState /\ next.pc = "open" /\ player' = [player EXCEPT ![r] = next]
        BY <2>1, <2>2
      <4> QED BY <4>1, ReadersChange
    <3>1. \A t \in Tracks :
             Readers(t)' = IF t0 = t THEN Readers(t) \cup {r} ELSE Readers(t) \ {r}
      BY <2>2, <3>0
    <3> QED BY <2>3, <3>1
  <2>5. \A t \in Tracks : lease'[t] = IF t = t0 THEN lease[t] + 1 ELSE lease[t]
    BY <2>1 DEF TypeOK
  <2> SUFFICES ASSUME NEW t \in Tracks
               PROVE  (IsFiniteSet(Readers(t)) /\ lease[t] = Cardinality(Readers(t)))'
    BY DEF LeaseInv
  <2>6. IsFiniteSet(Readers(t)) /\ lease[t] = Cardinality(Readers(t))
    BY DEF LeaseInv
  <2>7. CASE t = t0
    <3>1. /\ IsFiniteSet(Readers(t) \cup {r})
          /\ Cardinality(Readers(t) \cup {r}) = Cardinality(Readers(t)) + 1
      BY <2>3, <2>6, FS_AddElement
    <3> QED BY <2>4, <2>5, <2>6, <2>7, <3>1
  <2>8. CASE t # t0
    BY <2>4, <2>5, <2>6, <2>8
  <2> QED BY <2>7, <2>8
<1>7. ASSUME NEW r \in Rooms, FinishTrack(r) PROVE LeaseInv'
  <2> DEFINE t0 == TrackOf[player[r].item]
  <2>1. PICK next \in NextItem(r) \cup {[player[r] EXCEPT !.pc = "chosen"]} :
            player' = [player EXCEPT ![r] = next]
    BY <1>7 DEF FinishTrack
  <2>2. next \in PlayerState /\ next.pc # "open"
    <3>0. player[r] \in PlayerState
      BY DEF TypeOK
    <3>1. [player[r] EXCEPT !.pc = "chosen"] \in PlayerState /\ [player[r] EXCEPT !.pc = "chosen"].pc = "chosen"
      BY <3>0 DEF PlayerState
    <3> QED BY <3>1, NextItemType
  <2>3. player[r].pc = "open" /\ t0 \in Tracks /\ lease' = Released(t0)
    BY <1>7, ItemAssumption DEF FinishTrack, TypeOK
  <2>4. \A t \in Tracks : r \in Readers(t) <=> t = t0
    BY <2>3 DEF Readers, Reading
  <2>5. \A t \in Tracks : Readers(t)' = Readers(t) \ {r}
    BY <2>1, <2>2, ReadersChange
  <2>6. \A t \in Tracks : lease'[t] = IF t # t0 THEN lease[t]
                                      ELSE IF lease[t] <= 1 THEN 0 ELSE lease[t] - 1
    BY <2>3 DEF Released, TypeOK
  <2> SUFFICES ASSUME NEW t \in Tracks
               PROVE  (IsFiniteSet(Readers(t)) /\ lease[t] = Cardinality(Readers(t)))'
    BY DEF LeaseInv
  <2>7. IsFiniteSet(Readers(t)) /\ lease[t] = Cardinality(Readers(t))
    BY DEF LeaseInv
  <2>8. CASE t = t0
    <3>1. /\ IsFiniteSet(Readers(t) \ {r})
          /\ Cardinality(Readers(t) \ {r}) = Cardinality(Readers(t)) - 1
      BY <2>4, <2>7, <2>8, FS_RemoveElement
    <3>2. Cardinality(Readers(t)) \in Nat /\ Cardinality(Readers(t) \ {r}) \in Nat
      BY <2>7, <3>1, FS_CardinalityType
    <3>3. lease'[t] = lease[t] - 1
      BY <2>6, <2>7, <2>8, <3>1, <3>2
    <3>4. Readers(t)' = Readers(t) \ {r}
      BY <2>5
    <3> QED BY <2>7, <3>1, <3>3, <3>4
  <2>9. CASE t # t0
    <3>1. Readers(t)' = Readers(t)
      BY <2>4, <2>5, <2>9
    <3> QED BY <2>6, <2>7, <2>9, <3>1
  <2> QED BY <2>8, <2>9
<1>8. CASE Restart
  <2>1. \A t \in Tracks : lease'[t] = 0 /\ Readers(t)' = {}
    BY <1>8 DEF Restart, Readers, Reading, IdlePlayer
  <2> QED BY <2>1, FS_EmptySet DEF LeaseInv
<1>9. ASSUME NEW w \in Workers, PumpReserve(w) \/ ProcessStep(w) \/ MarkPlayable(w)
      PROVE  UNCHANGED <<lease, player>>
  BY <1>9 DEF PumpReserve, ProcessStep, LoadItem, CacheHit, CacheMiss, TranscodeFail, Publish, MarkPlayable,
              RecordReady, RecordFailure, RetireStream, ReturnToPending, StartCleanup
<1>10. ASSUME NEW r \in Rooms, PumpRead(r) \/ PumpFail(r) \/ PressPlay(r) PROVE UNCHANGED <<lease, player>>
  BY <1>10 DEF PumpRead, PumpFail, PressPlay
<1>11. ASSUME NEW i \in Items, RemoveItem(i) PROVE UNCHANGED <<lease, player>>
  BY <1>11 DEF RemoveItem
<1>12. CASE BackgroundCleanup \/ CleanerStep
  BY <1>1, <1>12 DEF BackgroundCleanup, CleanerStep, CleanerNext, CleanerCurrent, CleanerRepair, CleanerRemove
<1>13. CASE UNCHANGED vars
  BY <1>1, <1>13 DEF vars
<1> QED
  BY <1>1, <1>3, <1>4, <1>5, <1>6, <1>7, <1>8, <1>9, <1>10, <1>11, <1>12, <1>13, ItemAssumption
     DEF Next, PlayerStep

\* The release function of a lease gives back exactly the caller's: cacheLeases counts the players
\* that have the file open.  And a file is removed only while the cache is over its
\* target (cleanupBroadcastCache), although the cleaner's total is from its scan.
THEOREM EvictionIsLawful == Spec => []EvictsOnlyWhatItMay
<1>1. Init => LeaseInv /\ CacheInv
  <2> SUFFICES ASSUME Init PROVE LeaseInv /\ CacheInv
    OBVIOUS
  <2>1. \A t \in Tracks : Readers(t) = {} /\ lease[t] = 0
    BY DEF Init, Readers, Reading, IdlePlayer
  <2>2. cleaner.pc = "idle"
    BY DEF Init, IdleCleaner
  <2> QED BY <2>1, <2>2, FS_EmptySet DEF LeaseInv, CacheInv
<1>2. TypeOK /\ LeaseInv /\ CacheInv => EvictsOnlyWhatItMay
  <2> SUFFICES ASSUME TypeOK, LeaseInv, CacheInv PROVE EvictsOnlyWhatItMay
    OBVIOUS
  <2>1. LeasesCountReaders
    BY DEF LeaseInv, Readers, LeasesCountReaders
  <2>2. cleaner.total \in Int /\ CacheTarget \in Int /\ FileBytes * Len(disk) \in Int
    BY SizeAssumption, LenProperties DEF TypeOK, CleanerState, CacheTarget
  <2>3. EvictsOnlyAboveTarget
    BY <2>2 DEF CacheInv, EvictsOnlyAboveTarget
  <2> QED BY <2>1, <2>3 DEF EvictsOnlyWhatItMay
<1> QED BY <1>1, <1>2, LeaseInvInductive, CacheInvInductive, TypeCorrect, PTL DEF Spec
=============================================================================
