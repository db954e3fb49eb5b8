-------------------------- MODULE LiveRosterProofs --------------------------
(***************************************************************************)
(* The safety properties of LiveRoster hold for every set of users, every  *)
(* number of sessions and events, every fault and every use of Patch.      *)
(***************************************************************************)
EXTENDS LiveRoster, SequenceTheorems, TLAPS

(* Webhooks are taken out of the middle of the queue. *)

\* What is left of a sequence when an element is taken out, the way Without does
\* it to hooks: a sequence, and of elements of the first one only.
LEMMA RemovedElement ==
    ASSUME NEW S, NEW s \in Seq(S), NEW k \in 1 .. Len(s)
    PROVE  LET r == SubSeq(s, 1, k - 1) \o SubSeq(s, k + 1, Len(s))
           IN  /\ r \in Seq(S)
               /\ \A i \in 1 .. Len(r) : \E j \in 1 .. Len(s) : r[i] = s[j]
<1> DEFINE p == SubSeq(s, 1, k - 1)
           q == SubSeq(s, k + 1, Len(s))
<1>1. /\ Len(s) \in Nat /\ k \in Int /\ 1 <= k /\ k <= Len(s)
      /\ \A j \in 1 .. Len(s) : s[j] \in S
  OBVIOUS
<1>2. /\ p \in Seq(S) /\ Len(p) = k - 1
      /\ \A i \in 1 .. k - 1 : p[i] = s[i]
  BY <1>1, SubSeqProperties
<1>3. /\ q \in Seq(S) /\ Len(q) = Len(s) - k
      /\ \A i \in 1 .. Len(s) - k : q[i] = s[k + i]
  <2>1. \A j \in k + 1 .. Len(s) : s[j] \in S
    BY <1>1
  <2>2. /\ q \in Seq(S) /\ Len(q) = IF k + 1 <= Len(s) THEN Len(s) - (k + 1) + 1 ELSE 0
        /\ \A i \in 1 .. Len(s) - (k + 1) + 1 : q[i] = s[k + 1 + i - 1]
    <3> HIDE DEF q
    <3> QED BY <1>1, <2>1, SubSeqProperties DEF q
  <2> HIDE DEF q
  <2> QED BY <1>1, <2>2
<1> HIDE DEF p, q
<1>4. /\ p \o q \in Seq(S) /\ Len(p \o q) = Len(s) - 1
      /\ \A i \in 1 .. Len(s) - 1 :
            (p \o q)[i] = IF i <= k - 1 THEN p[i] ELSE q[i - (k - 1)]
  BY <1>1, <1>2, <1>3, ConcatProperties
<1>5. ASSUME NEW i \in 1 .. Len(p \o q) PROVE \E j \in 1 .. Len(s) : (p \o q)[i] = s[j]
  <2>1. CASE i <= k - 1
    <3>1. i \in 1 .. k - 1 /\ i \in 1 .. Len(s) /\ i \in 1 .. Len(s) - 1
      BY <1>1, <1>4, <2>1
    <3> QED BY <1>2, <1>4, <2>1, <3>1
  <2>2. CASE ~(i <= k - 1)
    <3>1. /\ i - (k - 1) \in 1 .. Len(s) - k /\ i + 1 \in 1 .. Len(s)
          /\ i \in 1 .. Len(s) - 1 /\ k + (i - (k - 1)) = i + 1
      BY <1>1, <1>4, <2>2
    <3>2. (p \o q)[i] = q[i - (k - 1)]
      BY <1>4, <2>2, <3>1
    <3>3. q[i - (k - 1)] = s[i + 1]
      BY <1>3, <3>1
    <3> QED BY <3>1, <3>2, <3>3
  <2> QED BY <2>1, <2>2
<1> QED BY <1>4, <1>5 DEF p, q

(* The invariant. *)

\* A participant_left under way is about a session that was reported lost.
LeftHooksOfLostSessions ==
    \A j \in 1 .. Len(hooks) :
        hooks[j].kind = "participant_left" => hooks[j].session \in lost[hooks[j].user]

\* While the sweep runs, no row written since it listed is past its grace period.
WrittenRowsAreFresh == sweep.pc # "idle" => touched \cap old = {}

IInv ==
    /\ TypeOK
    /\ ReconnectingLostItsSession
    /\ LeftHooksOfLostSessions
    /\ WrittenRowsAreFresh

\* Taking a webhook out of the queue keeps what is known of webhooks.
LEMMA HooksWithout ==
    ASSUME hooks \in Seq(Hook), LeftHooksOfLostSessions,
           NEW k \in 1 .. Len(hooks), hooks' = Without(k),
           \A u \in Users : lost[u] \subseteq lost'[u]
    PROVE  hooks' \in Seq(Hook) /\ LeftHooksOfLostSessions'
<1>1. /\ hooks' \in Seq(Hook)
      /\ \A i \in 1 .. Len(hooks') : \E j \in 1 .. Len(hooks) : hooks'[i] = hooks[j]
  BY RemovedElement DEF Without
<1>2. ASSUME NEW i \in 1 .. Len(hooks'), hooks'[i].kind = "participant_left"
      PROVE  hooks'[i].session \in lost'[hooks'[i].user]
  <2>1. PICK j \in 1 .. Len(hooks) : hooks'[i] = hooks[j]
    BY <1>1
  <2>2. hooks[j] \in Hook
    OBVIOUS
  <2>3. hooks[j].user \in Users
    BY <2>1, <2>2, <1>2 DEF Hook
  <2> QED BY <1>2, <2>1, <2>3 DEF LeftHooksOfLostSessions
<1> QED BY <1>1, <1>2 DEF LeftHooksOfLostSessions

\* Sending one keeps it, if what it says was lost is.
LEMMA HooksAppend ==
    ASSUME hooks \in Seq(Hook), LeftHooksOfLostSessions,
           NEW h \in Hook, hooks' = Append(hooks, h),
           \A u \in Users : lost[u] \subseteq lost'[u],
           h.kind = "participant_left" => h.session \in lost'[h.user]
    PROVE  hooks' \in Seq(Hook) /\ LeftHooksOfLostSessions'
<1>1. /\ hooks' \in Seq(Hook) /\ Len(hooks') = Len(hooks) + 1
      /\ \A i \in 1 .. Len(hooks) : hooks'[i] = hooks[i]
      /\ hooks'[Len(hooks) + 1] = h
  BY AppendProperties
<1>2. ASSUME NEW i \in 1 .. Len(hooks'), hooks'[i].kind = "participant_left"
      PROVE  hooks'[i].session \in lost'[hooks'[i].user]
  <2>1. CASE i \in 1 .. Len(hooks)
    <3>1. hooks[i] \in Hook /\ hooks'[i] = hooks[i]
      BY <1>1, <2>1
    <3>2. hooks[i].user \in Users
      BY <3>1, <1>2 DEF Hook
    <3> QED BY <1>2, <2>1, <3>1, <3>2 DEF LeftHooksOfLostSessions
  <2>2. CASE i = Len(hooks) + 1
    BY <1>1, <1>2, <2>2
  <2> QED BY <1>1, <2>1, <2>2
<1> QED BY <1>1, <1>2 DEF LeftHooksOfLostSessions

\* And nothing else touches them.
LEMMA HooksKept ==
    ASSUME hooks \in Seq(Hook), LeftHooksOfLostSessions,
           hooks' = hooks, \A u \in Users : lost[u] \subseteq lost'[u]
    PROVE  hooks' \in Seq(Hook) /\ LeftHooksOfLostSessions'
<1>1. ASSUME NEW i \in 1 .. Len(hooks), hooks[i].kind = "participant_left"
      PROVE  hooks[i].session \in lost'[hooks[i].user]
  <2>1. hooks[i] \in Hook
    OBVIOUS
  <2>2. hooks[i].user \in Users
    BY <1>1, <2>1 DEF Hook
  <2> QED BY <1>1, <2>2 DEF LeftHooksOfLostSessions
<1> QED BY <1>1 DEF LeftHooksOfLostSessions

\* The initial states satisfy the invariant.
LEMMA Start == Init => IInv
<1> SUFFICES ASSUME Init PROVE IInv
  OBVIOUS
<1>1. TypeOK
  <2>1. row \in [Users -> Row] /\ \A u \in Users : row[u].state = "absent" /\ row[u].session = 0
    BY DEF Init, Absent, Row, State
  <2>2. sweep \in [pc : {"idle", "listed", "asked"}, rows : SUBSET Listed,
                   active : SUBSET Users]
    BY DEF Init, Idle
  <2>3. hooks \in Seq(Hook)
    BY DEF Init
  <2>4. lost \in [Users -> SUBSET Sessions] /\ conn \in [Users -> Sessions \cup {0}]
    BY DEF Init
  <2>5. /\ joined \in [Users -> 0 .. MaxSessions]
        /\ \A u \in Users : row[u].session <= joined[u] /\ conn[u] <= joined[u]
    BY <2>1, RosterAssumption DEF Init
  <2>6. open \in BOOLEAN
    BY DEF Init
  <2>7. kicks \subseteq Users /\ old \subseteq Users
        /\ touched \subseteq Users /\ events \in 0 .. MaxEvents
    BY RosterAssumption DEF Init
  <2> QED BY <2>1, <2>2, <2>3, <2>4, <2>5, <2>6, <2>7 DEF TypeOK
<1>2. ReconnectingLostItsSession
  BY DEF Init, ReconnectingLostItsSession, Absent
<1>3. LeftHooksOfLostSessions /\ WrittenRowsAreFresh
  BY DEF Init, LeftHooksOfLostSessions, WrittenRowsAreFresh, Idle
<1> QED BY <1>1, <1>2, <1>3 DEF IInv

\* A row that ages (Age) preserves the invariant.
LEMMA AgeStep ==
    ASSUME IInv, NEW u \in Users, Age(u)
    PROVE  IInv'
<1> USE DEF IInv
<1>1. \A w \in Users : lost[w] \subseteq lost'[w]
  BY DEF TypeOK, Age
<1>2. hooks' \in Seq(Hook) /\ LeftHooksOfLostSessions'
  BY <1>1, HooksKept DEF TypeOK, Age
<1>3. TypeOK'
  BY <1>2, RosterAssumption
     DEF TypeOK, Row, State, Transitional, Sessions, Absent, Idle, Age
<1>4. ReconnectingLostItsSession'
  BY DEF TypeOK, ReconnectingLostItsSession, Absent, State, Transitional, Sessions,
         Age
<1>5. WrittenRowsAreFresh'
  BY DEF TypeOK, WrittenRowsAreFresh, Idle, Age
<1> QED BY <1>2, <1>3, <1>4, <1>5

\* A join (joinLive) preserves it.
LEMMA JoinStep ==
    ASSUME IInv, NEW u \in Users, NEW s \in Sessions, Join(u, s)
    PROVE  IInv'
<1> USE DEF IInv
<1>1. \A w \in Users : lost[w] \subseteq lost'[w]
  BY DEF TypeOK, Join, Event, Write
<1>2. hooks' \in Seq(Hook) /\ LeftHooksOfLostSessions'
  BY <1>1, HooksKept DEF TypeOK, Join, Write
<1>3. TypeOK'
  BY <1>2, RosterAssumption
     DEF TypeOK, Row, State, Transitional, Sessions, Absent, Idle, Join, Event,
         Write
<1>4. ReconnectingLostItsSession'
  BY DEF TypeOK, ReconnectingLostItsSession, Absent, State, Transitional, Sessions,
         Join, Event, Write
<1>5. WrittenRowsAreFresh'
  BY DEF TypeOK, WrittenRowsAreFresh, Idle, Join, Event, Write
<1> QED BY <1>2, <1>3, <1>4, <1>5

\* An update of one's own row (updateMyLiveState) preserves it.
LEMMA PatchStep ==
    ASSUME IInv, NEW u \in Users, NEW state \in State, Patch(u, state)
    PROVE  IInv'
<1> USE DEF IInv
<1>1. \A w \in Users : lost[w] \subseteq lost'[w]
  BY DEF TypeOK, Patch, Event, Write
<1>2. hooks' \in Seq(Hook) /\ LeftHooksOfLostSessions'
  BY <1>1, HooksKept DEF TypeOK, Patch, Write
<1>3. TypeOK'
  BY <1>2, RosterAssumption
     DEF TypeOK, Row, State, Transitional, Sessions, Absent, Idle, Patch, Event,
         Write
<1>4. ReconnectingLostItsSession'
  BY DEF TypeOK, ReconnectingLostItsSession, Absent, State, Transitional, Sessions,
         Patch, Event, Write
<1>5. WrittenRowsAreFresh'
  BY DEF TypeOK, WrittenRowsAreFresh, Idle, Patch, Event, Write
<1> QED BY <1>2, <1>3, <1>4, <1>5

\* Leaving the room (leaveRoom) preserves it.
LEMMA LeaveRoomStep ==
    ASSUME IInv, NEW u \in Users, LeaveRoom(u)
    PROVE  IInv'
<1> USE DEF IInv
<1>1. \A w \in Users : lost[w] \subseteq lost'[w]
  BY DEF TypeOK, LeaveRoom, Event, Delete
<1>2. hooks' \in Seq(Hook) /\ LeftHooksOfLostSessions'
  BY <1>1, HooksKept DEF TypeOK, LeaveRoom, Delete
<1>3. TypeOK'
  BY <1>2, RosterAssumption
     DEF TypeOK, Row, State, Transitional, Sessions, Absent, Idle, LeaveRoom,
         Event, Delete
<1>4. ReconnectingLostItsSession'
  BY DEF TypeOK, ReconnectingLostItsSession, Absent, State, Transitional, Sessions,
         LeaveRoom, Event, Delete
<1>5. WrittenRowsAreFresh'
  BY DEF TypeOK, WrittenRowsAreFresh, Idle, LeaveRoom, Event, Delete
<1> QED BY <1>2, <1>3, <1>4, <1>5

\* The removal of a kicked participant at LiveKit preserves it.
LEMMA KickRemoveStep ==
    ASSUME IInv, NEW u \in Users, KickRemove(u)
    PROVE  IInv'
<1> USE DEF IInv
<1>1. \A w \in Users : lost[w] \subseteq lost'[w]
  BY DEF TypeOK, KickRemove, Event, KeepRows, Ended
<1>2. hooks' \in Seq(Hook) /\ LeftHooksOfLostSessions'
  <2>1. LeftHook(u) \in Hook /\ LeftHook(u).kind = "participant_left"
        /\ LeftHook(u).session \in lost'[LeftHook(u).user]
    BY DEF LeftHook, Hook, TypeOK, Sessions, KickRemove, Ended
  <2> QED BY <1>1, <2>1, HooksAppend DEF TypeOK, KickRemove
<1>3. TypeOK'
  BY <1>2, RosterAssumption
     DEF TypeOK, Row, State, Transitional, Sessions, Absent, Idle, KickRemove,
         Event, KeepRows, Ended
<1>4. ReconnectingLostItsSession'
  BY DEF TypeOK, ReconnectingLostItsSession, Absent, State, Transitional, Sessions,
         KickRemove, Event, KeepRows, Ended
<1>5. WrittenRowsAreFresh'
  BY DEF TypeOK, WrittenRowsAreFresh, Idle, KickRemove, Event, KeepRows, Ended
<1> QED BY <1>2, <1>3, <1>4, <1>5

\* The deletion of the row of a kicked participant preserves it.
LEMMA KickDeleteStep ==
    ASSUME IInv, NEW u \in Users, KickDelete(u)
    PROVE  IInv'
<1> USE DEF IInv
<1>1. \A w \in Users : lost[w] \subseteq lost'[w]
  BY DEF TypeOK, KickDelete, Delete
<1>2. hooks' \in Seq(Hook) /\ LeftHooksOfLostSessions'
  BY <1>1, HooksKept DEF TypeOK, KickDelete, Delete
<1>3. TypeOK'
  BY <1>2, RosterAssumption
     DEF TypeOK, Row, State, Transitional, Sessions, Absent, Idle, KickDelete,
         Delete
<1>4. ReconnectingLostItsSession'
  BY DEF TypeOK, ReconnectingLostItsSession, Absent, State, Transitional, Sessions,
         KickDelete, Delete
<1>5. WrittenRowsAreFresh'
  BY DEF TypeOK, WrittenRowsAreFresh, Idle, KickDelete, Delete
<1> QED BY <1>2, <1>3, <1>4, <1>5

\* The end of a LiveKit connection preserves it.
LEMMA DisconnectStep ==
    ASSUME IInv, NEW u \in Users, Disconnect(u)
    PROVE  IInv'
<1> USE DEF IInv
<1>1. \A w \in Users : lost[w] \subseteq lost'[w]
  BY DEF TypeOK, Disconnect, KeepRows, Ended
<1>2. hooks' \in Seq(Hook) /\ LeftHooksOfLostSessions'
  <2>1. LeftHook(u) \in Hook /\ LeftHook(u).kind = "participant_left"
        /\ LeftHook(u).session \in lost'[LeftHook(u).user]
    BY DEF LeftHook, Hook, TypeOK, Sessions, Disconnect, Ended
  <2> QED BY <1>1, <2>1, HooksAppend DEF TypeOK, Disconnect
<1>3. TypeOK'
  BY <1>2, RosterAssumption
     DEF TypeOK, Row, State, Transitional, Sessions, Absent, Idle, Disconnect,
         KeepRows, Ended
<1>4. ReconnectingLostItsSession'
  BY DEF TypeOK, ReconnectingLostItsSession, Absent, State, Transitional, Sessions,
         Disconnect, KeepRows, Ended
<1>5. WrittenRowsAreFresh'
  BY DEF TypeOK, WrittenRowsAreFresh, Idle, Disconnect, KeepRows, Ended
<1> QED BY <1>2, <1>3, <1>4, <1>5

\* A device that connects, replacing another or not, preserves it.
LEMMA ConnectStep ==
    ASSUME IInv, NEW u \in Users, NEW s \in Sessions, Connect(u, s)
    PROVE  IInv'
<1> USE DEF IInv
<1>1. \A w \in Users : lost[w] \subseteq lost'[w]
  BY DEF TypeOK, Connect, Event, KeepRows, Ended
<1>2. hooks' \in Seq(Hook) /\ LeftHooksOfLostSessions'
  <2> DEFINE h == [kind |-> "participant_joined", user |-> u, session |-> s]
  <2>1. h \in Hook /\ h.kind # "participant_left"
    BY DEF Hook
  <2>2. CASE conn[u] = 0
    <3>1. hooks' = Append(hooks, h)
      BY <2>1, <2>2, AppendIsConcat DEF Connect, TypeOK
    <3> HIDE DEF h
    <3> QED BY <1>1, <2>1, <3>1, HooksAppend DEF TypeOK
  <2>3. CASE conn[u] # 0
    <3> DEFINE first == Append(hooks, LeftHook(u))
    <3>1. /\ LeftHook(u) \in Hook
          /\ LeftHook(u).session \in lost'[LeftHook(u).user]
      BY <2>3 DEF LeftHook, Hook, TypeOK, Sessions, Connect, Ended
    <3>2. first \in Seq(Hook) /\ hooks' = Append(first, h)
      BY <2>1, <2>3, <3>1, AppendProperties, AppendIsConcat DEF Connect, TypeOK
    <3>3. /\ Len(first) = Len(hooks) + 1
          /\ \A i \in 1 .. Len(hooks) : first[i] = hooks[i]
          /\ first[Len(hooks) + 1] = LeftHook(u)
      BY <3>1, AppendProperties DEF TypeOK
    <3> HIDE DEF first, h
    <3>4. /\ hooks' \in Seq(Hook) /\ Len(hooks') = Len(hooks) + 2
          /\ \A i \in 1 .. Len(hooks) : hooks'[i] = hooks[i]
          /\ hooks'[Len(hooks) + 1] = LeftHook(u) /\ hooks'[Len(hooks) + 2] = h
      <4>1. /\ hooks' \in Seq(Hook) /\ Len(hooks') = Len(first) + 1
            /\ \A i \in 1 .. Len(first) : hooks'[i] = first[i]
            /\ hooks'[Len(first) + 1] = h
        BY <2>1, <3>2, AppendProperties
      <4>2. Len(hooks) \in Nat
        BY DEF TypeOK
      <4> QED BY <3>3, <4>1, <4>2
    <3>5. ASSUME NEW i \in 1 .. Len(hooks'), hooks'[i].kind = "participant_left"
          PROVE  hooks'[i].session \in lost'[hooks'[i].user]
      <4>1. CASE i \in 1 .. Len(hooks)
        <5>1. hooks[i] \in Hook /\ hooks'[i] = hooks[i]
          BY <3>4, <4>1 DEF TypeOK
        <5>2. hooks[i].user \in Users
          BY <3>5, <5>1 DEF Hook
        <5> QED BY <1>1, <3>5, <4>1, <5>1, <5>2 DEF LeftHooksOfLostSessions
      <4>2. CASE i = Len(hooks) + 1
        BY <3>1, <3>4, <4>2
      <4>3. CASE i = Len(hooks) + 2
        BY <2>1, <3>4, <3>5, <4>3
      <4> QED BY <3>4, <4>1, <4>2, <4>3 DEF TypeOK
    <3> QED BY <3>4, <3>5 DEF LeftHooksOfLostSessions
  <2> QED BY <2>2, <2>3
<1>3. TypeOK'
  BY <1>2, RosterAssumption
     DEF TypeOK, Row, State, Transitional, Sessions, Absent, Idle, Connect, Event,
         KeepRows, Ended
<1>4. ReconnectingLostItsSession'
  BY DEF TypeOK, ReconnectingLostItsSession, Absent, State, Transitional, Sessions,
         Connect, Event, KeepRows, Ended
<1>5. WrittenRowsAreFresh'
  BY DEF TypeOK, WrittenRowsAreFresh, Idle, Connect, Event, KeepRows, Ended
<1> QED BY <1>2, <1>3, <1>4, <1>5

\* LiveKit closing the room preserves it.
LEMMA FinishStep ==
    ASSUME IInv, Finish
    PROVE  IInv'
<1> USE DEF IInv
<1>1. \A w \in Users : lost[w] \subseteq lost'[w]
  BY DEF TypeOK, Finish, KeepRows
<1>2. hooks' \in Seq(Hook) /\ LeftHooksOfLostSessions'
  <2>1. [kind |-> "room_finished"] \in Hook
    BY DEF Hook
  <2> QED BY <1>1, <2>1, HooksAppend DEF TypeOK, Finish
<1>3. TypeOK'
  BY <1>2, RosterAssumption
     DEF TypeOK, Row, State, Transitional, Sessions, Absent, Idle, Finish, KeepRows
<1>4. ReconnectingLostItsSession'
  BY DEF TypeOK, ReconnectingLostItsSession, Absent, State, Transitional, Sessions,
         Finish, KeepRows
<1>5. WrittenRowsAreFresh'
  BY DEF TypeOK, WrittenRowsAreFresh, Idle, Finish, KeepRows
<1> QED BY <1>2, <1>3, <1>4, <1>5

\* The loss of a webhook preserves it.
LEMMA LoseStep ==
    ASSUME IInv, NEW k \in 1 .. Len(hooks), Lose(k)
    PROVE  IInv'
<1> USE DEF IInv
<1>1. \A w \in Users : lost[w] \subseteq lost'[w]
  BY DEF TypeOK, Lose, Event, KeepRows
<1>2. hooks' \in Seq(Hook) /\ LeftHooksOfLostSessions'
  BY <1>1, HooksWithout DEF TypeOK, Lose
<1>3. TypeOK'
  BY <1>2, RosterAssumption
     DEF TypeOK, Row, State, Transitional, Sessions, Absent, Idle, Lose, Event,
         KeepRows
<1>4. ReconnectingLostItsSession'
  BY DEF TypeOK, ReconnectingLostItsSession, Absent, State, Transitional, Sessions,
         Lose, Event, KeepRows
<1>5. WrittenRowsAreFresh'
  BY DEF TypeOK, WrittenRowsAreFresh, Idle, Lose, Event, KeepRows
<1> QED BY <1>2, <1>3, <1>4, <1>5

\* The handler of participant_left preserves it.
LEMMA ParticipantLeftStep ==
    ASSUME IInv, NEW k \in Deliverable, ParticipantLeft(k)
    PROVE  IInv'
<1> USE DEF IInv
<1>1. hooks[k].user \in Users
  <2>1. k \in 1 .. Len(hooks) /\ hooks[k] \in Hook
    BY DEF Deliverable, TypeOK
  <2> QED BY <2>1 DEF Hook, ParticipantLeft
<1>2. lost' = lost /\ UNCHANGED <<joined, conn, open, kicks, sweep, events>>
  BY DEF ParticipantLeft
<1>3. hooks' \in Seq(Hook) /\ LeftHooksOfLostSessions'
  <2>1. k \in 1 .. Len(hooks) /\ hooks' = Without(k)
    BY DEF Deliverable, ParticipantLeft
  <2> QED BY <1>2, <2>1, HooksWithout DEF TypeOK
<1>4. KeepRows \/ ( /\ row[hooks[k].user].session = hooks[k].session
                   /\ row[hooks[k].user].state \notin {"absent", "left"}
                   /\ Write(hooks[k].user, "reconnecting", row[hooks[k].user].session) )
  BY DEF ParticipantLeft, Unchanged
<1>5. hooks[k].session \in lost[hooks[k].user]
  <2>1. k \in 1 .. Len(hooks) /\ hooks[k].kind = "participant_left"
    BY DEF Deliverable, ParticipantLeft
  <2> QED BY <2>1 DEF LeftHooksOfLostSessions
<1>6. CASE KeepRows
  <2>1. TypeOK'
    BY <1>1, <1>2, <1>3, <1>5, <1>6 DEF TypeOK, KeepRows
  <2>2. ReconnectingLostItsSession' /\ WrittenRowsAreFresh'
    BY <1>1, <1>2, <1>3, <1>5, <1>6
       DEF TypeOK, ReconnectingLostItsSession, WrittenRowsAreFresh, KeepRows, Idle
  <2> QED BY <2>1, <2>2, <1>3
<1>7. CASE ( /\ row[hooks[k].user].session = hooks[k].session
                   /\ row[hooks[k].user].state \notin {"absent", "left"}
                   /\ Write(hooks[k].user, "reconnecting", row[hooks[k].user].session) )
  <2>1. TypeOK'
    BY <1>1, <1>2, <1>3, <1>5, <1>7
       DEF TypeOK, Write, Row, State, Transitional, Sessions
  <2>2. ReconnectingLostItsSession'
    BY <1>1, <1>2, <1>3, <1>5, <1>7 DEF TypeOK, ReconnectingLostItsSession, Write
  <2>3. WrittenRowsAreFresh'
    BY <1>1, <1>2, <1>3, <1>5, <1>7 DEF TypeOK, WrittenRowsAreFresh, Idle, Write
  <2> QED BY <2>1, <2>2, <2>3, <1>3
<1> QED BY <1>4, <1>6, <1>7

\* The handler of participant_joined preserves it.
LEMMA ParticipantJoinedStep ==
    ASSUME IInv, NEW k \in Deliverable, ParticipantJoined(k)
    PROVE  IInv'
<1> USE DEF IInv
<1>1. hooks[k].user \in Users
  <2>1. k \in 1 .. Len(hooks) /\ hooks[k] \in Hook
    BY DEF Deliverable, TypeOK
  <2> QED BY <2>1 DEF Hook, ParticipantJoined
<1>2. lost' = lost /\ UNCHANGED <<joined, conn, open, kicks, sweep, events>>
  BY DEF ParticipantJoined
<1>3. hooks' \in Seq(Hook) /\ LeftHooksOfLostSessions'
  <2>1. k \in 1 .. Len(hooks) /\ hooks' = Without(k)
    BY DEF Deliverable, ParticipantJoined
  <2> QED BY <1>2, <2>1, HooksWithout DEF TypeOK
<1>4. KeepRows \/ ( /\ row[hooks[k].user].state \in Transitional
                   /\ Write(hooks[k].user, "online", row[hooks[k].user].session) )
  BY DEF ParticipantJoined, Unchanged
<1>6. CASE KeepRows
  <2>1. TypeOK'
    BY <1>1, <1>2, <1>3, <1>6 DEF TypeOK, KeepRows
  <2>2. ReconnectingLostItsSession' /\ WrittenRowsAreFresh'
    BY <1>1, <1>2, <1>3, <1>6
       DEF TypeOK, ReconnectingLostItsSession, WrittenRowsAreFresh, KeepRows, Idle
  <2> QED BY <2>1, <2>2, <1>3
<1>7. CASE ( /\ row[hooks[k].user].state \in Transitional
                   /\ Write(hooks[k].user, "online", row[hooks[k].user].session) )
  <2>1. TypeOK'
    BY <1>1, <1>2, <1>3, <1>7 DEF TypeOK, Write, Row, State, Transitional, Sessions
  <2>2. ReconnectingLostItsSession'
    BY <1>1, <1>2, <1>3, <1>7 DEF TypeOK, ReconnectingLostItsSession, Write
  <2>3. WrittenRowsAreFresh'
    BY <1>1, <1>2, <1>3, <1>7 DEF TypeOK, WrittenRowsAreFresh, Idle, Write
  <2> QED BY <2>1, <2>2, <2>3, <1>3
<1> QED BY <1>4, <1>6, <1>7

\* The handler of room_finished preserves it.
LEMMA RoomFinishedStep ==
    ASSUME IInv, NEW k \in Deliverable, RoomFinished(k)
    PROVE  IInv'
<1> USE DEF IInv
<1>1. \A w \in Users : lost[w] \subseteq lost'[w]
  BY DEF TypeOK, RoomFinished
<1>2. hooks' \in Seq(Hook) /\ LeftHooksOfLostSessions'
  <2>1. k \in 1 .. Len(hooks)
    BY DEF Deliverable
  <2> QED BY <1>1, <2>1, HooksWithout DEF TypeOK, RoomFinished
<1>3. TypeOK'
  BY <1>2, RosterAssumption
     DEF TypeOK, Row, State, Transitional, Sessions, Absent, Idle, RoomFinished
<1>4. ReconnectingLostItsSession'
  BY DEF TypeOK, ReconnectingLostItsSession, Absent, State, Transitional, Sessions,
         RoomFinished
<1>5. WrittenRowsAreFresh'
  BY DEF TypeOK, WrittenRowsAreFresh, Idle, RoomFinished
<1> QED BY <1>2, <1>3, <1>4, <1>5

\* The sweep's query of expired rows preserves it.
LEMMA SweepListStep ==
    ASSUME IInv, SweepList
    PROVE  IInv'
<1> USE DEF IInv
<1>1. \A w \in Users : lost[w] \subseteq lost'[w]
  BY DEF TypeOK, SweepList, Listed, Expired
<1>2. hooks' \in Seq(Hook) /\ LeftHooksOfLostSessions'
  BY <1>1, HooksKept DEF TypeOK, SweepList
<1>3. TypeOK'
  BY <1>2, RosterAssumption
     DEF TypeOK, Row, State, Transitional, Sessions, Absent, Idle, SweepList,
         Listed, Expired
<1>4. ReconnectingLostItsSession'
  BY DEF TypeOK, ReconnectingLostItsSession, Absent, State, Transitional, Sessions,
         SweepList, Listed, Expired
<1>5. WrittenRowsAreFresh'
  BY DEF TypeOK, WrittenRowsAreFresh, Idle, SweepList, Listed, Expired
<1> QED BY <1>2, <1>3, <1>4, <1>5

\* LiveKit's answer to the sweep preserves it.
LEMMA SweepAskStep ==
    ASSUME IInv, SweepAsk
    PROVE  IInv'
<1> USE DEF IInv
<1>1. \A w \in Users : lost[w] \subseteq lost'[w]
  BY DEF TypeOK, SweepAsk, KeepRows
<1>2. hooks' \in Seq(Hook) /\ LeftHooksOfLostSessions'
  BY <1>1, HooksKept DEF TypeOK, SweepAsk, KeepRows
<1>3. TypeOK'
  BY <1>2, RosterAssumption
     DEF TypeOK, Row, State, Transitional, Sessions, Absent, Idle, SweepAsk,
         KeepRows
<1>4. ReconnectingLostItsSession'
  BY DEF TypeOK, ReconnectingLostItsSession, Absent, State, Transitional, Sessions,
         SweepAsk, KeepRows
<1>5. WrittenRowsAreFresh'
  BY DEF TypeOK, WrittenRowsAreFresh, Idle, SweepAsk, KeepRows
<1> QED BY <1>2, <1>3, <1>4, <1>5

\* A sweep that gets no answer preserves it.
LEMMA SweepGivesUpStep ==
    ASSUME IInv, SweepGivesUp
    PROVE  IInv'
<1> USE DEF IInv
<1>1. \A w \in Users : lost[w] \subseteq lost'[w]
  BY DEF TypeOK, SweepGivesUp, KeepRows
<1>2. hooks' \in Seq(Hook) /\ LeftHooksOfLostSessions'
  BY <1>1, HooksKept DEF TypeOK, SweepGivesUp, KeepRows
<1>3. TypeOK'
  BY <1>2, RosterAssumption
     DEF TypeOK, Row, State, Transitional, Sessions, Absent, Idle, SweepGivesUp,
         KeepRows
<1>4. ReconnectingLostItsSession'
  BY DEF TypeOK, ReconnectingLostItsSession, Absent, State, Transitional, Sessions,
         SweepGivesUp, KeepRows
<1>5. WrittenRowsAreFresh'
  BY DEF TypeOK, WrittenRowsAreFresh, Idle, SweepGivesUp, KeepRows
<1> QED BY <1>2, <1>3, <1>4, <1>5

\* A row the sweep makes online preserves it.
LEMMA SweepRestoreStep ==
    ASSUME IInv, NEW x \in sweep.rows, SweepRestore(x)
    PROVE  IInv'
<1> USE DEF IInv
<1>1. x.user \in Users /\ x.session \in Sessions
  BY DEF TypeOK, Listed
<1>2. lost' = lost /\ UNCHANGED <<joined, conn, open, kicks, events>>
  BY DEF SweepRestore
<1>3. hooks' \in Seq(Hook) /\ LeftHooksOfLostSessions'
  <2>1. hooks' = hooks
    BY DEF SweepRestore
  <2> QED BY <1>2, <2>1, HooksKept DEF TypeOK
<1>4. KeepRows \/ ( /\ row[x.user].session = x.session /\ row[x.user].state = x.state
                   /\ Write(x.user, "online", x.session) )
  BY DEF SweepRestore, Unchanged
<1>5. /\ sweep.pc = "asked"
      /\ sweep' \in [pc : {"idle", "listed", "asked"}, rows : SUBSET Listed, active : SUBSET Users]
  BY DEF TypeOK, SweepRestore, SweptOne, Idle
<1>6. CASE KeepRows
  <2>1. TypeOK'
    BY <1>1, <1>2, <1>3, <1>5, <1>6 DEF TypeOK, KeepRows
  <2>2. ReconnectingLostItsSession' /\ WrittenRowsAreFresh'
    BY <1>1, <1>2, <1>3, <1>5, <1>6
       DEF TypeOK, ReconnectingLostItsSession, WrittenRowsAreFresh, KeepRows, Idle
  <2> QED BY <2>1, <2>2, <1>3
<1>7. CASE ( /\ row[x.user].session = x.session /\ row[x.user].state = x.state
                   /\ Write(x.user, "online", x.session) )
  <2>1. TypeOK'
    BY <1>1, <1>2, <1>3, <1>5, <1>7
       DEF TypeOK, Write, Row, State, Transitional, Sessions
  <2>2. ReconnectingLostItsSession'
    BY <1>1, <1>2, <1>3, <1>5, <1>7 DEF TypeOK, ReconnectingLostItsSession, Write
  <2>3. WrittenRowsAreFresh'
    BY <1>1, <1>2, <1>3, <1>5, <1>7 DEF TypeOK, WrittenRowsAreFresh, Idle, Write
  <2> QED BY <2>1, <2>2, <2>3, <1>3
<1> QED BY <1>4, <1>6, <1>7

\* A row the sweep deletes preserves it.
LEMMA SweepRemoveStep ==
    ASSUME IInv, NEW x \in sweep.rows, SweepRemove(x)
    PROVE  IInv'
<1> USE DEF IInv
<1>1. x.user \in Users /\ x.session \in Sessions
  BY DEF TypeOK, Listed
<1>2. lost' = lost /\ UNCHANGED <<joined, conn, open, kicks, events>>
  BY DEF SweepRemove
<1>3. hooks' \in Seq(Hook) /\ LeftHooksOfLostSessions'
  <2>1. hooks' = hooks
    BY DEF SweepRemove
  <2> QED BY <1>2, <2>1, HooksKept DEF TypeOK
<1>4. KeepRows \/ Delete(x.user)
  BY DEF SweepRemove, Unchanged
<1>5. /\ sweep.pc = "asked"
      /\ sweep' \in [pc : {"idle", "listed", "asked"}, rows : SUBSET Listed, active : SUBSET Users]
  BY DEF TypeOK, SweepRemove, SweptOne, Idle
<1>6. CASE KeepRows
  <2>1. TypeOK'
    BY <1>1, <1>2, <1>3, <1>5, <1>6 DEF TypeOK, KeepRows
  <2>2. ReconnectingLostItsSession' /\ WrittenRowsAreFresh'
    BY <1>1, <1>2, <1>3, <1>5, <1>6
       DEF TypeOK, ReconnectingLostItsSession, WrittenRowsAreFresh, KeepRows, Idle
  <2> QED BY <2>1, <2>2, <1>3
<1>7. CASE Delete(x.user)
  <2>1. TypeOK'
    BY <1>1, <1>2, <1>3, <1>5, <1>7
       DEF TypeOK, Delete, Absent, Row, State, Transitional, Sessions
  <2>2. ReconnectingLostItsSession'
    BY <1>1, <1>2, <1>3, <1>5, <1>7
       DEF TypeOK, ReconnectingLostItsSession, Delete, Absent
  <2>3. WrittenRowsAreFresh'
    BY <1>1, <1>2, <1>3, <1>5, <1>7
       DEF TypeOK, WrittenRowsAreFresh, Idle, Delete, Absent
  <2> QED BY <2>1, <2>2, <2>3, <1>3
<1> QED BY <1>4, <1>6, <1>7

\* Every step preserves the invariant.
LEMMA NextPreserves == IInv /\ [Next]_vars => IInv'
<1> SUFFICES ASSUME IInv, [Next]_vars PROVE IInv'
  OBVIOUS
<1>1. ASSUME NEW u \in Users, NEW s \in Sessions, Join(u, s) \/ Connect(u, s) PROVE IInv'
  BY <1>1, JoinStep, ConnectStep
<1>2. ASSUME NEW u \in Users, NEW state \in State, Patch(u, state) PROVE IInv'
  BY <1>2, PatchStep
<1>3. ASSUME NEW u \in Users, LeaveRoom(u) \/ KickRemove(u) \/ KickDelete(u) \/ Disconnect(u)
      PROVE  IInv'
  BY <1>3, LeaveRoomStep, KickRemoveStep, KickDeleteStep, DisconnectStep
<1>4. CASE Finish
  BY <1>4, FinishStep
<1>5. CASE Deliver
  <2>1. PICK k \in Deliverable : ParticipantLeft(k) \/ ParticipantJoined(k) \/ RoomFinished(k)
    BY <1>5 DEF Deliver
  <2> QED BY <2>1, ParticipantLeftStep, ParticipantJoinedStep, RoomFinishedStep
<1>6. ASSUME NEW k \in 1 .. Len(hooks), Lose(k) PROVE IInv'
  BY <1>6, LoseStep
<1>7. ASSUME NEW u \in Users, Age(u) PROVE IInv'
  BY <1>7, AgeStep
<1>8. CASE SweepList \/ SweepAsk \/ SweepGivesUp
  BY <1>8, SweepListStep, SweepAskStep, SweepGivesUpStep
<1>9. CASE SweepRow
  BY <1>9, SweepRestoreStep, SweepRemoveStep DEF SweepRow
<1>10. CASE UNCHANGED vars
  BY <1>10
     DEF vars, IInv, TypeOK, ReconnectingLostItsSession, LeftHooksOfLostSessions,
               WrittenRowsAreFresh
<1> QED BY <1>1, <1>2, <1>3, <1>4, <1>5, <1>6, <1>7, <1>8, <1>9, <1>10 DEF Next

\* The invariant holds in every reachable state.
LEMMA Invariant == Spec => []IInv
<1> QED BY Start, NextPreserves, PTL DEF Spec

(* What a reader should know of. *)

\* The variables of the roster have their types, and no row, connection or webhook
\* is of a session that never joined: no update writes a row that is not there.
THEOREM TypeCorrect == Spec => []TypeOK
<1>1. IInv => TypeOK
  BY DEF IInv
<1> QED BY <1>1, Invariant, PTL

\* A row says reconnecting only after LiveKit or the client reported its own
\* session lost, whatever webhooks of earlier sessions arrive late, reordered
\* or never.
THEOREM LateWebhooksSpareNewSessions == Spec => []ReconnectingLostItsSession
<1>1. IInv => ReconnectingLostItsSession
  BY DEF IInv
<1> QED BY <1>1, Invariant, PTL

\* The sweep removes no row that was written after it listed the rows.
THEOREM SweepUndoesNothing == Spec => SweepSparesWrittenRows
<1> DEFINE Spares == \A u \in Users :
                SweepRow /\ row[u].state # "absent" /\ row'[u].state = "absent" => u \notin touched
<1>1. IInv /\ [Next]_vars => [Spares]_vars
  <2> SUFFICES ASSUME IInv, NEW u \in Users, SweepRow,
                      row[u].state # "absent", row'[u].state = "absent"
               PROVE  u \notin touched
    BY DEF IInv
  <2>1. PICK x \in sweep.rows : SweepRestore(x) \/ SweepRemove(x)
    BY DEF SweepRow
  <2>2. x.user \in Users /\ row \in [Users -> Row]
    BY DEF IInv, TypeOK, Listed
  <2>3. CASE SweepRestore(x)
    BY <2>2, <2>3 DEF SweepRestore, Write, KeepRows
  <2>4. CASE SweepRemove(x)
    <3>1. u = x.user /\ u \in old /\ sweep.pc = "asked"
      BY <2>2, <2>4 DEF SweepRemove, Delete, KeepRows
    <3> QED BY <3>1 DEF IInv, WrittenRowsAreFresh
  <2> QED BY <2>1, <2>3, <2>4
<1> QED BY <1>1, Invariant, PTL DEF Spec, SweepSparesWrittenRows
=============================================================================
