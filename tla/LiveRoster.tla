----------------------------- MODULE LiveRoster -----------------------------
(***************************************************************************)
(* The roster of one room's voice channel: the rows of live_participants,  *)
(* as joinLive and the participant's own updates (src/internal/chat/       *)
(* live_core.go) write them, as LiveKit's webhooks correct them, and as    *)
(* the transition sweep (src/internal/livekitwebhook/handler.go) cleans    *)
(* them up.  LiveKit is external: it keeps one connection per user, ends   *)
(* the earlier one when the user connects again, and reports both.         *)
(*                                                                         *)
(* A user's devices join with client sessions 1, 2, ...  The token of a    *)
(* join carries its session, and stays valid.  Time is whether a row was   *)
(* last written before the grace period of its state, as of the sweep that *)
(* runs or, when none does, the next one.  Microphone, camera and screen   *)
(* are left out, except that their updates write the row.  Session ids have *)
(* no blanks around them: the token's metadata would lose those.           *)
(***************************************************************************)
EXTENDS Integers, Sequences

CONSTANTS
    Users,
    MaxSessions,    \* bound: client sessions of a user
    Patches,        \* connection states that clients report themselves
    Faults,         \* what may happen to webhooks: "lost", "reordered"
    MusicPlays,     \* the music box is in the LiveKit room and keeps it open
    MaxEvents       \* bound: joins, connections, updates, kicks, leaves, losses

ASSUME RosterAssumption ==
    /\ MaxSessions \in Nat /\ MaxEvents \in Nat
    /\ Patches \subseteq {"joining", "online", "reconnecting", "left"}
    /\ Faults \subseteq {"lost", "reordered"}
    /\ MusicPlays \in BOOLEAN

VARIABLES
    row,        \* connection state and client session of each user's row
    old,        \* the users whose row is past the grace period
    joined,     \* number of sessions of each user that have joined
    conn,       \* the session of each user that LiveKit has connected, or 0
    open,       \* LiveKit has the room
    hooks,      \* webhooks under way, in the order LiveKit sent them
    kicks,      \* kicks between LiveKit's removal and the row's
    sweep,      \* cleanupExpiredLiveTransitions
    lost,       \* history: sessions reported lost, by LiveKit or by a client
    touched,    \* history: users whose row was written since the sweep listed
    events      \* what is left of MaxEvents

vars == <<row, old, joined, conn, open, hooks, kicks, sweep, lost, touched, events>>

Sessions == 1 .. MaxSessions
Transitional == {"joining", "reconnecting"}
State == Transitional \cup {"online", "left", "absent"}
Row == [state : State, session : Sessions \cup {0}]
Absent == [state |-> "absent", session |-> 0]
Hook == [kind : {"participant_joined", "participant_left"}, user : Users, session : Sessions]
        \cup [kind : {"room_finished"}]
Listed == [user : Users, state : Transitional, session : Sessions]
Idle == [pc |-> "idle", rows |-> {}, active |-> {}]

\* The variables have their types, a row that exists belongs to a session, and
\* only sessions that joined are in rows, connections and webhooks.
TypeOK ==
    /\ row \in [Users -> Row]
    /\ \A u \in Users : row[u].state # "absent" => row[u].session # 0
    /\ old \subseteq Users
    /\ joined \in [Users -> 0 .. MaxSessions]
    /\ conn \in [Users -> Sessions \cup {0}]
    /\ \A u \in Users : row[u].session <= joined[u] /\ conn[u] <= joined[u]
    /\ open \in BOOLEAN
    /\ hooks \in Seq(Hook)
    /\ kicks \subseteq Users
    /\ sweep \in [pc : {"idle", "listed", "asked"}, rows : SUBSET Listed,
                  active : SUBSET Users]
    /\ lost \in [Users -> SUBSET Sessions]
    /\ touched \subseteq Users
    /\ events \in 0 .. MaxEvents

Init ==
    /\ row = [u \in Users |-> Absent]
    /\ old = {}
    /\ joined = [u \in Users |-> 0]
    /\ conn = [u \in Users |-> 0]
    /\ open = FALSE
    /\ hooks = <<>>
    /\ kicks = {}
    /\ sweep = Idle
    /\ lost = [u \in Users |-> {}]
    /\ touched = {}
    /\ events = MaxEvents

Event == events > 0 /\ events' = events - 1

\* A statement that writes a user's row, and one that deletes it.
Write(u, state, session) ==
    /\ row' = [row EXCEPT ![u] = [state |-> state, session |-> session]]
    /\ old' = old \ {u}
    /\ touched' = touched \cup {u}
Delete(u) ==
    /\ row' = [row EXCEPT ![u] = Absent]
    /\ old' = old \ {u}
    /\ touched' = touched \cup {u}
KeepRows == UNCHANGED <<row, old, touched>>

\* Time passes; a sweep that runs has computed its cutoffs.
Age(u) ==
    /\ sweep.pc = "idle"
    /\ row[u].state \in Transitional
    /\ u \notin old
    /\ old' = old \cup {u}
    /\ UNCHANGED <<row, joined, conn, open, hooks, kicks, sweep, lost, touched, events>>
-----------------------------------------------------------------------------
(* Requests *)

\* joinLive, by a new session or again by an earlier one, takes the user's row.
Join(u, s) ==
    /\ Event
    /\ s \in 1 .. joined[u] + 1
    /\ joined' = [joined EXCEPT ![u] = IF s > @ THEN s ELSE @]
    /\ Write(u, "joining", s)
    /\ UNCHANGED <<conn, open, hooks, kicks, sweep, lost>>

\* Mutant: the update inserts the row that is not there.
PatchOfNobody(u, state) ==
    /\ Event
    /\ state \in Patches \cup {row[u].state}
    /\ Write(u, state, row[u].session)
    /\ lost' = IF state = "reconnecting"
               THEN [lost EXCEPT ![u] = @ \cup {row[u].session}] ELSE lost
    /\ UNCHANGED <<joined, conn, open, hooks, kicks, sweep>>

\* updateMyLiveState and updateMyLiveScreenView: a device reports a state, or
\* something else that writes the row.  Nothing says which session it is.
Patch(u, state) ==
    /\ Event
    /\ row[u].state # "absent"
    /\ state \in Patches \cup {row[u].state}
    /\ Write(u, state, row[u].session)
    /\ lost' = IF state = "reconnecting"
               THEN [lost EXCEPT ![u] = @ \cup {row[u].session}] ELSE lost
    /\ UNCHANGED <<joined, conn, open, hooks, kicks, sweep>>

\* leaveRoom, removeMember and the admin's removal delete the row.
LeaveRoom(u) ==
    /\ Event
    /\ row[u].state # "absent"
    /\ Delete(u)
    /\ UNCHANGED <<joined, conn, open, hooks, kicks, sweep, lost>>

\* What LiveKit sends when a user's connection ends.
LeftHook(u) == [kind |-> "participant_left", user |-> u, session |-> conn[u]]
Ended(u) == [lost EXCEPT ![u] = @ \cup {conn[u]}]

\* A kick removes the participant at LiveKit, which fails for one that is not
\* connected, and then the row.
KickRemove(u) ==
    /\ Event
    /\ conn[u] # 0
    /\ u \notin kicks
    /\ conn' = [conn EXCEPT ![u] = 0]
    /\ hooks' = Append(hooks, LeftHook(u))
    /\ lost' = Ended(u)
    /\ kicks' = kicks \cup {u}
    /\ KeepRows
    /\ UNCHANGED <<joined, open, sweep>>

KickDelete(u) ==
    /\ u \in kicks
    /\ kicks' = kicks \ {u}
    /\ Delete(u)
    /\ UNCHANGED <<joined, conn, open, hooks, sweep, lost, events>>
-----------------------------------------------------------------------------
(* LiveKit *)

\* A device connects with its token; the user's earlier connection ends.
Connect(u, s) ==
    /\ Event
    /\ s \in 1 .. joined[u]
    /\ conn' = [conn EXCEPT ![u] = s]
    /\ open' = TRUE
    /\ hooks' = (IF conn[u] = 0 THEN hooks ELSE Append(hooks, LeftHook(u)))
                \o <<[kind |-> "participant_joined", user |-> u, session |-> s]>>
    /\ lost' = IF conn[u] = 0 THEN lost ELSE Ended(u)
    /\ KeepRows
    /\ UNCHANGED <<joined, kicks, sweep>>

\* A device disconnects or is gone.
Disconnect(u) ==
    /\ conn[u] # 0
    /\ conn' = [conn EXCEPT ![u] = 0]
    /\ hooks' = Append(hooks, LeftHook(u))
    /\ lost' = Ended(u)
    /\ KeepRows
    /\ UNCHANGED <<joined, open, kicks, sweep, events>>

\* LiveKit closes a room that is empty.
CanFinish == open /\ ~MusicPlays /\ \A u \in Users : conn[u] = 0
Finish ==
    /\ CanFinish
    /\ open' = FALSE
    /\ hooks' = Append(hooks, [kind |-> "room_finished"])
    /\ KeepRows
    /\ UNCHANGED <<joined, conn, kicks, sweep, lost, events>>

Without(k) == SubSeq(hooks, 1, k - 1) \o SubSeq(hooks, k + 1, Len(hooks))
Lose(k) ==
    /\ "lost" \in Faults
    /\ Event
    /\ hooks' = Without(k)
    /\ KeepRows
    /\ UNCHANGED <<joined, conn, open, kicks, sweep, lost>>

\* The webhook that is delivered next.
Deliverable == IF "reordered" \in Faults THEN 1 .. Len(hooks) ELSE {1} \cap 1 .. Len(hooks)
-----------------------------------------------------------------------------
(* receive *)

\* Mutant: the webhook is taken for the user's current session.
ParticipantLeftOfAnySession(k) ==
    /\ hooks[k].kind = "participant_left"
    /\ hooks' = Without(k)
    /\ LET u == hooks[k].user
       IN  IF row[u].state \notin {"absent", "left"}
           THEN Write(u, "reconnecting", row[u].session) ELSE KeepRows
    /\ UNCHANGED <<joined, conn, open, kicks, sweep, lost, events>>

ParticipantLeft(k) ==
    /\ hooks[k].kind = "participant_left"
    /\ hooks' = Without(k)
    /\ LET u == hooks[k].user
       IN  IF row[u].session = hooks[k].session /\ row[u].state \notin {"absent", "left"}
           THEN Write(u, "reconnecting", row[u].session) ELSE KeepRows
    /\ UNCHANGED <<joined, conn, open, kicks, sweep, lost, events>>

ParticipantJoined(k) ==
    /\ hooks[k].kind = "participant_joined"
    /\ hooks' = Without(k)
    /\ LET u == hooks[k].user
       IN  IF row[u].session = hooks[k].session /\ row[u].state \in Transitional
           THEN Write(u, "online", row[u].session) ELSE KeepRows
    /\ UNCHANGED <<joined, conn, open, kicks, sweep, lost, events>>

\* The rows that were left are deleted; nothing changes in between that would
\* not have the same effect before.
RoomFinished(k) ==
    /\ hooks[k].kind = "room_finished"
    /\ hooks' = Without(k)
    /\ LET here == {u \in Users : row[u].state \notin {"absent", "left"}}
       IN  /\ row' = [u \in Users |-> IF u \in here THEN [row[u] EXCEPT !.state = "reconnecting"]
                                                   ELSE Absent]
           /\ lost' = [u \in Users |-> IF u \in here THEN lost[u] \cup {row[u].session}
                                                    ELSE lost[u]]
    /\ old' = {}
    /\ touched' = Users
    /\ UNCHANGED <<joined, conn, open, kicks, sweep, events>>

Deliver == \E k \in Deliverable : ParticipantLeft(k) \/ ParticipantJoined(k) \/ RoomFinished(k)
-----------------------------------------------------------------------------
(* cleanupExpiredLiveTransitions *)

\* Mutant: only reconnecting rows expire.
ExpiredReconnecting == {u \in old : row[u].state = "reconnecting"}
Expired == {u \in old : row[u].state \in Transitional}

SweepList ==
    /\ sweep.pc = "idle"
    /\ Expired # {}
    /\ sweep' = [pc |-> "listed", active |-> {},
                 rows |-> {[user |-> u, state |-> row[u].state,
                            session |-> row[u].session] : u \in Expired}]
    /\ touched' = {}
    /\ UNCHANGED <<row, old, joined, conn, open, hooks, kicks, lost, events>>

\* activeParticipantIdentities: ListParticipants names users, not sessions.
SweepAsk ==
    /\ sweep.pc = "listed"
    /\ sweep' = [sweep EXCEPT !.pc = "asked",
                              !.active = {u \in Users : conn[u] # 0}]
    /\ KeepRows
    /\ UNCHANGED <<joined, conn, open, hooks, kicks, lost, events>>

\* LiveKit does not answer: the rows are left for the next sweep.
SweepGivesUp ==
    /\ sweep.pc = "listed"
    /\ sweep' = Idle
    /\ KeepRows
    /\ UNCHANGED <<joined, conn, open, hooks, kicks, lost, events>>

Unchanged(x) == row[x.user] = [state |-> x.state, session |-> x.session]
SweptOne(x) == IF sweep.rows = {x} THEN Idle ELSE [sweep EXCEPT !.rows = @ \ {x}]

\* The user is in the LiveKit room.
SweepRestore(x) ==
    /\ sweep.pc = "asked"
    /\ x.user \in sweep.active
    /\ IF Unchanged(x) THEN Write(x.user, "online", x.session) ELSE KeepRows
    /\ sweep' = SweptOne(x)
    /\ UNCHANGED <<joined, conn, open, hooks, kicks, lost, events>>

\* Mutant: the row may have been written since.
SweepRemoveUndated(x) ==
    /\ sweep.pc = "asked"
    /\ x.user \notin sweep.active
    /\ IF Unchanged(x) THEN Delete(x.user) ELSE KeepRows
    /\ sweep' = SweptOne(x)
    /\ UNCHANGED <<joined, conn, open, hooks, kicks, lost, events>>

\* The user is not, and the row is still past its grace period.
SweepRemove(x) ==
    /\ sweep.pc = "asked"
    /\ x.user \notin sweep.active
    /\ IF Unchanged(x) /\ x.user \in old THEN Delete(x.user) ELSE KeepRows
    /\ sweep' = SweptOne(x)
    /\ UNCHANGED <<joined, conn, open, hooks, kicks, lost, events>>

SweepRow == \E x \in sweep.rows : SweepRestore(x) \/ SweepRemove(x)
-----------------------------------------------------------------------------
Next ==
    \/ \E u \in Users : \E s \in Sessions : Join(u, s) \/ Connect(u, s)
    \/ \E u \in Users : \E state \in State : Patch(u, state)
    \/ \E u \in Users : LeaveRoom(u) \/ KickRemove(u) \/ KickDelete(u) \/ Disconnect(u)
    \/ Finish \/ Deliver
    \/ \E k \in 1 .. Len(hooks) : Lose(k)
    \/ \E u \in Users : Age(u)
    \/ SweepList \/ SweepAsk \/ SweepGivesUp \/ SweepRow

Spec == Init /\ [][Next]_vars

\* The sweep runs every five seconds, time passes, and LiveKit answers some
\* sweep.  Requests, connections and webhooks are not fair.
Fairness ==
    /\ \A u \in Users : WF_vars(Age(u))
    /\ WF_vars(SweepList) /\ SF_vars(SweepAsk) /\ WF_vars(SweepRow)

FairSpec == Spec /\ Fairness
-----------------------------------------------------------------------------
(* Properties *)

\* A row says reconnecting only after its own session was lost: the late
\* participant_left of a session that another device replaced does not touch the
\* new session's row.
ReconnectingLostItsSession ==
    \A u \in Users : row[u].state = "reconnecting" => row[u].session \in lost[u]

\* The sweep removes no row that was written after the sweep listed it: neither a
\* join, an update nor a webhook that comes while LiveKit is asked is undone.
SweepSparesWrittenRows ==
    [][\A u \in Users : SweepRow /\ row[u].state # "absent" /\ row'[u].state = "absent"
                            => u \notin touched]_vars

\* No row stays between states: a client that dies after joinLive or while it
\* reconnects leaves the roster, and one that is connected becomes online, even if
\* every webhook is lost.
TransitionsEnd == \A u \in Users : []<>(row[u].state \notin Transitional)
=============================================================================
