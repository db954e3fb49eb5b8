------------------------------ MODULE EmptyRoom ------------------------------
(***************************************************************************)
(* The music of one voice room that people leave: the occupancy that live  *)
(* snapshots report (PublishLiveSnapshot, src/internal/chat/stream.go) and *)
(* the timers that clear an empty room's queue and playback                *)
(* (ObserveRoomOccupancy and expireEmptyRoom,                              *)
(* src/internal/musicbox/manager.go).                                      *)
(*                                                                         *)
(* Rooms share nothing here.  The music is there or not; what a command    *)
(* does to it besides is left out.  A step is what runs under emptyRoomMu, *)
(* or one statement on the database.  A timer may fire at any time.        *)
(***************************************************************************)
EXTENDS Integers, FiniteSets

CONSTANTS
    Participants,
    Handlers,       \* bound: requests that change the roster at the same time
    Faults,         \* what may fail: "snapshot", "check", "clear", "restart"
    MaxEvents       \* bound: requests, faults and restarts

ASSUME EmptyRoomAssumption ==
    /\ IsFiniteSet(Participants)
    /\ Faults \subseteq {"snapshot", "check", "clear", "restart"}
    /\ MaxEvents \in Nat

VARIABLES
    present,        \* users with a row in live_participants that is not left
    music,          \* the room has a queue or playback state
    handler,        \* PublishLiveSnapshot: where it is and the count it read
    gen,            \* emptyRoomGenerations
    timer,          \* emptyRoomTimers: the generation of the room's timer, or 0
    expirers,       \* expireEmptyRoom calls under way
    command,        \* a music command holds the room's control lock
    missed,         \* history: that the room is empty may not have been observed
    seenEmpty,      \* history: the room was empty since the last command
    reused,         \* history: generations older than a visible member
    events          \* what is left of MaxEvents

vars == <<present, music, handler, gen, timer, expirers, command, missed, seenEmpty,
          reused, events>>

Generation == Nat \ {0}
Expirer == [gen : Generation, pc : {"fired", "first", "occupied", "rearm", "waiting",
                                    "second", "clearing"}, locked : BOOLEAN]
Handler == [pc : {"idle", "changed", "read"}, count : Nat]
Quiet == [pc |-> "idle", count |-> 0]

\* The variables have their types, the timer is of the current generation, one
\* call serves a generation, and one caller has the control lock.
TypeOK ==
    /\ present \subseteq Participants
    /\ music \in BOOLEAN
    /\ handler \in [Handlers -> Handler]
    /\ gen \in Nat
    /\ timer \in {0, gen}
    /\ expirers \subseteq Expirer
    /\ \A e \in expirers : e.gen <= gen /\ (e.gen = timer => e.pc = "fired")
    /\ \A e, f \in expirers : e.gen = f.gen \/ (e.locked /\ f.locked) => e = f
    /\ command \in BOOLEAN
    /\ command => \A e \in expirers : ~e.locked
    /\ missed \in BOOLEAN /\ seenEmpty \in BOOLEAN
    /\ reused \subseteq 1 .. gen
    /\ events \in 0 .. MaxEvents

Init ==
    /\ present = {}
    /\ music = FALSE
    /\ handler = [h \in Handlers |-> Quiet]
    /\ gen = 0
    /\ timer = 0
    /\ expirers = {}
    /\ command = FALSE
    /\ missed = TRUE
    /\ seenEmpty = TRUE
    /\ reused = {}
    /\ events = MaxEvents

Event == events > 0 /\ events' = events - 1
Fault(f) == f \in Faults /\ Event
-----------------------------------------------------------------------------
(* ObserveRoomOccupancy *)

\* Mutant: only a timer that is cancelled ends its generation.
ObserveOnlyCancels(count) ==
    /\ IF count > 0
       THEN /\ gen' = IF timer # 0 THEN gen + 1 ELSE gen
            /\ timer' = 0
            /\ reused' = 1 .. gen
       ELSE /\ gen' = IF timer = 0 THEN gen + 1 ELSE gen
            /\ timer' = gen'
            /\ UNCHANGED reused
    /\ missed' = (count > 0 /\ present = {})

Observe(count) ==
    /\ IF count > 0
       THEN /\ gen' = gen + 1
            /\ timer' = 0
            /\ reused' = 1 .. gen
       ELSE /\ gen' = IF timer = 0 THEN gen + 1 ELSE gen
            /\ timer' = gen'
            /\ UNCHANGED reused
    /\ missed' = (count > 0 /\ present = {})

Unobserved == UNCHANGED <<gen, timer, reused, missed>>
-----------------------------------------------------------------------------
(* Requests that change the roster *)

Roster(users) ==
    /\ present' = users
    /\ seenEmpty' = (seenEmpty \/ users = {})

\* A request has written the roster and publishes a snapshot next.
Publishes(h) ==
    /\ Event
    /\ handler[h].pc = "idle"
    /\ handler' = [handler EXCEPT ![h].pc = "changed"]
    /\ Unobserved
    /\ UNCHANGED <<music, expirers, command>>

\* joinLive and a webhook that restores a row; a participant who is there already
\* joins again, or updates its state.
Enter(h, p) == Publishes(h) /\ Roster(present \cup {p})

\* A participant leaves, is kicked, or its row is swept.
Leave(h, p) == p \in present /\ Publishes(h) /\ Roster(present \ {p})

\* The admin console removes a membership and its row, and publishes nothing.
RemoveMembership(p) ==
    /\ Event
    /\ p \in present
    /\ Roster(present \ {p})
    /\ missed' = (missed \/ present = {p})
    /\ UNCHANGED <<music, handler, gen, timer, expirers, command, reused>>

\* buildLiveState.
ReadRoster(h) ==
    /\ handler[h].pc = "changed"
    /\ handler' = [handler EXCEPT ![h] = [pc |-> "read", count |-> Cardinality(present)]]
    /\ Unobserved
    /\ UNCHANGED <<present, music, expirers, command, seenEmpty, events>>

\* Its error ends the publication.
SnapshotFails(h) ==
    /\ Fault("snapshot")
    /\ handler[h].pc = "changed"
    /\ handler' = [handler EXCEPT ![h] = Quiet]
    /\ missed' = TRUE
    /\ UNCHANGED <<present, music, gen, timer, expirers, command, seenEmpty, reused>>

ObserveSnapshot(h) ==
    /\ handler[h].pc = "read"
    /\ Observe(handler[h].count)
    /\ handler' = [handler EXCEPT ![h] = Quiet]
    /\ UNCHANGED <<present, music, expirers, command, seenEmpty, events>>
-----------------------------------------------------------------------------
(* Music commands, of anybody with access to the room *)

LockFree == ~command /\ \A e \in expirers : ~e.locked

BeginCommand ==
    /\ Event
    /\ LockFree
    /\ command' = TRUE
    /\ Unobserved
    /\ UNCHANGED <<present, music, handler, expirers, seenEmpty>>

\* Nothing observes the room then: what is queued in an empty room whose timer
\* has run already stays.
EndCommand ==
    /\ command
    /\ command' = FALSE
    /\ music' \in BOOLEAN
    /\ seenEmpty' = (present = {})
    /\ missed' = (missed \/ (present = {} /\ timer = 0))
    /\ UNCHANGED <<present, handler, gen, timer, expirers, reused, events>>
-----------------------------------------------------------------------------
(* expireEmptyRoom *)

Fire ==
    /\ timer # 0
    /\ \A e \in expirers : e.gen # timer
    /\ expirers' = expirers \cup {[gen |-> timer, pc |-> "fired", locked |-> FALSE]}
    /\ Unobserved
    /\ UNCHANGED <<present, music, handler, command, seenEmpty, events>>

Goto(e, pc) == expirers' = (expirers \ {e}) \cup {[e EXCEPT !.pc = pc]}
Done(e) == expirers' = expirers \ {e}

\* A timer that was stopped too late finds another generation, or no timer.
Start(e) ==
    /\ e.pc = "fired"
    /\ IF gen = e.gen /\ timer # 0 THEN Goto(e, "first") /\ timer' = 0
                                   ELSE Done(e) /\ UNCHANGED timer
    /\ UNCHANGED <<present, music, handler, gen, command, missed, seenEmpty, reused, events>>

\* musicBoxRoomOccupied, before the control lock.
FirstCheck(e) ==
    /\ e.pc = "first"
    /\ Goto(e, IF present = {} THEN "waiting" ELSE "occupied")
    /\ Unobserved
    /\ UNCHANGED <<present, music, handler, command, seenEmpty, events>>

CheckFails(e) ==
    /\ Fault("check")
    /\ e.pc \in {"first", "second"}
    /\ Goto(e, "rearm")
    /\ Unobserved
    /\ UNCHANGED <<present, music, handler, command, seenEmpty>>

ObserveOccupied(e) ==
    /\ e.pc = "occupied"
    /\ Observe(1)
    /\ Done(e)
    /\ UNCHANGED <<present, music, handler, command, seenEmpty, events>>

\* The control lock, and the generation again.
Confirm(e) ==
    /\ e.pc = "waiting"
    /\ LockFree
    /\ IF gen = e.gen
       THEN expirers' = (expirers \ {e})
                            \cup {[gen |-> e.gen, pc |-> "second", locked |-> TRUE]}
       ELSE Done(e)
    /\ Unobserved
    /\ UNCHANGED <<present, music, handler, command, seenEmpty, events>>

\* Mutant: the roster is not asked again.
SecondCheckTrusting(e) ==
    /\ e.pc = "second"
    /\ Goto(e, "clearing")
    /\ Unobserved
    /\ UNCHANGED <<present, music, handler, command, seenEmpty, events>>

SecondCheck(e) ==
    /\ e.pc = "second"
    /\ Goto(e, IF present = {} THEN "clearing" ELSE "occupied")
    /\ Unobserved
    /\ UNCHANGED <<present, music, handler, command, seenEmpty, events>>

\* clearExpiredRoomPlayback.
Clear(e) ==
    /\ e.pc = "clearing"
    /\ music' = FALSE
    /\ Done(e)
    /\ Unobserved
    /\ UNCHANGED <<present, handler, command, seenEmpty, events>>

\* The player does not stop, or the transaction fails.
ClearFails(e) ==
    /\ Fault("clear")
    /\ e.pc = "clearing"
    /\ Goto(e, "rearm")
    /\ Unobserved
    /\ UNCHANGED <<present, music, handler, command, seenEmpty>>

\* Mutant: the cleanup is not tried again.
RearmNever(e) ==
    /\ e.pc = "rearm"
    /\ Done(e)
    /\ Unobserved
    /\ UNCHANGED <<present, music, handler, command, seenEmpty, events>>

\* Mutant: the timer runs again for the same generation.
RearmSameGeneration(e) ==
    /\ e.pc = "rearm"
    /\ IF timer = 0 THEN timer' = e.gen ELSE UNCHANGED timer
    /\ Done(e)
    /\ UNCHANGED <<present, music, handler, gen, command, missed, seenEmpty, reused, events>>

\* rearmEmptyRoomCleanup.
Rearm(e) ==
    /\ e.pc = "rearm"
    /\ IF gen = e.gen /\ timer = 0 THEN gen' = gen + 1 /\ timer' = gen'
                                   ELSE UNCHANGED <<gen, timer>>
    /\ Done(e)
    /\ UNCHANGED <<present, music, handler, command, missed, seenEmpty, reused, events>>

Expires(e) ==
    \/ Start(e) \/ FirstCheck(e) \/ ObserveOccupied(e) \/ SecondCheck(e) \/ Clear(e)
    \/ Rearm(e)
-----------------------------------------------------------------------------
(* The process ends, and ReconcilePersistedRoomOccupancy looks at the rooms with *)
(* music before requests are served; or it cannot.                               *)
Restart ==
    /\ Fault("restart")
    /\ handler' = [h \in Handlers |-> Quiet]
    /\ expirers' = {}
    /\ command' = FALSE
    /\ reused' = {}
    /\ \/ /\ present = {} /\ gen' = 1 /\ timer' = 1 /\ missed' = FALSE
       \/ /\ present # {} /\ gen' = 1 /\ timer' = 0 /\ missed' = FALSE
       \/ /\ ~music \/ "check" \in Faults
          /\ gen' = 0 /\ timer' = 0 /\ missed' = TRUE
    /\ UNCHANGED <<present, music, seenEmpty>>
-----------------------------------------------------------------------------
Next ==
    \/ \E h \in Handlers :
          \/ \E p \in Participants : Enter(h, p) \/ Leave(h, p)
          \/ ReadRoster(h) \/ SnapshotFails(h) \/ ObserveSnapshot(h)
    \/ \E p \in Participants : RemoveMembership(p)
    \/ BeginCommand \/ EndCommand \/ Fire \/ Restart
    \/ \E e \in expirers : Expires(e) \/ Confirm(e) \/ CheckFails(e) \/ ClearFails(e)

Spec == Init /\ [][Next]_vars

\* Handlers, commands, timers and the calls they start go on; a call gets the
\* control lock that is released again and again.  Nobody has to come or leave.
Fairness ==
    /\ \A h \in Handlers : WF_vars(ReadRoster(h)) /\ WF_vars(ObserveSnapshot(h))
    /\ WF_vars(EndCommand) /\ WF_vars(Fire)
    /\ WF_vars(\E e \in expirers : Expires(e))
    /\ SF_vars(\E e \in expirers : Confirm(e))

FairSpec == Spec /\ Fairness
-----------------------------------------------------------------------------
(* Properties *)

\* What was queued or played after the room was last empty is not cleared: a
\* command that comes between a timer and its clearing keeps its effect as long as
\* somebody has been there since.
QueuedMusicSurvives ==
    [][(\E e \in expirers : Clear(e)) /\ music => seenEmpty]_vars

\* A timer from before a visible member was observed is not confirmed, wherever its
\* call was at that moment ("any visible member immediately invalidates the pending
\* generation", manager.go).
ReusedRoomsAreNotConfirmed ==
    [][\A e \in expirers : Confirm(e) /\ e.gen \in reused => Done(e)]_vars

\* A room that stays empty loses its music, whatever timers, checks and clearings
\* fail and restart, unless the last thing observed of it is not that it is empty.
ObservedEmptyRoomsExpire == <>[](present = {} /\ ~missed) => <>[]~music
=============================================================================
