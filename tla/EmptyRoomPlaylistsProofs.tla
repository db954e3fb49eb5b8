----------------------- MODULE EmptyRoomPlaylistsProofs ------------------------
(***************************************************************************)
(* The safety properties of two components of the music box that share     *)
(* nothing.  Those of EmptyRoom hold for every finite set of participants, *)
(* any number of requests at a time, every fault and every number of       *)
(* events.  Those of Playlists hold for all users, links and names, every  *)
(* library to begin with and every size of a playlist, of a scope and of a *)
(* page.                                                                   *)
(***************************************************************************)
EXTENDS EmptyRoom, Playlists, FiniteSetTheorems, SequenceTheorems, TLAPS

(* An empty voice room. *)

\* The call that clears holds the control lock, and has seen the room empty.
ClearingHasSeenEmpty ==
    \A e \in expirers : /\ e.pc \in {"second", "clearing"} => e.locked
                        /\ e.pc = "clearing" => seenEmpty

\* A visible member ends the generations before.
ReusedGenerationsEnded == \A g \in reused : g < gen

\* An empty room is one that was empty since the last command.
EmptyIsSeen == present = {} => seenEmpty

\* The inductive invariant of EmptyRoom.
IInv == TypeOK /\ ClearingHasSeenEmpty /\ ReusedGenerationsEnded /\ EmptyIsSeen

\* The initial states satisfy the invariant.
LEMMA Start0 == Init => IInv
<1> SUFFICES ASSUME Init PROVE IInv
  OBVIOUS
<1>1. handler \in [Handlers -> Handler]
  BY DEF Init, Handler, Quiet
<1>2. events \in 0 .. MaxEvents /\ gen \in Nat /\ timer \in {0, gen} /\ reused \subseteq 1 .. gen
  BY EmptyRoomAssumption DEF Init
<1>3. present \subseteq Participants /\ expirers \subseteq Expirer
  BY DEF Init
<1>4. /\ music \in BOOLEAN /\ command \in BOOLEAN /\ missed \in BOOLEAN /\ seenEmpty \in BOOLEAN
  BY DEF Init
<1>5. expirers = {} /\ reused = {} /\ command = FALSE
  BY DEF Init
<1>6. EmptyIsSeen
  BY DEF Init, EmptyIsSeen
<1> QED BY <1>1, <1>2, <1>3, <1>4, <1>5, <1>6
        DEF IInv, TypeOK, ClearingHasSeenEmpty, ReusedGenerationsEnded

\* The variables of the timers and of the calls alone satisfy this part of it.
TimersOK ==
    /\ gen \in Nat
    /\ timer \in {0, gen}
    /\ expirers \subseteq Expirer
    /\ \A e \in expirers : e.gen <= gen /\ (e.gen = timer => e.pc = "fired")
    /\ \A e, f \in expirers : e.gen = f.gen \/ (e.locked /\ f.locked) => e = f
    /\ command => \A e \in expirers : ~e.locked
    /\ \A e \in expirers : /\ e.pc \in {"second", "clearing"} => e.locked
                           /\ e.pc = "clearing" => seenEmpty
    /\ reused \subseteq 1 .. gen
    /\ \A g \in reused : g < gen

\* And the others this one.
RosterOK ==
    /\ present \subseteq Participants
    /\ music \in BOOLEAN
    /\ handler \in [Handlers -> Handler]
    /\ command \in BOOLEAN
    /\ missed \in BOOLEAN /\ seenEmpty \in BOOLEAN
    /\ events \in 0 .. MaxEvents
    /\ present = {} => seenEmpty

\* The two are the invariant.
LEMMA Parts == IInv <=> TimersOK /\ RosterOK
  BY DEF IInv, TypeOK, ClearingHasSeenEmpty, ReusedGenerationsEnded, EmptyIsSeen,
         TimersOK, RosterOK

\* After a step as before it.
LEMMA PartsNext == IInv' <=> TimersOK' /\ RosterOK'
  BY Parts, PTL

\* An observation preserves the part of the timers, if nothing else touches it.
LEMMA ObserveKeepsTimers ==
    ASSUME TimersOK, NEW count \in Nat, Observe(count),
           expirers' \subseteq expirers, UNCHANGED <<command, seenEmpty>>
    PROVE  TimersOK'
<1>1. CASE count > 0
  <2>1. gen' = gen + 1 /\ timer' = 0 /\ reused' = 1 .. gen
    BY <1>1 DEF Observe
  <2> QED BY <2>1 DEF TimersOK, Expirer, Generation
<1>2. CASE ~(count > 0) /\ timer = 0
  <2>1. gen' = gen + 1 /\ timer' = gen + 1 /\ reused' = reused
    BY <1>2 DEF Observe, TimersOK
  <2> QED BY <2>1 DEF TimersOK, Expirer, Generation
<1>3. CASE ~(count > 0) /\ timer # 0
  <2>1. gen' = gen /\ timer' = timer /\ reused' = reused
    BY <1>3 DEF Observe, TimersOK
  <2> QED BY <2>1 DEF TimersOK, Expirer, Generation
<1> QED BY <1>1, <1>2, <1>3

\* A step that changes no timer and no call preserves it, if it gives nobody the lock
\* and does not forget that the room was empty.
LEMMA NothingKeepsTimers ==
    ASSUME TimersOK, UNCHANGED <<gen, timer, expirers, reused>>,
           command' => command, seenEmpty => seenEmpty'
    PROVE  TimersOK'
  BY DEF TimersOK

\* What a call's own step does to the calls.
LEMMA GotoKeepsTimers ==
    ASSUME TimersOK, NEW e \in expirers, NEW f \in Expirer,
           expirers' = (expirers \ {e}) \cup {f}, f.gen = e.gen,
           f.locked => e.locked \/ LockFree, f.pc # "fired", e.gen # timer',
           f.pc \in {"second", "clearing"} => f.locked,
           f.pc = "clearing" => seenEmpty,
           timer' \in {0, timer}, UNCHANGED <<gen, reused, command, seenEmpty>>
    PROVE  TimersOK'
<1>1. \A x \in expirers' : x \in expirers \ {e} \/ x = f
  OBVIOUS
<1>2. \A x \in expirers' : x.gen <= gen' /\ (x.gen = timer' => x.pc = "fired")
  BY <1>1 DEF TimersOK, Expirer, Generation
<1>3. \A x, y \in expirers' : x.gen = y.gen \/ (x.locked /\ y.locked) => x = y
  <2> SUFFICES ASSUME NEW x \in expirers', NEW y \in expirers',
                      x.gen = y.gen \/ (x.locked /\ y.locked)
               PROVE  x = y
    OBVIOUS
  <2>1. CASE x = f /\ y # f
    BY <1>1, <2>1 DEF TimersOK, LockFree
  <2>2. CASE x # f /\ y = f
    BY <1>1, <2>2 DEF TimersOK, LockFree
  <2>3. CASE x # f /\ y # f
    BY <1>1, <2>3 DEF TimersOK
  <2> QED BY <2>1, <2>2, <2>3
<1>4. command' => \A x \in expirers' : ~x.locked
  BY <1>1 DEF TimersOK, LockFree
<1>5. \A x \in expirers' : /\ x.pc \in {"second", "clearing"} => x.locked
                           /\ x.pc = "clearing" => seenEmpty'
  BY <1>1 DEF TimersOK
<1> QED BY <1>1, <1>2, <1>3, <1>4, <1>5 DEF TimersOK

\* A call that ends preserves it.
LEMMA DoneKeepsTimers ==
    ASSUME TimersOK, expirers' \subseteq expirers,
           timer' \in {0, timer}, UNCHANGED <<gen, reused, command, seenEmpty>>
    PROVE  TimersOK'
  BY DEF TimersOK, Expirer, Generation

(* One lemma per action or group of actions of one kind. *)

\* Requests that change the roster preserve the invariant.
LEMMA RequestSteps ==
    ASSUME IInv, NEW h \in Handlers, NEW p \in Participants, Enter(h, p) \/ Leave(h, p)
    PROVE  IInv'
<1>1. TimersOK /\ RosterOK
  BY Parts
<1>2. TimersOK'
  <2>1. /\ UNCHANGED <<gen, timer, expirers, reused>> /\ UNCHANGED command
        /\ seenEmpty' = (seenEmpty \/ present' = {})
    BY DEF Enter, Leave, Publishes, Roster, Unobserved
  <2> QED BY <1>1, <2>1, NothingKeepsTimers
<1>3. handler' \in [Handlers -> Handler] /\ present' \subseteq Participants
  BY <1>1 DEF RosterOK, Enter, Leave, Publishes, Roster, Handler
<1>4. /\ music' \in BOOLEAN /\ command' \in BOOLEAN /\ missed' \in BOOLEAN
      /\ events' \in 0 .. MaxEvents
  BY <1>1, EmptyRoomAssumption DEF RosterOK, Enter, Leave, Publishes, Unobserved, Event
<1>5. seenEmpty' \in BOOLEAN /\ (present' = {} => seenEmpty')
  BY <1>1 DEF RosterOK, Enter, Leave, Roster
<1> QED BY <1>2, <1>3, <1>4, <1>5, PartsNext DEF RosterOK

\* And so does a membership that is removed.
LEMMA RemoveMembershipStep ==
    ASSUME IInv, NEW p \in Participants, RemoveMembership(p)
    PROVE  IInv'
<1>1. TimersOK /\ RosterOK
  BY Parts
<1>2. TimersOK'
  BY <1>1, NothingKeepsTimers DEF RemoveMembership, Roster
<1>3. events' \in 0 .. MaxEvents
  BY <1>1, EmptyRoomAssumption DEF RosterOK, RemoveMembership, Event
<1>4. RosterOK'
  BY <1>1, <1>3 DEF RosterOK, RemoveMembership, Roster
<1> QED BY <1>2, <1>4, PartsNext

\* Reading the roster for a snapshot preserves it.
LEMMA ReadRosterStep ==
    ASSUME IInv, NEW h \in Handlers, ReadRoster(h)
    PROVE  IInv'
<1>1. TimersOK /\ RosterOK
  BY Parts
<1>0. Cardinality(present) \in Nat
  BY <1>1, EmptyRoomAssumption, FS_Subset, FS_CardinalityType DEF RosterOK
<1>2. TimersOK'
  <2>1. UNCHANGED <<gen, timer, expirers, reused>> /\ UNCHANGED <<command, seenEmpty>>
    BY DEF ReadRoster, Unobserved
  <2> QED BY <1>1, <2>1, NothingKeepsTimers
<1>3. handler' \in [Handlers -> Handler] /\ present' \subseteq Participants
  BY <1>1, <1>0 DEF RosterOK, ReadRoster, Unobserved, Handler
<1>4. /\ music' \in BOOLEAN /\ command' \in BOOLEAN /\ missed' \in BOOLEAN
      /\ seenEmpty' \in BOOLEAN /\ (present' = {} => seenEmpty')
  BY <1>1 DEF RosterOK, ReadRoster, Unobserved, Handler
<1>5. events' \in 0 .. MaxEvents
  BY <1>1, EmptyRoomAssumption DEF RosterOK, Event, Fault, ReadRoster, Unobserved, Handler
<1> QED BY <1>2, <1>3, <1>4, <1>5, PartsNext DEF RosterOK

\* A snapshot that fails preserves it.
LEMMA SnapshotFailsStep ==
    ASSUME IInv, NEW h \in Handlers, SnapshotFails(h)
    PROVE  IInv'
<1>1. TimersOK /\ RosterOK
  BY Parts
<1>2. TimersOK'
  <2>1. UNCHANGED <<gen, timer, expirers, reused>> /\ UNCHANGED <<command, seenEmpty>>
    BY DEF SnapshotFails
  <2> QED BY <1>1, <2>1, NothingKeepsTimers
<1>3. handler' \in [Handlers -> Handler] /\ present' \subseteq Participants
  BY <1>1 DEF RosterOK, SnapshotFails, Handler, Quiet
<1>4. /\ music' \in BOOLEAN /\ command' \in BOOLEAN /\ missed' \in BOOLEAN
      /\ seenEmpty' \in BOOLEAN /\ (present' = {} => seenEmpty')
  BY <1>1 DEF RosterOK, SnapshotFails, Handler, Quiet
<1>5. events' \in 0 .. MaxEvents
  BY <1>1, EmptyRoomAssumption DEF RosterOK, Event, Fault, SnapshotFails, Handler, Quiet
<1> QED BY <1>2, <1>3, <1>4, <1>5, PartsNext DEF RosterOK

\* Reporting a snapshot's count preserves it.
LEMMA ObserveSnapshotStep ==
    ASSUME IInv, NEW h \in Handlers, ObserveSnapshot(h)
    PROVE  IInv'
<1>1. TimersOK /\ RosterOK
  BY Parts
<1>2. TimersOK'
  <2>1. handler[h].count \in Nat
    BY <1>1 DEF RosterOK, Handler
  <2> QED BY <1>1, <2>1, ObserveKeepsTimers DEF ObserveSnapshot
<1>3. handler' \in [Handlers -> Handler] /\ present' \subseteq Participants
  BY <1>1 DEF RosterOK, ObserveSnapshot, Observe, Handler, Quiet
<1>4. /\ music' \in BOOLEAN /\ command' \in BOOLEAN /\ missed' \in BOOLEAN
      /\ seenEmpty' \in BOOLEAN /\ (present' = {} => seenEmpty')
  BY <1>1 DEF RosterOK, ObserveSnapshot, Observe, Handler, Quiet
<1>5. events' \in 0 .. MaxEvents
  BY <1>1, EmptyRoomAssumption DEF RosterOK, Event, Fault, ObserveSnapshot, Observe, Handler, Quiet
<1> QED BY <1>2, <1>3, <1>4, <1>5, PartsNext DEF RosterOK

\* A music command that gets the control lock preserves it.
LEMMA BeginCommandStep ==
    ASSUME IInv, BeginCommand
    PROVE  IInv'
<1>1. TimersOK /\ RosterOK
  BY Parts
<1>2. TimersOK'
  <2>1. UNCHANGED <<gen, timer, expirers, reused, seenEmpty>> /\ \A e \in expirers : ~e.locked
    BY DEF BeginCommand, LockFree, Unobserved
  <2> QED BY <1>1, <2>1 DEF TimersOK
<1>3. handler' \in [Handlers -> Handler] /\ present' \subseteq Participants
  BY <1>1 DEF RosterOK, BeginCommand, Unobserved
<1>4. /\ music' \in BOOLEAN /\ command' \in BOOLEAN /\ missed' \in BOOLEAN
      /\ seenEmpty' \in BOOLEAN /\ (present' = {} => seenEmpty')
  BY <1>1 DEF RosterOK, BeginCommand, Unobserved
<1>5. events' \in 0 .. MaxEvents
  BY <1>1, EmptyRoomAssumption DEF RosterOK, Event, Fault, BeginCommand, Unobserved
<1> QED BY <1>2, <1>3, <1>4, <1>5, PartsNext DEF RosterOK

\* And one that gives it back: no call has seen the room empty meanwhile.
LEMMA EndCommandStep ==
    ASSUME IInv, EndCommand
    PROVE  IInv'
<1>1. TimersOK /\ RosterOK
  BY Parts
<1>2. TimersOK'
  <2>1. UNCHANGED <<gen, timer, expirers, reused>> /\ command /\ ~command'
    BY DEF EndCommand
  <2> QED BY <1>1, <2>1 DEF TimersOK
<1>3. handler' \in [Handlers -> Handler] /\ present' \subseteq Participants
  BY <1>1 DEF RosterOK, EndCommand
<1>4. /\ music' \in BOOLEAN /\ command' \in BOOLEAN /\ missed' \in BOOLEAN
      /\ seenEmpty' \in BOOLEAN /\ (present' = {} => seenEmpty')
  BY <1>1 DEF RosterOK, EndCommand
<1>5. events' \in 0 .. MaxEvents
  BY <1>1, EmptyRoomAssumption DEF RosterOK, Event, Fault, EndCommand
<1> QED BY <1>2, <1>3, <1>4, <1>5, PartsNext DEF RosterOK

\* A timer that fires preserves it.
LEMMA FireStep ==
    ASSUME IInv, Fire
    PROVE  IInv'
<1>1. TimersOK /\ RosterOK
  BY Parts
<1>2. TimersOK'
  <2> DEFINE f == [gen |-> timer, pc |-> "fired", locked |-> FALSE]
  <2>1. f \in Expirer /\ f.gen = timer /\ f.pc = "fired" /\ ~f.locked
    BY <1>1 DEF Fire, TimersOK, Expirer, Generation
  <2>2. expirers' = expirers \cup {f} /\ \A e \in expirers : e.gen # timer
    BY DEF Fire
  <2>3. UNCHANGED <<gen, timer, reused, command, seenEmpty>> /\ timer \in Nat \ {0}
    BY <1>1 DEF Fire, Unobserved, TimersOK
  <2> HIDE DEF f
  <2>4. \A e \in expirers' : e \in expirers \/ e = f
    BY <2>2
  <2>5. \A x, y \in expirers' : x.gen = y.gen \/ (x.locked /\ y.locked) => x = y
    BY <1>1, <2>1, <2>2, <2>4 DEF TimersOK
  <2> QED BY <1>1, <2>1, <2>2, <2>3, <2>4, <2>5 DEF TimersOK
<1>3. handler' \in [Handlers -> Handler] /\ present' \subseteq Participants
  BY <1>1 DEF RosterOK, Fire, Unobserved
<1>4. /\ music' \in BOOLEAN /\ command' \in BOOLEAN /\ missed' \in BOOLEAN
      /\ seenEmpty' \in BOOLEAN /\ (present' = {} => seenEmpty')
  BY <1>1 DEF RosterOK, Fire, Unobserved
<1>5. events' \in 0 .. MaxEvents
  BY <1>1, EmptyRoomAssumption DEF RosterOK, Event, Fault, Fire, Unobserved
<1> QED BY <1>2, <1>3, <1>4, <1>5, PartsNext DEF RosterOK

\* A call that starts preserves it.
LEMMA StartStep ==
    ASSUME IInv, NEW e \in expirers, Start(e)
    PROVE  IInv'
<1>1. TimersOK /\ RosterOK
  BY Parts
<1>0. e \in Expirer
  BY <1>1 DEF TimersOK
<1>2. TimersOK'
  <2>1. CASE gen = e.gen /\ timer # 0
    <3> DEFINE f == [gen |-> e.gen, pc |-> "first", locked |-> e.locked]
    <3>1. expirers' = (expirers \ {e}) \cup {f}
      BY <1>0, <2>1 DEF Start, Goto, Expirer
    <3>2. UNCHANGED <<gen, reused, command, seenEmpty>> /\ timer' = 0
      BY <2>1 DEF Start, Unobserved
    <3>3. f \in Expirer /\ f.gen = e.gen /\ f.pc = "first" /\ f.locked = e.locked
      BY <1>0, <2>1 DEF Expirer
    <3>4. e.gen # timer'
      BY <1>0, <1>1, <2>1, <3>2 DEF TimersOK, Start, Expirer, Generation
    <3>5. f.locked => e.locked \/ LockFree
      BY <2>1, <3>3 DEF Start
    <3>6. f.pc \in {"second", "clearing"} => f.locked
      BY <1>1, <2>1, <3>3 DEF TimersOK, Start
    <3>7. f.pc = "clearing" => seenEmpty
      BY <1>1, <1>0, <2>1, <3>3 DEF TimersOK, RosterOK, Start
    <3> HIDE DEF f
    <3> QED BY <1>1, <3>1, <3>2, <3>3, <3>4, <3>5, <3>6, <3>7, GotoKeepsTimers DEF TimersOK
  <2>2. CASE ~(gen = e.gen /\ timer # 0)
    <3>1. expirers' \subseteq expirers /\ UNCHANGED <<gen, timer, reused, command, seenEmpty>>
      BY <2>2 DEF Start, Done, Unobserved
    <3> QED BY <1>1, <3>1, DoneKeepsTimers
  <2> QED BY <2>1, <2>2
<1>3. handler' \in [Handlers -> Handler] /\ present' \subseteq Participants
  BY <1>1 DEF RosterOK, Start
<1>4. /\ music' \in BOOLEAN /\ command' \in BOOLEAN /\ missed' \in BOOLEAN
      /\ seenEmpty' \in BOOLEAN /\ (present' = {} => seenEmpty')
  BY <1>1 DEF RosterOK, Start
<1>5. events' \in 0 .. MaxEvents
  BY <1>1, EmptyRoomAssumption DEF RosterOK, Event, Fault, Start
<1> QED BY <1>2, <1>3, <1>4, <1>5, PartsNext DEF RosterOK

\* Its first look at the roster preserves it.
LEMMA FirstCheckStep ==
    ASSUME IInv, NEW e \in expirers, FirstCheck(e)
    PROVE  IInv'
<1>1. TimersOK /\ RosterOK
  BY Parts
<1>0. e \in Expirer
  BY <1>1 DEF TimersOK
<1>2. TimersOK'
  <2>1. CASE present = {}
    <3> DEFINE f == [gen |-> e.gen, pc |-> "waiting", locked |-> e.locked]
    <3>1. expirers' = (expirers \ {e}) \cup {f}
      BY <1>0, <2>1 DEF FirstCheck, Goto, Expirer
    <3>2. UNCHANGED <<gen, reused, command, seenEmpty>> /\ UNCHANGED timer
      BY <2>1 DEF FirstCheck, Unobserved
    <3>3. f \in Expirer /\ f.gen = e.gen /\ f.pc = "waiting" /\ f.locked = e.locked
      BY <1>0, <2>1 DEF Expirer
    <3>4. e.gen # timer'
      BY <1>0, <1>1, <2>1, <3>2 DEF TimersOK, FirstCheck, Expirer, Generation
    <3>5. f.locked => e.locked \/ LockFree
      BY <2>1, <3>3 DEF FirstCheck
    <3>6. f.pc \in {"second", "clearing"} => f.locked
      BY <1>1, <2>1, <3>3 DEF TimersOK, FirstCheck
    <3>7. f.pc = "clearing" => seenEmpty
      BY <1>1, <1>0, <2>1, <3>3 DEF TimersOK, RosterOK, FirstCheck
    <3> HIDE DEF f
    <3> QED BY <1>1, <3>1, <3>2, <3>3, <3>4, <3>5, <3>6, <3>7, GotoKeepsTimers DEF TimersOK
  <2>2. CASE present # {}
    <3> DEFINE f == [gen |-> e.gen, pc |-> "occupied", locked |-> e.locked]
    <3>1. expirers' = (expirers \ {e}) \cup {f}
      BY <1>0, <2>2 DEF FirstCheck, Goto, Expirer
    <3>2. UNCHANGED <<gen, reused, command, seenEmpty>> /\ UNCHANGED timer
      BY <2>2 DEF FirstCheck, Unobserved
    <3>3. f \in Expirer /\ f.gen = e.gen /\ f.pc = "occupied" /\ f.locked = e.locked
      BY <1>0, <2>2 DEF Expirer
    <3>4. e.gen # timer'
      BY <1>0, <1>1, <2>2, <3>2 DEF TimersOK, FirstCheck, Expirer, Generation
    <3>5. f.locked => e.locked \/ LockFree
      BY <2>2, <3>3 DEF FirstCheck
    <3>6. f.pc \in {"second", "clearing"} => f.locked
      BY <1>1, <2>2, <3>3 DEF TimersOK, FirstCheck
    <3>7. f.pc = "clearing" => seenEmpty
      BY <1>1, <1>0, <2>2, <3>3 DEF TimersOK, RosterOK, FirstCheck
    <3> HIDE DEF f
    <3> QED BY <1>1, <3>1, <3>2, <3>3, <3>4, <3>5, <3>6, <3>7, GotoKeepsTimers DEF TimersOK
  <2> QED BY <2>1, <2>2
<1>3. handler' \in [Handlers -> Handler] /\ present' \subseteq Participants
  BY <1>1 DEF RosterOK, FirstCheck, Unobserved
<1>4. /\ music' \in BOOLEAN /\ command' \in BOOLEAN /\ missed' \in BOOLEAN
      /\ seenEmpty' \in BOOLEAN /\ (present' = {} => seenEmpty')
  BY <1>1 DEF RosterOK, FirstCheck, Unobserved
<1>5. events' \in 0 .. MaxEvents
  BY <1>1, EmptyRoomAssumption DEF RosterOK, Event, Fault, FirstCheck, Unobserved
<1> QED BY <1>2, <1>3, <1>4, <1>5, PartsNext DEF RosterOK

\* A look that fails preserves it.
LEMMA CheckFailsStep ==
    ASSUME IInv, NEW e \in expirers, CheckFails(e)
    PROVE  IInv'
<1>1. TimersOK /\ RosterOK
  BY Parts
<1>0. e \in Expirer
  BY <1>1 DEF TimersOK
<1>2. TimersOK'
  <2> DEFINE f == [gen |-> e.gen, pc |-> "rearm", locked |-> e.locked]
  <2>1. expirers' = (expirers \ {e}) \cup {f}
    BY <1>0 DEF CheckFails, Goto, Expirer
  <2>2. UNCHANGED <<gen, reused, command, seenEmpty>> /\ UNCHANGED timer
    BY DEF CheckFails, Unobserved
  <2>3. f \in Expirer /\ f.gen = e.gen /\ f.pc = "rearm" /\ f.locked = e.locked
    BY <1>0 DEF Expirer
  <2>4. e.gen # timer'
    BY <1>0, <1>1, <2>2 DEF TimersOK, CheckFails, Expirer, Generation
  <2>5. f.locked => e.locked \/ LockFree
    BY <2>3 DEF CheckFails
  <2>6. f.pc \in {"second", "clearing"} => f.locked
    BY <1>1, <2>3 DEF TimersOK, CheckFails
  <2>7. f.pc = "clearing" => seenEmpty
    BY <1>1, <1>0, <2>3 DEF TimersOK, RosterOK, CheckFails
  <2> HIDE DEF f
  <2> QED BY <1>1, <2>1, <2>2, <2>3, <2>4, <2>5, <2>6, <2>7, GotoKeepsTimers DEF TimersOK
<1>3. handler' \in [Handlers -> Handler] /\ present' \subseteq Participants
  BY <1>1 DEF RosterOK, CheckFails, Unobserved
<1>4. /\ music' \in BOOLEAN /\ command' \in BOOLEAN /\ missed' \in BOOLEAN
      /\ seenEmpty' \in BOOLEAN /\ (present' = {} => seenEmpty')
  BY <1>1 DEF RosterOK, CheckFails, Unobserved
<1>5. events' \in 0 .. MaxEvents
  BY <1>1, EmptyRoomAssumption DEF RosterOK, Event, Fault, CheckFails, Unobserved
<1> QED BY <1>2, <1>3, <1>4, <1>5, PartsNext DEF RosterOK

\* A call that found the room occupied preserves it.
LEMMA ObserveOccupiedStep ==
    ASSUME IInv, NEW e \in expirers, ObserveOccupied(e)
    PROVE  IInv'
<1>1. TimersOK /\ RosterOK
  BY Parts
<1>0. e \in Expirer
  BY <1>1 DEF TimersOK
<1>2. TimersOK'
  BY <1>1, ObserveKeepsTimers DEF ObserveOccupied, Done
<1>3. handler' \in [Handlers -> Handler] /\ present' \subseteq Participants
  BY <1>1 DEF RosterOK, ObserveOccupied, Observe
<1>4. /\ music' \in BOOLEAN /\ command' \in BOOLEAN /\ missed' \in BOOLEAN
      /\ seenEmpty' \in BOOLEAN /\ (present' = {} => seenEmpty')
  BY <1>1 DEF RosterOK, ObserveOccupied, Observe
<1>5. events' \in 0 .. MaxEvents
  BY <1>1, EmptyRoomAssumption DEF RosterOK, Event, Fault, ObserveOccupied, Observe
<1> QED BY <1>2, <1>3, <1>4, <1>5, PartsNext DEF RosterOK

\* A call that gets the control lock preserves it.
LEMMA ConfirmStep ==
    ASSUME IInv, NEW e \in expirers, Confirm(e)
    PROVE  IInv'
<1>1. TimersOK /\ RosterOK
  BY Parts
<1>0. e \in Expirer
  BY <1>1 DEF TimersOK
<1>2. TimersOK'
  <2>1. CASE gen = e.gen
    <3> DEFINE f == [gen |-> e.gen, pc |-> "second", locked |-> TRUE]
    <3>1. expirers' = (expirers \ {e}) \cup {f}
      BY <2>1 DEF Confirm
    <3>2. UNCHANGED <<gen, reused, command, seenEmpty>> /\ UNCHANGED timer
      BY <2>1 DEF Confirm, Unobserved
    <3>3. f \in Expirer /\ f.gen = e.gen /\ f.pc = "second" /\ f.locked = TRUE
      BY <1>0, <2>1 DEF Expirer
    <3>4. e.gen # timer'
      BY <1>0, <1>1, <2>1, <3>2 DEF TimersOK, Confirm, Expirer, Generation
    <3>5. f.locked => e.locked \/ LockFree
      BY <2>1, <3>3 DEF Confirm
    <3>6. f.pc \in {"second", "clearing"} => f.locked
      BY <1>1, <2>1, <3>3 DEF TimersOK, Confirm
    <3>7. f.pc = "clearing" => seenEmpty
      BY <1>1, <1>0, <2>1, <3>3 DEF TimersOK, RosterOK, Confirm
    <3> HIDE DEF f
    <3> QED BY <1>1, <3>1, <3>2, <3>3, <3>4, <3>5, <3>6, <3>7, GotoKeepsTimers DEF TimersOK
  <2>2. CASE gen # e.gen
    <3>1. expirers' \subseteq expirers /\ UNCHANGED <<gen, timer, reused, command, seenEmpty>>
      BY <2>2 DEF Confirm, Done, Unobserved
    <3> QED BY <1>1, <3>1, DoneKeepsTimers
  <2> QED BY <2>1, <2>2
<1>3. handler' \in [Handlers -> Handler] /\ present' \subseteq Participants
  BY <1>1 DEF RosterOK, Confirm, Unobserved
<1>4. /\ music' \in BOOLEAN /\ command' \in BOOLEAN /\ missed' \in BOOLEAN
      /\ seenEmpty' \in BOOLEAN /\ (present' = {} => seenEmpty')
  BY <1>1 DEF RosterOK, Confirm, Unobserved
<1>5. events' \in 0 .. MaxEvents
  BY <1>1, EmptyRoomAssumption DEF RosterOK, Event, Fault, Confirm, Unobserved
<1> QED BY <1>2, <1>3, <1>4, <1>5, PartsNext DEF RosterOK

\* Its second look preserves it: a room that is empty has been empty since the last command.
LEMMA SecondCheckStep ==
    ASSUME IInv, NEW e \in expirers, SecondCheck(e)
    PROVE  IInv'
<1>1. TimersOK /\ RosterOK
  BY Parts
<1>0. e \in Expirer
  BY <1>1 DEF TimersOK
<1>2. TimersOK'
  <2>1. CASE present = {}
    <3> DEFINE f == [gen |-> e.gen, pc |-> "clearing", locked |-> e.locked]
    <3>1. expirers' = (expirers \ {e}) \cup {f}
      BY <1>0, <2>1 DEF SecondCheck, Goto, Expirer
    <3>2. UNCHANGED <<gen, reused, command, seenEmpty>> /\ UNCHANGED timer
      BY <2>1 DEF SecondCheck, Unobserved
    <3>3. f \in Expirer /\ f.gen = e.gen /\ f.pc = "clearing" /\ f.locked = e.locked
      BY <1>0, <2>1 DEF Expirer
    <3>4. e.gen # timer'
      BY <1>0, <1>1, <2>1, <3>2 DEF TimersOK, SecondCheck, Expirer, Generation
    <3>5. f.locked => e.locked \/ LockFree
      BY <2>1, <3>3 DEF SecondCheck
    <3>6. f.pc \in {"second", "clearing"} => f.locked
      BY <1>1, <2>1, <3>3 DEF TimersOK, SecondCheck
    <3>7. f.pc = "clearing" => seenEmpty
      BY <1>1, <1>0, <2>1, <3>3 DEF TimersOK, RosterOK, SecondCheck
    <3> HIDE DEF f
    <3> QED BY <1>1, <3>1, <3>2, <3>3, <3>4, <3>5, <3>6, <3>7, GotoKeepsTimers DEF TimersOK
  <2>2. CASE present # {}
    <3> DEFINE f == [gen |-> e.gen, pc |-> "occupied", locked |-> e.locked]
    <3>1. expirers' = (expirers \ {e}) \cup {f}
      BY <1>0, <2>2 DEF SecondCheck, Goto, Expirer
    <3>2. UNCHANGED <<gen, reused, command, seenEmpty>> /\ UNCHANGED timer
      BY <2>2 DEF SecondCheck, Unobserved
    <3>3. f \in Expirer /\ f.gen = e.gen /\ f.pc = "occupied" /\ f.locked = e.locked
      BY <1>0, <2>2 DEF Expirer
    <3>4. e.gen # timer'
      BY <1>0, <1>1, <2>2, <3>2 DEF TimersOK, SecondCheck, Expirer, Generation
    <3>5. f.locked => e.locked \/ LockFree
      BY <2>2, <3>3 DEF SecondCheck
    <3>6. f.pc \in {"second", "clearing"} => f.locked
      BY <1>1, <2>2, <3>3 DEF TimersOK, SecondCheck
    <3>7. f.pc = "clearing" => seenEmpty
      BY <1>1, <1>0, <2>2, <3>3 DEF TimersOK, RosterOK, SecondCheck
    <3> HIDE DEF f
    <3> QED BY <1>1, <3>1, <3>2, <3>3, <3>4, <3>5, <3>6, <3>7, GotoKeepsTimers DEF TimersOK
  <2> QED BY <2>1, <2>2
<1>3. handler' \in [Handlers -> Handler] /\ present' \subseteq Participants
  BY <1>1 DEF RosterOK, SecondCheck, Unobserved
<1>4. /\ music' \in BOOLEAN /\ command' \in BOOLEAN /\ missed' \in BOOLEAN
      /\ seenEmpty' \in BOOLEAN /\ (present' = {} => seenEmpty')
  BY <1>1 DEF RosterOK, SecondCheck, Unobserved
<1>5. events' \in 0 .. MaxEvents
  BY <1>1, EmptyRoomAssumption DEF RosterOK, Event, Fault, SecondCheck, Unobserved
<1> QED BY <1>2, <1>3, <1>4, <1>5, PartsNext DEF RosterOK

\* The clearing preserves it.
LEMMA ClearStep ==
    ASSUME IInv, NEW e \in expirers, Clear(e)
    PROVE  IInv'
<1>1. TimersOK /\ RosterOK
  BY Parts
<1>2. TimersOK'
  <2>1. expirers' \subseteq expirers /\ UNCHANGED <<gen, timer, reused, command, seenEmpty>>
    BY DEF Clear, Done, Unobserved
  <2> QED BY <1>1, <2>1, DoneKeepsTimers
<1>3. handler' \in [Handlers -> Handler] /\ present' \subseteq Participants
  BY <1>1 DEF RosterOK, Clear, Unobserved
<1>4. /\ music' \in BOOLEAN /\ command' \in BOOLEAN /\ missed' \in BOOLEAN
      /\ seenEmpty' \in BOOLEAN /\ (present' = {} => seenEmpty')
  BY <1>1 DEF RosterOK, Clear, Unobserved
<1>5. events' \in 0 .. MaxEvents
  BY <1>1, EmptyRoomAssumption DEF RosterOK, Event, Fault, Clear, Unobserved
<1> QED BY <1>2, <1>3, <1>4, <1>5, PartsNext DEF RosterOK

\* A clearing that fails preserves it.
LEMMA ClearFailsStep ==
    ASSUME IInv, NEW e \in expirers, ClearFails(e)
    PROVE  IInv'
<1>1. TimersOK /\ RosterOK
  BY Parts
<1>0. e \in Expirer
  BY <1>1 DEF TimersOK
<1>2. TimersOK'
  <2> DEFINE f == [gen |-> e.gen, pc |-> "rearm", locked |-> e.locked]
  <2>1. expirers' = (expirers \ {e}) \cup {f}
    BY <1>0 DEF ClearFails, Goto, Expirer
  <2>2. UNCHANGED <<gen, reused, command, seenEmpty>> /\ UNCHANGED timer
    BY DEF ClearFails, Unobserved
  <2>3. f \in Expirer /\ f.gen = e.gen /\ f.pc = "rearm" /\ f.locked = e.locked
    BY <1>0 DEF Expirer
  <2>4. e.gen # timer'
    BY <1>0, <1>1, <2>2 DEF TimersOK, ClearFails, Expirer, Generation
  <2>5. f.locked => e.locked \/ LockFree
    BY <2>3 DEF ClearFails
  <2>6. f.pc \in {"second", "clearing"} => f.locked
    BY <1>1, <2>3 DEF TimersOK, ClearFails
  <2>7. f.pc = "clearing" => seenEmpty
    BY <1>1, <1>0, <2>3 DEF TimersOK, RosterOK, ClearFails
  <2> HIDE DEF f
  <2> QED BY <1>1, <2>1, <2>2, <2>3, <2>4, <2>5, <2>6, <2>7, GotoKeepsTimers DEF TimersOK
<1>3. handler' \in [Handlers -> Handler] /\ present' \subseteq Participants
  BY <1>1 DEF RosterOK, ClearFails, Unobserved
<1>4. /\ music' \in BOOLEAN /\ command' \in BOOLEAN /\ missed' \in BOOLEAN
      /\ seenEmpty' \in BOOLEAN /\ (present' = {} => seenEmpty')
  BY <1>1 DEF RosterOK, ClearFails, Unobserved
<1>5. events' \in 0 .. MaxEvents
  BY <1>1, EmptyRoomAssumption DEF RosterOK, Event, Fault, ClearFails, Unobserved
<1> QED BY <1>2, <1>3, <1>4, <1>5, PartsNext DEF RosterOK

\* Trying again preserves it.
LEMMA RearmStep ==
    ASSUME IInv, NEW e \in expirers, Rearm(e)
    PROVE  IInv'
<1>1. TimersOK /\ RosterOK
  BY Parts
<1>2. TimersOK'
  <2>1. CASE gen = e.gen /\ timer = 0
    <3>1. gen' = gen + 1 /\ timer' = gen + 1 /\ expirers' = expirers \ {e}
          /\ UNCHANGED <<reused, command, seenEmpty>>
      BY <2>1 DEF Rearm, Done
    <3> QED BY <1>1, <3>1 DEF TimersOK, Expirer, Generation
  <2>2. CASE ~(gen = e.gen /\ timer = 0)
    <3>1. expirers' \subseteq expirers /\ UNCHANGED <<gen, timer, reused, command, seenEmpty>>
      BY <2>2 DEF Rearm, Done, Unobserved
    <3> QED BY <1>1, <3>1, DoneKeepsTimers
  <2> QED BY <2>1, <2>2
<1>3. handler' \in [Handlers -> Handler] /\ present' \subseteq Participants
  BY <1>1 DEF RosterOK, Rearm
<1>4. /\ music' \in BOOLEAN /\ command' \in BOOLEAN /\ missed' \in BOOLEAN
      /\ seenEmpty' \in BOOLEAN /\ (present' = {} => seenEmpty')
  BY <1>1 DEF RosterOK, Rearm
<1>5. events' \in 0 .. MaxEvents
  BY <1>1, EmptyRoomAssumption DEF RosterOK, Event, Fault, Rearm
<1> QED BY <1>2, <1>3, <1>4, <1>5, PartsNext DEF RosterOK

\* A restart preserves it.
LEMMA RestartStep ==
    ASSUME IInv, Restart
    PROVE  IInv'
<1>1. TimersOK /\ RosterOK
  BY Parts
<1>2. TimersOK'
  <2>1. expirers' = {} /\ ~command' /\ reused' = {}
    BY DEF Restart
  <2>2. gen' \in {0, 1} /\ timer' \in {0, gen'}
    BY DEF Restart
  <2> QED BY <2>1, <2>2 DEF TimersOK
<1>3. handler' \in [Handlers -> Handler] /\ present' \subseteq Participants
  BY <1>1 DEF RosterOK, Restart, Handler, Quiet
<1>4. /\ music' \in BOOLEAN /\ command' \in BOOLEAN /\ missed' \in BOOLEAN
      /\ seenEmpty' \in BOOLEAN /\ (present' = {} => seenEmpty')
  BY <1>1 DEF RosterOK, Restart, Handler, Quiet
<1>5. events' \in 0 .. MaxEvents
  BY <1>1, EmptyRoomAssumption DEF RosterOK, Event, Fault, Restart, Handler, Quiet
<1> QED BY <1>2, <1>3, <1>4, <1>5, PartsNext DEF RosterOK

\* Every step preserves the invariant.
LEMMA NextPreserves == IInv /\ [Next]_vars => IInv'
<1> SUFFICES ASSUME IInv, [Next]_vars PROVE IInv'
  OBVIOUS
<1>1. ASSUME NEW h \in Handlers, NEW p \in Participants, Enter(h, p) \/ Leave(h, p) PROVE IInv'
  BY <1>1, RequestSteps
<1>2. ASSUME NEW h \in Handlers, ReadRoster(h) \/ SnapshotFails(h) \/ ObserveSnapshot(h)
      PROVE  IInv'
  BY <1>2, ReadRosterStep, SnapshotFailsStep, ObserveSnapshotStep
<1>3. ASSUME NEW p \in Participants, RemoveMembership(p) PROVE IInv'
  BY <1>3, RemoveMembershipStep
<1>4. CASE BeginCommand \/ EndCommand \/ Fire \/ Restart
  BY <1>4, BeginCommandStep, EndCommandStep, FireStep, RestartStep
<1>5. ASSUME NEW e \in expirers, Expires(e) PROVE IInv'
  BY <1>5, StartStep, FirstCheckStep, ObserveOccupiedStep, SecondCheckStep, ClearStep, RearmStep
     DEF Expires
<1>6. ASSUME NEW e \in expirers, Confirm(e) \/ CheckFails(e) \/ ClearFails(e) PROVE IInv'
  BY <1>6, ConfirmStep, CheckFailsStep, ClearFailsStep
<1>7. CASE UNCHANGED vars
  BY <1>7 DEF vars, IInv, TypeOK, ClearingHasSeenEmpty, ReusedGenerationsEnded, EmptyIsSeen
<1> QED BY <1>1, <1>2, <1>3, <1>4, <1>5, <1>6, <1>7 DEF Next

\* The invariant holds in every reachable state.
LEMMA Invariant == Spec => []IInv
<1> QED BY Start0, NextPreserves, PTL DEF Spec

(* What a reader should know of. *)

\* The timer that is armed is of the current generation, one expireEmptyRoom call
\* serves a generation, and the control lock has one holder.
THEOREM TypeCorrect == Spec => []TypeOK
<1>1. IInv => TypeOK
  BY DEF IInv
<1> QED BY <1>1, Invariant, PTL

\* An expiry clears only music that was there when the room was last empty or before.
THEOREM CommandsSurvive == Spec => QueuedMusicSurvives
<1>1. IInv /\ [Next]_vars => [(\E e \in expirers : Clear(e)) /\ music => seenEmpty]_vars
  BY DEF IInv, ClearingHasSeenEmpty, Clear
<1> QED BY <1>1, Invariant, PTL DEF Spec, QueuedMusicSurvives

\* A timer of before a visible member was observed is not confirmed under the lock.
THEOREM OldTimersEnd == Spec => ReusedRoomsAreNotConfirmed
<1>1. IInv /\ [Next]_vars
        => [\A e \in expirers : Confirm(e) /\ e.gen \in reused => Done(e)]_vars
  <2> SUFFICES ASSUME IInv, NEW e \in expirers, Confirm(e), e.gen \in reused
               PROVE  Done(e)
    BY DEF vars
  <2>1. gen # e.gen
    BY DEF IInv, TypeOK, ReusedGenerationsEnded
  <2> QED BY <2>1 DEF Confirm
<1> QED BY <1>1, Invariant, PTL DEF Spec, ReusedRoomsAreNotConfirmed

-----------------------------------------------------------------------------
(* Sequences.  FlattenSeq, and Kept, which is made of it, are recursive     *)
(* functions: that they are what their recursion says is proved by a least *)
(* counterexample.                                                         *)

\* A set of natural numbers that is not empty has a least one.
LEMMA LeastNumber ==
    ASSUME NEW T \in SUBSET Nat, T # {}
    PROVE  \E n \in T : \A m \in T : n <= m
<1> DEFINE Upward(n) == 0 .. n
           F == {Upward(n) : n \in T}
<1>1. F \subseteq FiniteSubsetsOf(Nat)
  <2>1. \A n \in T : IsFiniteSet(Upward(n)) /\ Upward(n) \in SUBSET Nat
    BY FS_Interval
  <2> HIDE DEF Upward
  <2> QED BY <2>1 DEF FiniteSubsetsOf
<1>2. F # {}
  OBVIOUS
<1>3. PICK D \in F : \A E \in F : ~ (<<E, D>> \in StrictSubsetOrdering(Nat))
  BY <1>1, <1>2, FS_StrictSubsetOrderingWellFounded, WFMin
<1>4. PICK n \in T : D = Upward(n)
  OBVIOUS
<1>5. \A m \in T : n <= m
  <2> SUFFICES ASSUME NEW m \in T, m < n PROVE FALSE
    OBVIOUS
  <2>1. Upward(m) \subseteq Upward(n) /\ n \in Upward(n) /\ n \notin Upward(m)
    OBVIOUS
  <2>2. Upward(m) \in F /\ Upward(m) \in SUBSET Nat /\ Upward(n) \in SUBSET Nat
    OBVIOUS
  <2>3. <<Upward(m), Upward(n)>> \in StrictSubsetOrdering(Nat)
    BY <2>1, <2>2 DEF StrictSubsetOrdering
  <2> QED BY <2>2, <2>3, <1>3, <1>4
<1> QED BY <1>5

\* What a set of numbers misses from 1 on, it misses first somewhere.
LEMMA FirstMissing ==
    ASSUME NEW n \in Nat, NEW T, ~ (1 .. n \subseteq T)
    PROVE  \E m \in 1 .. n : m \notin T /\ \A i \in 1 .. m - 1 : i \in T
<1> DEFINE M == {m \in 1 .. n : m \notin T}
<1>1. M \in SUBSET Nat /\ M # {}
  OBVIOUS
<1>2. PICK m \in M : \A i \in M : m <= i
  BY <1>1, LeastNumber
<1> QED BY <1>2

\* The function in FlattenSeq.
Flatten(seqs) ==
    LET flatten[i \in 1..Len(seqs)] ==
        IF i = 1 THEN seqs[i] ELSE flatten[i-1] \o seqs[i]
    IN flatten

\* The function is what its recursion says: every prefix of it exists, or one
\* would be the first that does not.
LEMMA FlattenExists ==
    ASSUME NEW S, NEW seqs \in Seq(Seq(S))
    PROVE  Flatten(seqs) = [i \in 1 .. Len(seqs) |->
              IF i = 1 THEN seqs[i] ELSE Flatten(seqs)[i - 1] \o seqs[i]]
<1> DEFINE Is(f, m) == f = [i \in 1 .. m |-> IF i = 1 THEN seqs[i] ELSE f[i - 1] \o seqs[i]]
           T == {m \in Nat : \E f : Is(f, m)}
<1>1. Len(seqs) \in Nat
  BY LenProperties
<1>2. 0 \in T
  <2> DEFINE f == [i \in 1 .. 0 |-> 0]
  <2>1. Is(f, 0)
    OBVIOUS
  <2> QED BY <2>1
<1>3. ASSUME NEW m \in Nat, m \in T PROVE m + 1 \in T
  <2>1. PICK f : Is(f, m)
    BY <1>3
  <2> DEFINE last == IF m = 0 THEN seqs[1] ELSE f[m] \o seqs[m + 1]
             g == [i \in 1 .. m + 1 |-> IF i = m + 1 THEN last ELSE f[i]]
  <2>2. \A i \in 1 .. m : f[i] = IF i = 1 THEN seqs[i] ELSE f[i - 1] \o seqs[i]
    BY <2>1
  <2>3. g = [i \in 1 .. m + 1 |-> IF i = 1 THEN seqs[i] ELSE g[i - 1] \o seqs[i]]
    <3>1. ASSUME NEW i \in 1 .. m + 1
          PROVE  (IF i = m + 1 THEN last ELSE f[i])
                   = IF i = 1 THEN seqs[i] ELSE g[i - 1] \o seqs[i]
      <4>1. CASE i = m + 1
        BY <4>1
      <4>2. CASE i # m + 1
        BY <4>2, <2>2
      <4> QED BY <4>1, <4>2
    <3> QED BY <3>1, Zenon
  <2> HIDE DEF g
  <2>4. \E h : Is(h, m + 1)
    BY <2>3
  <2>5. m + 1 \in Nat
    OBVIOUS
  <2> HIDE DEF Is
  <2> QED BY <2>4, <2>5
<1>4. 1 .. Len(seqs) \subseteq T
  <2> SUFFICES ASSUME ~ (1 .. Len(seqs) \subseteq T) PROVE FALSE
    OBVIOUS
  <2> HIDE DEF T
  <2>1. PICK m \in 1 .. Len(seqs) : m \notin T /\ \A i \in 1 .. m - 1 : i \in T
    BY <1>1, FirstMissing
  <2>2. m - 1 \in T /\ m - 1 \in Nat
    BY <2>1, <1>1, <1>2
  <2> QED BY <2>1, <2>2, <1>1, <1>3
<1>5. \E f : Is(f, Len(seqs))
  <2>1. Len(seqs) \in T
    <3> HIDE DEF T
    <3>1. Len(seqs) # 0 => Len(seqs) \in 1 .. Len(seqs)
      BY <1>1
    <3> QED BY <3>1, <1>2, <1>4
  <2> HIDE DEF Is
  <2> QED BY <2>1
<1> QED BY <1>5 DEF Flatten

\* FlattenSeq takes the last value of that function.
LEMMA FlattenIs ==
    ASSUME NEW S, NEW seqs \in Seq(Seq(S))
    PROVE  FlattenSeq(seqs) = IF Len(seqs) = 0 THEN << >> ELSE Flatten(seqs)[Len(seqs)]
<1>1. Len(seqs) = 0 => seqs = << >>
  OBVIOUS
<1> QED BY <1>1 DEF FlattenSeq, Flatten

\* What FlattenSeq makes of the first m of the sequences.
LEMMA FlattenPrefix ==
    ASSUME NEW S, NEW seqs \in Seq(Seq(S)), NEW m \in 1 .. Len(seqs)
    PROVE  FlattenSeq(SubSeq(seqs, 1, m)) = Flatten(seqs)[m]
<1> DEFINE pre == SubSeq(seqs, 1, m)
<1>1. pre \in Seq(Seq(S)) /\ Len(pre) = m /\ \A i \in 1 .. m : pre[i] = seqs[i]
  <2>1. Len(seqs) \in Nat /\ m \in Nat /\ \A i \in 1 .. m : seqs[i] \in Seq(S)
    BY LenProperties, ElementOfSeq
  <2> QED BY <2>1, SubSeqProperties
<1> DEFINE T == {i \in 1 .. m : Flatten(pre)[i] = Flatten(seqs)[i]}
<1>2. Len(seqs) \in Nat /\ m \in Nat
  BY LenProperties
<1>3. \A i \in 1 .. m : Flatten(seqs)[i] =
         IF i = 1 THEN seqs[i] ELSE Flatten(seqs)[i - 1] \o seqs[i]
  <2>1. Flatten(seqs) = [i \in 1 .. Len(seqs) |->
              IF i = 1 THEN seqs[i] ELSE Flatten(seqs)[i - 1] \o seqs[i]]
    BY FlattenExists
  <2>2. \A i \in 1 .. m : i \in 1 .. Len(seqs)
    BY <1>2
  <2> HIDE DEF pre
  <2> QED BY <2>1, <2>2
<1>4. \A i \in 1 .. m : Flatten(pre)[i] =
         IF i = 1 THEN pre[i] ELSE Flatten(pre)[i - 1] \o pre[i]
  <2> HIDE DEF pre
  <2>1. Flatten(pre) = [i \in 1 .. Len(pre) |->
              IF i = 1 THEN pre[i] ELSE Flatten(pre)[i - 1] \o pre[i]]
    BY <1>1, FlattenExists
  <2> QED BY <2>1, <1>1
<1>5. 1 .. m \subseteq T
  <2> SUFFICES ASSUME ~ (1 .. m \subseteq T) PROVE FALSE
    OBVIOUS
  <2>1. PICK i \in 1 .. m : i \notin T /\ \A j \in 1 .. i - 1 : j \in T
    <3> HIDE DEF T
    <3> QED BY <1>2, FirstMissing
  <2> HIDE DEF pre
  <2>2. i # 1 => Flatten(pre)[i - 1] = Flatten(seqs)[i - 1]
    BY <2>1, <1>2
  <2>3. /\ Flatten(seqs)[i] = IF i = 1 THEN seqs[i] ELSE Flatten(seqs)[i - 1] \o seqs[i]
        /\ Flatten(pre)[i] = IF i = 1 THEN pre[i] ELSE Flatten(pre)[i - 1] \o pre[i]
        /\ pre[i] = seqs[i]
    BY <1>1, <1>3, <1>4
  <2>4. Flatten(pre)[i] = Flatten(seqs)[i]
    BY <2>2, <2>3
  <2> QED BY <2>1, <2>4
<1> HIDE DEF pre
<1>6. FlattenSeq(pre) = Flatten(pre)[m]
  BY <1>1, <1>2, FlattenIs
<1> QED BY <1>5, <1>6, <1>2 DEF pre

\* Where the j-th sequence begins in the flat one.
StartOf(seqs, j) == Len(FlattenSeq(SubSeq(seqs, 1, j - 1)))

\* The flat sequence has the elements of the j-th sequence from there on, and
\* nothing else.
LEMMA FlattenPlaces ==
    ASSUME NEW S, NEW seqs \in Seq(Seq(S))
    PROVE  /\ FlattenSeq(seqs) \in Seq(S)
           /\ \A j \in 1 .. Len(seqs) :
                /\ StartOf(seqs, j) \in Nat
                /\ StartOf(seqs, j) + Len(seqs[j]) <= Len(FlattenSeq(seqs))
                /\ \A k \in 1 .. Len(seqs[j]) :
                      FlattenSeq(seqs)[StartOf(seqs, j) + k] = seqs[j][k]
           /\ \A n \in 1 .. Len(FlattenSeq(seqs)) :
                \E j \in 1 .. Len(seqs) : \E k \in 1 .. Len(seqs[j]) : n = StartOf(seqs, j) + k
<1> DEFINE N == Len(seqs)
           F(i) == Flatten(seqs)[i]
           At(j) == StartOf(seqs, j)
           Typed(i) == F(i) \in Seq(S)
           Has1(i) == \A j \in 1 .. i :
                        /\ At(j) + Len(seqs[j]) <= Len(F(i))
                        /\ \A k \in 1 .. Len(seqs[j]) : F(i)[At(j) + k] = seqs[j][k]
           Only(i) == \A n \in 1 .. Len(F(i)) :
                        \E j \in 1 .. i : \E k \in 1 .. Len(seqs[j]) : n = At(j) + k
           T == {i \in 1 .. N : Typed(i) /\ Has1(i) /\ Only(i)}
<1>1. N \in Nat /\ \A i \in 1 .. N : seqs[i] \in Seq(S) /\ Len(seqs[i]) \in Nat
  <2>1. \A i \in 1 .. N : seqs[i] \in Seq(S)
    BY ElementOfSeq
  <2> QED BY <2>1, LenProperties
<1>2. \A i \in 1 .. N : F(i) = IF i = 1 THEN seqs[i] ELSE F(i - 1) \o seqs[i]
  <2>1. Flatten(seqs) = [i \in 1 .. Len(seqs) |->
              IF i = 1 THEN seqs[i] ELSE Flatten(seqs)[i - 1] \o seqs[i]]
    BY FlattenExists
  <2> QED BY <2>1
<1>3. At(1) = 0
  BY SubSeqEmpty, EmptySeq DEF StartOf, FlattenSeq
<1>4. \A i \in 1 .. N - 1 : At(i + 1) = Len(F(i))
  <2> SUFFICES ASSUME NEW i \in 1 .. N - 1 PROVE At(i + 1) = Len(F(i))
    OBVIOUS
  <2>1. (i + 1) - 1 = i /\ i \in 1 .. N
    BY <1>1
  <2>2. FlattenSeq(SubSeq(seqs, 1, i)) = F(i)
    BY <2>1, FlattenPrefix
  <2> QED BY <2>1, <2>2 DEF StartOf
<1>5. 1 .. N \subseteq T
  <2> SUFFICES ASSUME ~ (1 .. N \subseteq T) PROVE FALSE
    OBVIOUS
  <2>1. PICK i \in 1 .. N : i \notin T /\ \A j \in 1 .. i - 1 : j \in T
    <3> HIDE DEF T
    <3> QED BY <1>1, FirstMissing
  <2>2. CASE i = 1
    <3>1. F(1) = seqs[1]
      BY <2>2, <1>2
    <3> HIDE DEF F, At
    <3>2. Typed(1) /\ Has1(1) /\ Only(1)
      BY <3>1, <1>1, <1>3, <2>2
    <3> QED BY <3>2, <2>1, <2>2
  <2>3. CASE i # 1
    <3>1. i - 1 \in T /\ i - 1 \in 1 .. N - 1
      <4>1. N \in Nat
        BY <1>1
      <4> HIDE DEF T, N
      <4>2. i - 1 \in 1 .. i - 1 /\ i - 1 \in 1 .. N - 1
        BY <4>1, <2>3
      <4> QED BY <4>2, <2>1
    <3>2. F(i) = F(i - 1) \o seqs[i] /\ At(i) = Len(F(i - 1))
      <4>1. (i - 1) + 1 = i
        BY <1>1
      <4>2. F(i) = F(i - 1) \o seqs[i]
        BY <2>3, <1>2
      <4>3. At((i - 1) + 1) = Len(F(i - 1))
        BY <3>1, <1>4
      <4> QED BY <4>1, <4>2, <4>3
    <3> HIDE DEF F, At
    <3>3. F(i - 1) \in Seq(S) /\ Len(F(i - 1)) \in Nat
      BY <3>1, LenProperties
    <3>4. /\ F(i) \in Seq(S)
          /\ Len(F(i)) = Len(F(i - 1)) + Len(seqs[i])
          /\ \A n \in 1 .. Len(F(i - 1)) + Len(seqs[i]) :
                F(i)[n] = IF n <= Len(F(i - 1)) THEN F(i - 1)[n] ELSE seqs[i][n - Len(F(i - 1))]
      <4> DEFINE a == F(i - 1)
                 b == seqs[i]
      <4>1. a \in Seq(S) /\ b \in Seq(S)
        BY <3>3, <1>1
      <4> HIDE DEF a, b
      <4>2. /\ a \o b \in Seq(S)
            /\ Len(a \o b) = Len(a) + Len(b)
            /\ \A n \in 1 .. Len(a) + Len(b) : (a \o b)[n] =
                  IF n <= Len(a) THEN a[n] ELSE b[n - Len(a)]
        BY <4>1, ConcatProperties
      <4> QED BY <4>2, <3>2 DEF a, b
    <3>5. \A j \in 1 .. i - 1 : At(j) \in Nat
      <4>1. \A j \in 1 .. i - 1 : j = 1 \/ (j - 1 \in 1 .. N - 1 /\ j - 1 \in T)
        <5>1. \A j \in 1 .. i - 1 : j = 1 \/ (j - 1 \in 1 .. N - 1 /\ j - 1 \in 1 .. i - 1)
          BY <1>1
        <5> HIDE DEF T
        <5> QED BY <5>1, <2>1
      <4>2. \A j \in 1 .. N - 1 : j \in T => Len(F(j)) \in Nat
        BY LenProperties
      <4>3. \A j \in 1 .. i - 1 : j # 1 => At((j - 1) + 1) \in Nat
        BY <4>1, <4>2, <1>4
      <4> QED BY <4>3, <1>3
    <3>6. Has1(i)
      <4> SUFFICES ASSUME NEW j \in 1 .. i
                   PROVE  /\ At(j) + Len(seqs[j]) <= Len(F(i))
                          /\ \A k \in 1 .. Len(seqs[j]) : F(i)[At(j) + k] = seqs[j][k]
        OBVIOUS
      <4>1. CASE j = i
        BY <4>1, <3>2, <3>3, <3>4, <1>1
      <4>2. CASE j # i
        <5>1. j \in 1 .. i - 1 /\ At(j) \in Nat /\ Len(seqs[j]) \in Nat /\ Len(seqs[i]) \in Nat
          <6>1. i \in 1 .. N /\ j \in 1 .. N /\ j \in 1 .. i - 1
            BY <4>2, <1>1
          <6>2. Len(seqs[j]) \in Nat /\ Len(seqs[i]) \in Nat
            BY <6>1, <1>1
          <6> QED BY <6>1, <6>2, <3>5
        <5>2. /\ At(j) + Len(seqs[j]) <= Len(F(i - 1))
              /\ \A k \in 1 .. Len(seqs[j]) : F(i - 1)[At(j) + k] = seqs[j][k]
          BY <5>1, <3>1
        <5>3. \A k \in 1 .. Len(seqs[j]) :
                 At(j) + k \in 1 .. Len(F(i - 1)) + Len(seqs[i]) /\ At(j) + k <= Len(F(i - 1))
          <6> DEFINE a == Len(F(i - 1))
                     b == Len(seqs[j])
                     c == Len(seqs[i])
                     d == At(j)
          <6>1. a \in Nat /\ b \in Nat /\ c \in Nat /\ d \in Nat /\ d + b <= a
            BY <5>1, <5>2, <3>3
          <6> HIDE DEF a, b, c, d
          <6>2. \A k \in 1 .. b : d + k \in 1 .. a + c /\ d + k <= a
            BY <6>1
          <6> QED BY <6>2 DEF a, b, c, d
        <5>4. \A k \in 1 .. Len(seqs[j]) : F(i)[At(j) + k] = F(i - 1)[At(j) + k]
          BY <5>3, <3>4
        <5>5. At(j) + Len(seqs[j]) <= Len(F(i - 1)) + Len(seqs[i])
          <6> DEFINE a == Len(F(i - 1))
                     b == Len(seqs[j])
                     c == Len(seqs[i])
                     d == At(j)
          <6>1. a \in Nat /\ b \in Nat /\ c \in Nat /\ d \in Nat /\ d + b <= a
            BY <5>1, <5>2, <3>3
          <6> HIDE DEF a, b, c, d
          <6>2. d + b <= a + c
            BY <6>1
          <6> QED BY <6>2 DEF a, b, c, d
        <5>6. \A k \in 1 .. Len(seqs[j]) : F(i)[At(j) + k] = seqs[j][k]
          BY <5>2, <5>4
        <5>7. At(j) + Len(seqs[j]) <= Len(F(i))
          BY <5>5, <3>4
        <5> QED BY <5>6, <5>7
      <4> QED BY <4>1, <4>2
    <3>7. Only(i)
      <4> SUFFICES ASSUME NEW n \in 1 .. Len(F(i))
                   PROVE  \E j \in 1 .. i : \E k \in 1 .. Len(seqs[j]) : n = At(j) + k
        OBVIOUS
      <4>1. CASE n <= Len(F(i - 1))
        <5>1. n \in 1 .. Len(F(i - 1))
          BY <4>1, <3>3, <3>4, <1>1
        <5>2. \E j \in 1 .. i - 1 : \E k \in 1 .. Len(seqs[j]) : n = At(j) + k
          BY <5>1, <3>1
        <5> QED BY <5>2
      <4>2. CASE ~ (n <= Len(F(i - 1)))
        <5>1. Len(seqs[i]) \in Nat /\ n \in 1 .. Len(F(i - 1)) + Len(seqs[i])
          BY <3>4, <1>1
        <5>2. n - Len(F(i - 1)) \in 1 .. Len(seqs[i]) /\ n = Len(F(i - 1)) + (n - Len(F(i - 1)))
          <6> DEFINE a == Len(F(i - 1))
                     c == Len(seqs[i])
          <6>1. a \in Nat /\ c \in Nat /\ n \in 1 .. a + c /\ ~ (n <= a)
            BY <5>1, <4>2, <3>3
          <6> HIDE DEF a, c
          <6>2. n - a \in 1 .. c /\ n = a + (n - a)
            BY <6>1
          <6> QED BY <6>2 DEF a, c
        <5>3. i \in 1 .. i
          BY <1>1
        <5> QED BY <5>2, <5>3, <3>2
      <4> QED BY <4>1, <4>2
    <3> QED BY <3>4, <3>6, <3>7, <2>1
  <2> QED BY <2>2, <2>3
<1>6. \A j \in 1 .. N : At(j) \in Nat
  <2> HIDE DEF F, At
  <2>1. \A j \in 1 .. N : j \in T => Len(F(j)) \in Nat
    BY LenProperties
  <2>2. \A j \in 1 .. N : j # 1 => j - 1 \in 1 .. N - 1 /\ (j - 1) + 1 = j
    BY <1>1
  <2>3. \A j \in 1 .. N - 1 : At(j + 1) \in Nat
    <3>1. \A j \in 1 .. N - 1 : j \in T
      <4> HIDE DEF T
      <4>1. \A j \in 1 .. N - 1 : j \in 1 .. N
        BY <1>1
      <4> QED BY <4>1, <1>5
    <3>2. \A j \in 1 .. N - 1 : Len(F(j)) \in Nat
      BY <3>1, LenProperties
    <3> QED BY <3>2, <1>4
  <2>4. \A j \in 1 .. N : j # 1 => At((j - 1) + 1) \in Nat
    BY <2>2, <2>3
  <2> HIDE DEF N
  <2>5. \A j \in 1 .. N : j # 1 => At(j) \in Nat
    <3> SUFFICES ASSUME NEW j \in 1 .. N, j # 1 PROVE At(j) \in Nat
      OBVIOUS
    <3>1. (j - 1) + 1 = j /\ At((j - 1) + 1) \in Nat
      BY <2>2, <2>4
    <3> QED BY <3>1
  <2> QED BY <2>5, <1>3
<1>7. CASE N = 0
  <2>1. FlattenSeq(seqs) = << >>
    BY <1>7, FlattenIs
  <2>2. << >> \in Seq(S) /\ Len(<< >>) = 0
    BY EmptySeq
  <2> QED BY <2>1, <2>2, <1>7
<1>8. CASE N # 0
  <2>1. FlattenSeq(seqs) = F(N) /\ N \in T
    BY <1>8, <1>1, <1>5, FlattenIs
  <2> HIDE DEF F
  <2>2. F(N) \in Seq(S) /\ Has1(N) /\ Only(N)
    BY <2>1
  <2> QED BY <2>1, <2>2, <1>6
<1> QED BY <1>7, <1>8

\* What Kept keeps: the elements at the places, none of them twice unless the
\* sequence has it at two of the places.
LEMMA KeptPlaces ==
    ASSUME NEW S, NEW seq \in Seq(S), NEW places
    PROVE  /\ Kept(seq, places) \in Seq(S)
           /\ ToSet(Kept(seq, places)) = {seq[i] : i \in DOMAIN seq \cap places}
           /\ Len(Kept(seq, places)) <= Len(seq)
           /\ (\A i, j \in DOMAIN seq \cap places : seq[i] = seq[j] => i = j)
                 => IsInjective(Kept(seq, places))
<1> DEFINE seqs == [i \in DOMAIN seq |-> IF i \in places THEN <<seq[i]>> ELSE << >>]
           flat == FlattenSeq(seqs)
           n == Len(seq)
<1>1. n \in Nat /\ DOMAIN seq = 1 .. n /\ \A i \in 1 .. n : seq[i] \in S
  BY LenProperties, ElementOfSeq
<1>2. seqs \in Seq(Seq(S)) /\ Len(seqs) = n
  BY <1>1
<1>3. \A i \in 1 .. n : seqs[i] = IF i \in places THEN <<seq[i]>> ELSE << >>
  BY <1>1
<1>4. \A i \in 1 .. n : \A k \in 1 .. Len(seqs[i]) : i \in places /\ k = 1
  BY <1>3
<1>5. \A i \in 1 .. n : i \in places => Len(seqs[i]) = 1 /\ seqs[i][1] = seq[i]
  BY <1>3
<1>6. Kept(seq, places) = flat
  BY DEF Kept
<1> HIDE DEF seqs
<1>7. /\ flat \in Seq(S)
      /\ \A j \in 1 .. n :
           /\ StartOf(seqs, j) \in Nat
           /\ StartOf(seqs, j) + Len(seqs[j]) <= Len(flat)
           /\ \A k \in 1 .. Len(seqs[j]) : flat[StartOf(seqs, j) + k] = seqs[j][k]
      /\ \A m \in 1 .. Len(flat) :
           \E j \in 1 .. n : \E k \in 1 .. Len(seqs[j]) : m = StartOf(seqs, j) + k
  BY <1>2, FlattenPlaces
<1> HIDE DEF flat, n
<1>8. \A j \in 1 .. n : j \in places =>
          /\ StartOf(seqs, j) \in Nat /\ StartOf(seqs, j) + 1 <= Len(flat)
          /\ flat[StartOf(seqs, j) + 1] = seq[j]
  <2> SUFFICES ASSUME NEW j \in 1 .. n, j \in places
               PROVE  /\ StartOf(seqs, j) \in Nat /\ StartOf(seqs, j) + 1 <= Len(flat)
                      /\ flat[StartOf(seqs, j) + 1] = seq[j]
    OBVIOUS
  <2>1. Len(seqs[j]) = 1 /\ seqs[j][1] = seq[j]
    BY <1>5
  <2>2. /\ StartOf(seqs, j) \in Nat /\ StartOf(seqs, j) + Len(seqs[j]) <= Len(flat)
        /\ \A k \in 1 .. Len(seqs[j]) : flat[StartOf(seqs, j) + k] = seqs[j][k]
    BY <1>7
  <2>3. 1 \in 1 .. Len(seqs[j])
    BY <2>1
  <2> QED BY <2>1, <2>2, <2>3
<1>9. Len(flat) \in Nat /\ DOMAIN flat = 1 .. Len(flat)
  BY <1>7, LenProperties
<1> DEFINE from(m) == CHOOSE j \in 1 .. n : j \in places /\ m = StartOf(seqs, j) + 1
<1>10. \A m \in 1 .. Len(flat) :
        /\ from(m) \in 1 .. n /\ from(m) \in places
        /\ m = StartOf(seqs, from(m)) + 1
        /\ flat[m] = seq[from(m)]
  <2> SUFFICES ASSUME NEW m \in 1 .. Len(flat)
               PROVE  /\ from(m) \in 1 .. n /\ from(m) \in places
                      /\ m = StartOf(seqs, from(m)) + 1
                      /\ flat[m] = seq[from(m)]
    OBVIOUS
  <2>1. \E j \in 1 .. n : j \in places /\ m = StartOf(seqs, j) + 1
    BY <1>4, <1>7
  <2>2. from(m) \in 1 .. n /\ from(m) \in places /\ m = StartOf(seqs, from(m)) + 1
    BY <2>1
  <2> HIDE DEF from
  <2>3. flat[StartOf(seqs, from(m)) + 1] = seq[from(m)]
    BY <2>2, <1>8
  <2> QED BY <2>2, <2>3
<1> HIDE DEF from
<1>11. \A j \in 1 .. n : j \in places => \E m \in 1 .. Len(flat) : flat[m] = seq[j]
  <2> SUFFICES ASSUME NEW j \in 1 .. n, j \in places
               PROVE  \E m \in 1 .. Len(flat) : flat[m] = seq[j]
    OBVIOUS
  <2>1. StartOf(seqs, j) + 1 \in 1 .. Len(flat) /\ flat[StartOf(seqs, j) + 1] = seq[j]
    BY <1>9, <1>8
  <2> QED BY <2>1
<1>12. ToSet(flat) = {seq[i] : i \in DOMAIN seq \cap places}
  <2>1. \A m \in 1 .. Len(flat) : flat[m] \in {seq[i] : i \in DOMAIN seq \cap places}
    BY <1>1, <1>10
  <2>2. \A i \in DOMAIN seq \cap places : seq[i] \in ToSet(flat)
    BY <1>1, <1>9, <1>11 DEF ToSet
  <2> QED BY <2>1, <2>2, <1>9 DEF ToSet
<1>13. Len(flat) <= n
  <2> DEFINE g == [m \in 1 .. Len(flat) |-> from(m)]
  <2>1. g \in Injection(1 .. Len(flat), 1 .. n)
    <3>1. g \in [1 .. Len(flat) -> 1 .. n]
      BY <1>10
    <3>2. \A l, m \in 1 .. Len(flat) : from(l) = from(m) => l = m
      <4> SUFFICES ASSUME NEW l \in 1 .. Len(flat), NEW m \in 1 .. Len(flat), from(l) = from(m)
                   PROVE  l = m
        OBVIOUS
      <4>1. l = StartOf(seqs, from(l)) + 1 /\ m = StartOf(seqs, from(m)) + 1
        BY <1>10
      <4> QED BY <4>1
    <3> QED BY <3>1, <3>2 DEF Injection, IsInjective
  <2> HIDE DEF g
  <2>2. 1 \in Int /\ Len(flat) \in Int /\ n \in Int
    BY <1>1, <1>9
  <2>3. IsFiniteSet(1 .. n) /\ Cardinality(1 .. n) = n /\ Cardinality(1 .. Len(flat)) = Len(flat)
    <3>1. /\ IsFiniteSet(1 .. n) /\ Cardinality(1 .. n) = IF 1 > n THEN 0 ELSE n - 1 + 1
          /\ Cardinality(1 .. Len(flat)) = IF 1 > Len(flat) THEN 0 ELSE Len(flat) - 1 + 1
      BY <2>2, FS_Interval
    <3> QED BY <3>1, <1>1, <1>9
  <2> QED BY <2>1, <2>3, FS_Injection
<1>14. (\A i, j \in DOMAIN seq \cap places : seq[i] = seq[j] => i = j) => IsInjective(flat)
  BY <1>1, <1>9, <1>10 DEF IsInjective
<1> QED BY <1>6, <1>7, <1>12, <1>13, <1>14 DEF n

\* The other members of a sequence, in order.
LEMMA WithoutPlaces ==
    ASSUME NEW S, NEW seq \in Seq(S), NEW gone
    PROVE  /\ Without(seq, gone) \in Seq(S)
           /\ ToSet(Without(seq, gone)) = ToSet(seq) \ gone
           /\ Len(Without(seq, gone)) <= Len(seq)
           /\ IsInjective(seq) => IsInjective(Without(seq, gone))
<1> DEFINE places == {i \in DOMAIN seq : seq[i] \notin gone}
<1>1. DOMAIN seq \cap places = places
  OBVIOUS
<1>2. {seq[i] : i \in DOMAIN seq \cap places} = ToSet(seq) \ gone
  BY DEF ToSet
<1>3. IsInjective(seq) => \A i, j \in DOMAIN seq \cap places : seq[i] = seq[j] => i = j
  BY DEF IsInjective
<1>4. Without(seq, gone) = Kept(seq, places)
  BY DEF Without
<1> HIDE DEF places
<1> QED BY <1>2, <1>3, <1>4, KeptPlaces

\* The first rows of each link are rows of the same kind, and no more of them.
LEMMA DistinctPlaces ==
    ASSUME NEW S, NEW links \in Seq(S)
    PROVE  /\ Distinct(links) \in Seq(S)
           /\ Len(Distinct(links)) <= Len(links)
BY KeptPlaces DEF Distinct

\* A sequence without repetitions is as long as it has members.
LEMMA LengthOfInjective ==
    ASSUME NEW S, NEW seq \in Seq(S)
    PROVE  /\ IsFiniteSet(ToSet(seq))
           /\ Cardinality(ToSet(seq)) \in Nat
           /\ Cardinality(ToSet(seq)) <= Len(seq)
           /\ IsInjective(seq) => Cardinality(ToSet(seq)) = Len(seq)
<1> DEFINE T == ToSet(seq)
<1>1. Len(seq) \in Nat /\ DOMAIN seq = 1 .. Len(seq) /\ T = {seq[i] : i \in 1 .. Len(seq)}
  BY LenProperties DEF ToSet
<1>2. seq \in [1 .. Len(seq) -> T]
  BY <1>1, LenProperties
<1>3. seq \in Surjection(1 .. Len(seq), T)
  BY <1>1, <1>2 DEF Surjection
<1>4. IsFiniteSet(1 .. Len(seq)) /\ Cardinality(1 .. Len(seq)) = Len(seq)
  <2>1. 1 \in Int /\ Len(seq) \in Int
    BY <1>1
  <2>2. /\ IsFiniteSet(1 .. Len(seq))
        /\ Cardinality(1 .. Len(seq)) = IF 1 > Len(seq) THEN 0 ELSE Len(seq) - 1 + 1
    BY <2>1, FS_Interval
  <2> QED BY <2>2, <1>1
<1>5. IsInjective(seq) => seq \in Injection(1 .. Len(seq), T)
  BY <1>1, <1>2 DEF IsInjective, Injection
<1> HIDE DEF T
<1>6. /\ IsFiniteSet(T)
      /\ Cardinality(T) <= Cardinality(1 .. Len(seq))
      /\ Cardinality(T) = Cardinality(1 .. Len(seq)) <=> seq \in Injection(1 .. Len(seq), T)
  BY <1>3, <1>4, FS_Surjection
<1>7. Cardinality(T) \in Nat
  BY <1>6, FS_CardinalityType
<1> QED BY <1>4, <1>5, <1>6, <1>7 DEF T

-----------------------------------------------------------------------------
(* Saved playlists: what every edit keeps, and what it may not do. *)

\* Every scope has an order of its playlists, and no other scope has one of them.
ListsOK ==
    /\ made \in 0..MaxMade
    /\ lists \in [Scopes -> Seq(1..made)]
    /\ \A s \in Scopes : IsInjective(lists[s]) /\ Len(lists[s]) <= MaxPlaylists
    /\ \A s, t \in Scopes : s # t => ToSet(lists[s]) \cap ToSet(lists[t]) = {}

\* Playlists of one scope differ in their names.
NamesOK ==
    /\ name \in [Ids -> Names \cup {None}]
    /\ \A s \in Scopes : \A p, q \in ToSet(lists[s]) :
          name[p] # None /\ (name[p] = name[q] => p = q)

\* Playlists are within their limit.
ItemsOK ==
    /\ items \in [Ids -> Seq(Links)]
    /\ \A p \in Ids : Len(items[p]) <= MaxItems

\* Every edit gives a playlist one revision at most.
RevisionsOK ==
    /\ edits \in 0..MaxEdits
    /\ revision \in [Ids -> Nat]
    /\ \A p \in Ids : revision[p] <= edits + 1

\* What a message shows would fit in a playlist.
SharedOK == shared \in Seq(Links) /\ Len(shared) <= MaxItems

\* The invariant of what is saved.
SavedOK == ListsOK /\ NamesOK /\ ItemsOK /\ RevisionsOK /\ SharedOK

\* A user without an account has no playlist.
DeletedOK == deleted \subseteq Users /\ \A u \in deleted : lists[u] = << >>

\* What an edit may do to playlists that are there: an id is not used again, and
\* what a playlist has changes only with its revision, or with an account when it
\* is the room's.
Steady ==
    /\ made <= made'
    /\ \A p \in 1..made : revision[p] <= revision'[p]
    /\ \A p \in 1..made, s \in Scopes :
          p \in ToSet(lists'[s]) /\ revision'[p] = revision[p] /\ (s = Room => deleted' = deleted)
             => p \in ToSet(lists[s]) /\ items'[p] = items[p]

\* What making a playlist may not do.
LosesNothing == made' > made => \A s \in Scopes : LinksOf(s) \subseteq LinksOf(s)'

\* A good edit keeps the invariant, and does and loses no more than it may.
Good == SavedOK' /\ Steady /\ LosesNothing

\* The limits and the bounds are numbers.
LEMMA Numbers ==
    /\ MaxItems \in Nat \ {0} /\ MaxPlaylists \in Nat \ {0} /\ PageSize \in Nat \ {0}
    /\ MaxMade \in Nat /\ MaxEdits \in Nat /\ MaxSnapshots \in Nat /\ 1 \in Snapshots
BY PlaylistsAssumption DEF Snapshots

\* The playlists of a scope are numbers up to the last made.
LEMMA Members ==
    ASSUME ListsOK, NEW s \in Scopes
    PROVE  /\ lists[s] \in Seq(1..made) /\ Len(lists[s]) \in Nat
           /\ ToSet(lists[s]) \subseteq 1..made
           /\ ToSet(lists[s]) \subseteq Ids
<1>1. lists[s] \in Seq(1..made)
  BY DEF ListsOK
<1>2. Len(lists[s]) \in Nat /\ DOMAIN lists[s] = 1 .. Len(lists[s])
  BY <1>1, LenProperties
<1>3. \A i \in 1 .. Len(lists[s]) : lists[s][i] \in 1..made
  BY <1>1, ElementOfSeq
<1>4. 1..made \subseteq Ids
  BY Numbers DEF ListsOK, Ids
<1> QED BY <1>1, <1>2, <1>3, <1>4 DEF ToSet

\* An order of the playlists of one scope.
LEMMA ListsStep ==
    ASSUME ListsOK, NEW s \in Scopes, NEW q,
           lists' = [lists EXCEPT ![s] = q],
           made' \in {made, made + 1}, made' <= MaxMade,
           q \in Seq(1..made'), IsInjective(q), Len(q) <= MaxPlaylists,
           ToSet(q) \subseteq ToSet(lists[s]) \cup (1..made' \ 1..made)
    PROVE  ListsOK'
<1>1. made' \in 0..MaxMade /\ 1..made \subseteq 1..made'
  BY Numbers DEF ListsOK
<1>2. \A t \in Scopes : lists[t] \in Seq(1..made') /\ lists[t] \in Seq(1..made)
  BY <1>1, SeqMonotonic DEF ListsOK
<1>3. \A t \in Scopes : lists'[t] = IF t = s THEN q ELSE lists[t]
  BY DEF ListsOK
<1>4. lists' \in [Scopes -> Seq(1..made')]
  BY <1>2 DEF ListsOK
<1>5. \A t \in Scopes : IsInjective(lists'[t]) /\ Len(lists'[t]) <= MaxPlaylists
  BY <1>3 DEF ListsOK
<1>6. \A t \in Scopes : ToSet(lists[t]) \subseteq 1..made
  BY Members
<1>7. \A t \in Scopes : t # s => ToSet(q) \cap ToSet(lists[t]) = {}
  BY <1>6 DEF ListsOK
<1>8. \A t, u \in Scopes : t # u => ToSet(lists'[t]) \cap ToSet(lists'[u]) = {}
  <2> SUFFICES ASSUME NEW t \in Scopes, NEW u \in Scopes, t # u
               PROVE  ToSet(lists'[t]) \cap ToSet(lists'[u]) = {}
    OBVIOUS
  <2>1. CASE t = s
    BY <2>1, <1>3, <1>7
  <2>2. CASE u = s
    BY <2>2, <1>3, <1>7
  <2>3. CASE t # s /\ u # s
    BY <2>3, <1>3 DEF ListsOK
  <2> QED BY <2>1, <2>2, <2>3
<1> QED BY <1>1, <1>4, <1>5, <1>8 DEF ListsOK

\* No playlist appears in another scope.
LEMMA OneScope ==
    ASSUME ListsOK, NEW s \in Scopes, NEW t \in Scopes, NEW p,
           Has(s, p), Has(t, p)
    PROVE  s = t
BY DEF ListsOK, Has

\* Another order, or fewer, of the playlists of a scope.
LEMMA OrderStep ==
    ASSUME SavedOK, NEW s \in Scopes, NEW q,
           lists' = [lists EXCEPT ![s] = q],
           q \in Seq(1..made), IsInjective(q), Len(q) <= MaxPlaylists,
           ToSet(q) \subseteq ToSet(lists[s]),
           UNCHANGED <<name, items, revision, made, shared>>,
           edits' = edits + 1, edits < MaxEdits
    PROVE  Good
<1>1. ListsOK'
  <2>1. made' \in {made, made + 1} /\ made' <= MaxMade /\ q \in Seq(1..made')
    BY DEF SavedOK, ListsOK
  <2> QED BY <2>1, ListsStep DEF SavedOK
<1>2. \A t \in Scopes : ToSet(lists'[t]) \subseteq ToSet(lists[t])
  BY DEF SavedOK, ListsOK
<1>3. NamesOK'
  BY <1>2 DEF SavedOK, NamesOK
<1>4. ItemsOK' /\ RevisionsOK' /\ SharedOK'
  BY Numbers DEF SavedOK, ItemsOK, RevisionsOK, SharedOK
<1>5. Steady
  <2>1. made \in Nat /\ made' = made
    BY DEF SavedOK, ListsOK
  <2>2. \A p \in 1..made : revision[p] \in Nat
    BY Numbers DEF SavedOK, RevisionsOK, ListsOK, Ids
  <2> QED BY <2>1, <2>2, <1>2 DEF Steady
<1>6. LosesNothing
  BY DEF LosesNothing, SavedOK, ListsOK
<1> QED BY <1>1, <1>3, <1>4, <1>5, <1>6 DEF Good, SavedOK

\* Other links in a playlist, which gets a new revision.
LEMMA EditStep ==
    ASSUME SavedOK, NEW p \in Ids, NEW links \in Seq(Links), Len(links) <= MaxItems,
           Edit(p, links), edits' = edits + 1, edits < MaxEdits
    PROVE  Good
<1> USE DEF Edit, Revise
<1>1. ListsOK' /\ NamesOK' /\ SharedOK'
  BY DEF requests, SavedOK, ListsOK, NamesOK, SharedOK
<1>2. /\ items' \in [Ids -> Seq(Links)]
      /\ \A q \in Ids : items'[q] = IF q = p THEN links ELSE items[q]
  BY DEF SavedOK, ItemsOK
<1>3. ItemsOK'
  BY <1>2 DEF SavedOK, ItemsOK
<1>4. /\ revision' \in [Ids -> Nat]
      /\ \A q \in Ids : revision'[q] = IF q = p THEN revision[q] + 1 ELSE revision[q]
      /\ \A q \in Ids : revision[q] \in Nat
  BY DEF SavedOK, RevisionsOK
<1>5. RevisionsOK'
  BY <1>4, Numbers DEF SavedOK, RevisionsOK
<1>6. Steady
  <2>1. 1..made \subseteq Ids /\ made \in Nat /\ made' = made /\ lists' = lists
    BY Numbers DEF SavedOK, ListsOK, Ids
  <2>2. \A q \in 1..made : revision[q] <= revision'[q]
    BY <2>1, <1>4
  <2>3. \A q \in 1..made : revision'[q] = revision[q] => items'[q] = items[q]
    BY <2>1, <1>2, <1>4
  <2> QED BY <2>1, <2>2, <2>3 DEF Steady
<1>7. LosesNothing
  BY DEF LosesNothing, SavedOK, ListsOK
<1> QED BY <1>1, <1>3, <1>5, <1>6, <1>7 DEF Good, SavedOK

\* The first rows of a sequence.
LEMMA UptoPlaces ==
    ASSUME NEW S, NEW seq \in Seq(S), NEW n \in Nat
    PROVE  /\ Upto(seq, n) \in Seq(S)
           /\ Len(Upto(seq, n)) = IF n < Len(seq) THEN n ELSE Len(seq)
           /\ Len(Upto(seq, n)) <= n
           /\ Len(seq) <= n => Upto(seq, n) = seq
<1>1. Len(seq) \in Nat /\ \A i \in 1 .. Len(seq) : seq[i] \in S
  BY LenProperties, ElementOfSeq
<1> DEFINE m == IF n < Len(seq) THEN n ELSE Len(seq)
<1>2. m \in Int /\ m \in Nat /\ m <= n /\ \A i \in 1 .. m : seq[i] \in S
  BY <1>1
<1>3. Len(seq) <= n => m = Len(seq)
  BY <1>1
<1>4. Upto(seq, n) = SubSeq(seq, 1, m)
  BY DEF Upto
<1> HIDE DEF m
<1>5. SubSeq(seq, 1, m) \in Seq(S) /\ Len(SubSeq(seq, 1, m)) = m
  BY <1>2, SubSeqProperties
<1> QED BY <1>2, <1>3, <1>4, <1>5, SubSeqFull DEF m

\* One more member of a sequence.
LEMMA AppendMember ==
    ASSUME NEW S, NEW seq \in Seq(S), NEW new \in S
    PROVE  /\ Append(seq, new) \in Seq(S) /\ Len(Append(seq, new)) = Len(seq) + 1
           /\ ToSet(Append(seq, new)) = ToSet(seq) \cup {new}
           /\ IsInjective(seq) /\ new \notin ToSet(seq) => IsInjective(Append(seq, new))
<1> DEFINE q == Append(seq, new)
           n == Len(seq)
<1>1. /\ q \in Seq(S) /\ Len(q) = n + 1
      /\ \A i \in 1 .. n : q[i] = seq[i]
      /\ q[n + 1] = new
  BY AppendProperties
<1>2. n \in Nat /\ DOMAIN seq = 1 .. n
  BY LenProperties
<1> HIDE DEF q, n
<1>3. DOMAIN q = 1 .. n + 1
  BY <1>1, LenProperties
<1>4. \A i \in 1 .. n + 1 : i \in 1 .. n \/ i = n + 1
  BY <1>2
<1>5. n + 1 \in 1 .. n + 1 /\ 1 .. n \subseteq 1 .. n + 1
  BY <1>2
<1>6. \A i \in 1 .. n + 1 : q[i] \in ToSet(seq) \cup {new}
  BY <1>1, <1>2, <1>4 DEF ToSet
<1>7. new \in ToSet(q) /\ ToSet(seq) \subseteq ToSet(q)
  BY <1>1, <1>2, <1>3, <1>5 DEF ToSet
<1>8. ToSet(q) = ToSet(seq) \cup {new}
  BY <1>3, <1>6, <1>7 DEF ToSet
<1>9. IsInjective(seq) /\ new \notin ToSet(seq) => IsInjective(q)
  <2> SUFFICES ASSUME IsInjective(seq), new \notin ToSet(seq),
                      NEW i \in 1 .. n + 1, NEW j \in 1 .. n + 1, q[i] = q[j]
               PROVE  i = j
    BY <1>3 DEF IsInjective
  <2>1. \A k \in 1 .. n : seq[k] # new
    BY <1>2 DEF ToSet
  <2>2. \A k, l \in 1 .. n : seq[k] = seq[l] => k = l
    BY <1>2 DEF IsInjective
  <2> QED BY <2>1, <2>2, <1>1, <1>4
<1> QED BY <1>1, <1>8, <1>9 DEF q, n

\* Whole rows of a new playlist.
LEMMA MakeStep ==
    ASSUME SavedOK, NEW s \in Scopes, NEW n \in Names, NEW links \in Seq(Links),
           ~ NameTaken(s, n, {}), Len(lists[s]) < MaxPlaylists, Len(links) <= MaxItems,
           Make(s, n, links), UNCHANGED shared,
           edits' \in {edits, edits + 1}, edits' <= MaxEdits
    PROVE  Good
<1> USE DEF Make
<1> DEFINE new == made + 1
<1>1. /\ made \in Nat /\ new \in Ids /\ made' = new /\ new <= MaxMade
      /\ 1..made \subseteq Ids /\ new \notin 1..made /\ 1..made' = 1..made \cup {new}
  BY Numbers DEF SavedOK, ListsOK, Ids
<1> DEFINE q == Append(lists[s], new)
<1>2. ListsOK /\ lists[s] \in Seq(1..made) /\ ToSet(lists[s]) \subseteq 1..made
  BY Members DEF SavedOK
<1> HIDE DEF new
<1>3. /\ q \in Seq(1..made') /\ Len(q) = Len(lists[s]) + 1
      /\ ToSet(q) = ToSet(lists[s]) \cup {new}
      /\ IsInjective(q)
  <2>1. lists[s] \in Seq(1..made') /\ new \in 1..made'
    BY <1>1, <1>2, SeqMonotonic
  <2>2. IsInjective(lists[s]) /\ new \notin ToSet(lists[s])
    BY <1>1, <1>2 DEF ListsOK
  <2> QED BY <2>1, <2>2, AppendMember
<1>4. Len(lists[s]) \in Nat
  BY <1>2, LenProperties
<1>5. ListsOK'
  <2>1. lists' = [lists EXCEPT ![s] = q]
    BY DEF new
  <2>2. Len(q) <= MaxPlaylists /\ made' <= MaxMade /\ made' \in {made, made + 1}
    BY <1>1, <1>3, <1>4, Numbers DEF new
  <2>3. ToSet(q) \subseteq ToSet(lists[s]) \cup (1..made' \ 1..made)
    BY <1>1, <1>3
  <2> HIDE DEF q
  <2> QED BY <2>1, <2>2, <2>3, <1>2, <1>3, ListsStep
<1>6. \A t \in Scopes : ToSet(lists'[t]) = IF t = s THEN ToSet(lists[s]) \cup {new} ELSE ToSet(lists[t])
  <2>1. \A t \in Scopes : lists'[t] = IF t = s THEN q ELSE lists[t]
    BY DEF new, SavedOK, ListsOK
  <2> HIDE DEF q
  <2>2. lists'[s] = q /\ \A t \in Scopes : t # s => lists'[t] = lists[t]
    BY <2>1
  <2>3. ToSet(lists'[s]) = ToSet(lists[s]) \cup {new}
    BY <2>2, <1>3
  <2>4. \A t \in Scopes : t # s => ToSet(lists'[t]) = ToSet(lists[t])
    BY <2>2
  <2> QED BY <2>3, <2>4
<1>7. \A t \in Scopes : ToSet(lists[t]) \subseteq 1..made
  BY <1>2, Members
<1>8. /\ name' \in [Ids -> Names \cup {None}]
       /\ \A p \in Ids : name'[p] = IF p = new THEN n ELSE name[p]
  BY <1>1 DEF new, SavedOK, NamesOK
<1>9. n # None /\ \A p \in ToSet(lists[s]) : name[p] # n
  BY PlaylistsAssumption DEF NameTaken
<1>10. NamesOK'
  <2> SUFFICES ASSUME NEW t \in Scopes, NEW p \in ToSet(lists'[t]), NEW r \in ToSet(lists'[t])
               PROVE  name'[p] # None /\ (name'[p] = name'[r] => p = r)
    BY <1>8 DEF NamesOK
  <2>1. \A x \in ToSet(lists[t]) : x # new /\ x \in Ids /\ name'[x] = name[x] /\ name[x] # None
    <3>1. \A x \in ToSet(lists[t]) : x # new /\ x \in Ids
      <4>1. ToSet(lists[t]) \subseteq 1..made
        BY <1>7
      <4> QED BY <4>1, <1>1
    <3>2. \A x \in ToSet(lists[t]) : name[x] # None
      BY DEF SavedOK, NamesOK
    <3> QED BY <3>1, <3>2, <1>8
  <2>2. \A x, y \in ToSet(lists[t]) : name[x] = name[y] => x = y
    BY DEF SavedOK, NamesOK
  <2>3. CASE t = s
    BY <2>1, <2>2, <2>3, <1>1, <1>6, <1>8, <1>9
  <2>4. CASE t # s
    BY <2>1, <2>2, <2>4, <1>6
  <2> QED BY <2>3, <2>4
<1>11. /\ items' \in [Ids -> Seq(Links)]
       /\ \A p \in Ids : items'[p] = IF p = new THEN links ELSE items[p]
  BY <1>1 DEF new, SavedOK, ItemsOK
<1>12. ItemsOK' /\ SharedOK'
  BY <1>11 DEF SavedOK, ItemsOK, SharedOK
<1>13. /\ revision' \in [Ids -> Nat]
       /\ \A p \in Ids : revision'[p] = IF p = new THEN 1 ELSE revision[p]
       /\ \A p \in Ids : revision[p] \in Nat /\ revision[p] <= edits + 1
       /\ edits \in Nat
  BY <1>1 DEF new, SavedOK, RevisionsOK
<1>14. RevisionsOK'
  BY <1>13, Numbers DEF RevisionsOK
<1>15. Steady
  <2>1. \A p \in 1..made : p \in Ids /\ p # new
    BY <1>1
  <2> QED BY <2>1, <1>1, <1>6, <1>11, <1>13 DEF Steady, new
<1>16. LosesNothing
  <2> SUFFICES ASSUME NEW t \in Scopes PROVE LinksOf(t) \subseteq LinksOf(t)'
    BY DEF LosesNothing
  <2>1. \A p \in ToSet(lists[t]) : p \in ToSet(lists'[t]) /\ items'[p] = items[p]
    <3>1. \A p \in ToSet(lists[t]) : p # new /\ p \in Ids
      <4>1. ToSet(lists[t]) \subseteq 1..made
        BY <1>7
      <4> QED BY <4>1, <1>1
    <3>2. ToSet(lists[t]) \subseteq ToSet(lists'[t])
      BY <1>6
    <3> QED BY <3>1, <3>2, <1>11
  <2> QED BY <2>1 DEF LinksOf
<1> QED BY <1>5, <1>10, <1>12, <1>14, <1>15, <1>16 DEF Good, SavedOK

\* The links of a playlist are a sequence within the limit.
LEMMA ItemsAre ==
    ASSUME SavedOK, NEW p \in Ids
    PROVE  /\ items[p] \in Seq(Links) /\ Len(items[p]) \in Nat /\ Len(items[p]) <= MaxItems
           /\ DOMAIN items[p] = 1 .. Len(items[p])
<1>1. items[p] \in Seq(Links) /\ Len(items[p]) <= MaxItems
  BY DEF SavedOK, ItemsOK
<1> QED BY <1>1, LenProperties

\* A playlist that a scope has was made.
LEMMA HasIds ==
    ASSUME SavedOK, NEW s \in Scopes, NEW p, Has(s, p)
    PROVE  p \in 1..made /\ p \in Ids
BY Members DEF SavedOK, Has

\* Swapping two places changes neither the length nor the members of a sequence.
LEMMA SwappedPlaces ==
    ASSUME NEW S, NEW seq \in Seq(S), NEW i \in DOMAIN seq, NEW j \in DOMAIN seq
    PROVE  /\ Swapped(seq, i, j) \in Seq(S)
           /\ Len(Swapped(seq, i, j)) = Len(seq)
           /\ ToSet(Swapped(seq, i, j)) \subseteq ToSet(seq)
           /\ IsInjective(seq) => IsInjective(Swapped(seq, i, j))
<1> DEFINE q == Swapped(seq, i, j)
           n == Len(seq)
<1>1. n \in Nat /\ DOMAIN seq = 1 .. n /\ \A k \in 1 .. n : seq[k] \in S
  BY LenProperties, ElementOfSeq
<1>2. /\ DOMAIN q = 1 .. n
      /\ \A k \in 1 .. n : q[k] = IF k = j THEN seq[i] ELSE IF k = i THEN seq[j] ELSE seq[k]
      /\ q = [k \in 1 .. n |-> q[k]]
  BY <1>1 DEF Swapped
<1> HIDE DEF n, q
<1>3. \A k \in 1 .. n : q[k] \in S
  BY <1>1, <1>2
<1>4. q \in Seq(S) /\ Len(q) = n
  BY <1>1, <1>2, <1>3
<1>5. ToSet(q) \subseteq ToSet(seq)
  BY <1>1, <1>2 DEF ToSet
<1>6. IsInjective(seq) => IsInjective(q)
  <2> SUFFICES ASSUME IsInjective(seq), NEW a \in 1 .. n, NEW b \in 1 .. n, q[a] = q[b]
               PROVE  a = b
    BY <1>2 DEF IsInjective
  <2> DEFINE at(k) == IF k = j THEN i ELSE IF k = i THEN j ELSE k
  <2>1. \A k \in 1 .. n : q[k] = seq[at(k)] /\ at(k) \in 1 .. n
    BY <1>1, <1>2
  <2>2. seq[at(a)] = seq[at(b)]
    BY <2>1
  <2>3. at(a) = at(b)
    <3> HIDE DEF at
    <3> QED BY <2>1, <2>2, <1>1 DEF IsInjective
  <2> QED BY <2>3
<1> QED BY <1>4, <1>5, <1>6 DEF n, q

\* An ordered selection is a sequence without repetitions.
LEMMA SelectionIs ==
    ASSUME NEW S, NEW m \in Nat, NEW n \in Nat, NEW q \in Selections(S, m, n)
    PROVE  /\ q \in Seq(S) /\ IsInjective(q) /\ ToSet(q) \subseteq S
           /\ Len(q) \in m .. n /\ DOMAIN q = 1 .. Len(q)
           /\ \A i \in DOMAIN q : q[i] \in S
<1>1. PICK k \in m .. n : q \in [1 .. k -> S] /\ IsInjective(q)
  BY DEF Selections
<1>2. k \in Nat
  OBVIOUS
<1>3. q \in Seq(S) /\ Len(q) = k
  BY <1>1, <1>2
<1> QED BY <1>1, <1>3 DEF ToSet

\* Two sequences that share no member, one after the other, have the members of
\* both and no repetitions.
LEMMA ConcatMembers ==
    ASSUME NEW S, NEW a \in Seq(S), NEW b \in Seq(S)
    PROVE  /\ ToSet(a \o b) = ToSet(a) \cup ToSet(b)
           /\ IsInjective(a) /\ IsInjective(b) /\ ToSet(a) \cap ToSet(b) = {}
                 => IsInjective(a \o b)
<1> DEFINE c == a \o b
           m == Len(a)
           n == Len(b)
<1>1. m \in Nat /\ n \in Nat /\ DOMAIN a = 1 .. m /\ DOMAIN b = 1 .. n
  BY LenProperties
<1>2. /\ c \in Seq(S) /\ Len(c) = m + n
      /\ \A i \in 1 .. m + n : c[i] = IF i <= m THEN a[i] ELSE b[i - m]
  BY ConcatProperties
<1> HIDE DEF c
<1>3. DOMAIN c = 1 .. m + n
  BY <1>2, LenProperties
<1> HIDE DEF m, n
<1>4. \A i \in 1 .. m + n : \/ i \in 1 .. m /\ c[i] = a[i]
                            \/ i - m \in 1 .. n /\ i \notin 1 .. m /\ c[i] = b[i - m]
  BY <1>1, <1>2
<1>5. ToSet(c) \subseteq ToSet(a) \cup ToSet(b)
  BY <1>1, <1>3, <1>4 DEF ToSet
<1>6. \A i \in 1 .. m : i \in 1 .. m + n /\ c[i] = a[i]
  BY <1>1, <1>2
<1>7. \A i \in 1 .. n : i + m \in 1 .. m + n /\ c[i + m] = b[i]
  <2> SUFFICES ASSUME NEW i \in 1 .. n PROVE i + m \in 1 .. m + n /\ c[i + m] = b[i]
    OBVIOUS
  <2>1. i + m \in 1 .. m + n /\ ~ (i + m <= m) /\ (i + m) - m = i
    BY <1>1
  <2> QED BY <2>1, <1>2
<1>8. ToSet(a) \cup ToSet(b) \subseteq ToSet(c)
  BY <1>1, <1>3, <1>6, <1>7 DEF ToSet
<1>9. IsInjective(a) /\ IsInjective(b) /\ ToSet(a) \cap ToSet(b) = {} => IsInjective(c)
  <2> SUFFICES ASSUME IsInjective(a), IsInjective(b), ToSet(a) \cap ToSet(b) = {},
                      NEW i \in 1 .. m + n, NEW j \in 1 .. m + n, c[i] = c[j]
               PROVE  i = j
    BY <1>3 DEF IsInjective
  <2>1. \A x \in 1 .. m, y \in 1 .. n : a[x] # b[y]
    BY <1>1 DEF ToSet
  <2>2. /\ \A x, y \in 1 .. m : a[x] = a[y] => x = y
        /\ \A x, y \in 1 .. n : b[x] = b[y] => x = y
    BY <1>1 DEF IsInjective
  <2>3. i - m = j - m => i = j
    BY <1>1
  <2> QED BY <2>1, <2>2, <2>3, <1>4
<1> QED BY <1>5, <1>8, <1>9 DEF c

\* A scope that is not full leaves a name for another playlist.
LEMMA FreeNameIsFree ==
    ASSUME SavedOK, NEW s \in Scopes, Len(lists[s]) < MaxPlaylists
    PROVE  FreeName(s) \in Names /\ ~ NameTaken(s, FreeName(s), {})
<1> DEFINE l == lists[s]
           n == Len(l)
           q == [i \in 1 .. n |-> name[l[i]]]
<1>1. l \in Seq(1..made) /\ n \in Nat /\ ToSet(l) \subseteq Ids
  BY Members DEF SavedOK
<1>2. DOMAIN l = 1 .. n /\ \A i \in 1 .. n : l[i] \in Ids
  <2>1. DOMAIN l = 1 .. n
    BY <1>1, LenProperties
  <2> QED BY <1>1, <2>1 DEF ToSet
<1>3. q \in Seq(Names \cup {None}) /\ Len(q) = n /\ DOMAIN q = 1 .. n
  <2>1. \A i \in 1 .. n : name[l[i]] \in Names \cup {None}
    BY <1>2 DEF SavedOK, NamesOK
  <2> QED BY <1>1, <2>1
<1>4. \A p \in ToSet(l) : name[p] \in ToSet(q)
  BY <1>2, <1>3 DEF ToSet
<1> HIDE DEF q
<1>5. IsFiniteSet(ToSet(q)) /\ Cardinality(ToSet(q)) \in Nat /\ Cardinality(ToSet(q)) <= n
  BY <1>3, LengthOfInjective
<1>6. IsFiniteSet(Names) /\ Cardinality(Names) \in Nat /\ Cardinality(Names) > MaxPlaylists
  BY PlaylistsAssumption, FS_CardinalityType
<1>7. ~ (Names \subseteq ToSet(q))
  <2> SUFFICES ASSUME Names \in SUBSET ToSet(q) PROVE FALSE
    OBVIOUS
  <2>1. Cardinality(Names) <= Cardinality(ToSet(q))
    BY <1>5, FS_Subset
  <2> QED BY <2>1, <1>1, <1>5, <1>6, Numbers
<1>8. \E x \in Names : ~ NameTaken(s, x, {})
  BY <1>4, <1>7 DEF NameTaken
<1> QED BY <1>8 DEF FreeName

\* Creating a playlist is a good edit.
LEMMA CreateStep ==
    ASSUME SavedOK, edits' = edits + 1, edits < MaxEdits,
           NEW s \in Scopes, NEW n \in Names, Create(s, n)
    PROVE  Good
<1>1. << >> \in Seq(Links) /\ Len(<< >>) <= MaxItems /\ edits' <= MaxEdits
  BY Numbers, EmptySeq DEF SavedOK, RevisionsOK
<1> QED BY <1>1, MakeStep DEF Create

\* Copying a user's playlist into the room, in full, is a good edit.
LEMMA ImportStep ==
    ASSUME SavedOK, edits' = edits + 1, edits < MaxEdits,
           NEW u \in Users, NEW p \in Ids, NEW n \in Names, Import(u, p, n)
    PROVE  Good
<1>1. Room \in Scopes /\ edits' <= MaxEdits
  BY Numbers DEF Scopes, SavedOK, RevisionsOK
<1> QED BY <1>1, ItemsAre, MakeStep DEF Import

\* Copying a playlist of the room for a user is one: the scope has a free name.
LEMMA CloneRoomPlaylistStep ==
    ASSUME SavedOK, edits' = edits + 1, edits < MaxEdits,
           NEW u \in Users, NEW p \in Ids, CloneRoomPlaylist(u, p)
    PROVE  Good
<1>1. u \in Scopes /\ edits' <= MaxEdits
  BY Numbers DEF Scopes, SavedOK, RevisionsOK
<1>2. FreeName(u) \in Names /\ ~ NameTaken(u, FreeName(u), {})
  BY <1>1, FreeNameIsFree DEF CloneRoomPlaylist
<1> QED BY <1>1, <1>2, ItemsAre, MakeStep DEF CloneRoomPlaylist

\* So is copying the links that a message shows.
LEMMA CloneSharedStep ==
    ASSUME SavedOK, edits' = edits + 1, edits < MaxEdits,
           NEW u \in Users, CloneShared(u)
    PROVE  Good
<1>1. u \in Scopes /\ edits' <= MaxEdits
  BY Numbers DEF Scopes, SavedOK, RevisionsOK
<1>2. FreeName(u) \in Names /\ ~ NameTaken(u, FreeName(u), {})
  BY <1>1, FreeNameIsFree DEF CloneShared
<1>3. shared \in Seq(Links) /\ Len(shared) <= MaxItems
  BY DEF SavedOK, SharedOK
<1> QED BY <1>1, <1>2, <1>3, MakeStep DEF CloneShared

\* A step that touches no playlist is a good one.
LEMMA NothingSaved ==
    ASSUME SavedOK, edits' \in {edits, edits + 1}, edits' <= MaxEdits,
           UNCHANGED <<lists, name, items, revision, made>>, SharedOK'
    PROVE  Good
<1>1. ListsOK' /\ NamesOK' /\ ItemsOK'
  BY DEF SavedOK, ListsOK, NamesOK, ItemsOK
<1>2. RevisionsOK'
  BY Numbers DEF SavedOK, RevisionsOK
<1>3. Steady
  <2>1. made \in Nat /\ 1..made \subseteq Ids
    BY Numbers DEF SavedOK, ListsOK, Ids
  <2>2. \A p \in 1..made : revision[p] \in Nat
    BY <2>1 DEF SavedOK, RevisionsOK
  <2> QED BY <2>1, <2>2 DEF Steady
<1>4. LosesNothing
  BY DEF LosesNothing, SavedOK, ListsOK
<1> QED BY <1>1, <1>2, <1>3, <1>4 DEF Good, SavedOK

\* Sharing a playlist copies what fits in one.
LEMMA ShareStep ==
    ASSUME SavedOK, edits' = edits + 1, edits < MaxEdits,
           NEW u \in Users, NEW p \in Ids, Share(u, p)
    PROVE  Good
<1>1. Snapshot(p) \in Seq(Links) /\ Len(Snapshot(p)) <= MaxItems
  BY ItemsAre, UptoPlaces, Numbers DEF Snapshot
<1>2. SharedOK' /\ edits' <= MaxEdits
  BY <1>1, Numbers DEF Share, SharedOK, SavedOK, RevisionsOK
<1> QED BY <1>2, NothingSaved DEF Share

\* Deleting a playlist takes it from its scope, and from no other.
LEMMA DeleteStep ==
    ASSUME SavedOK, edits' = edits + 1, edits < MaxEdits,
           NEW s \in Scopes, NEW p \in Ids, Delete(s, p)
    PROVE  Good
<1> USE DEF Delete
<1> DEFINE q == Without(lists[s], {p})
<1>1. ListsOK /\ lists[s] \in Seq(1..made) /\ IsInjective(lists[s]) /\ Len(lists[s]) <= MaxPlaylists
      /\ Len(lists[s]) \in Nat
  BY Members DEF SavedOK, ListsOK
<1>2. /\ q \in Seq(1..made) /\ ToSet(q) = ToSet(lists[s]) \ {p}
      /\ Len(q) <= Len(lists[s]) /\ IsInjective(q)
  BY <1>1, WithoutPlaces
<1>3. lists' = [lists EXCEPT ![s] = q]
  OBVIOUS
<1> HIDE DEF q
<1>4. Len(q) \in Nat
  BY <1>2, LenProperties
<1>5. ListsOK'
  <2>1. made' = made /\ made \in Nat /\ made <= MaxMade /\ Len(q) <= MaxPlaylists
    BY <1>1, <1>2, <1>4, Numbers DEF ListsOK
  <2> QED BY <2>1, <1>1, <1>2, <1>3, ListsStep
<1>6. \A t \in Scopes : ToSet(lists'[t]) = ToSet(lists[t]) \ {p}
  <2>1. ToSet(lists'[s]) = ToSet(lists[s]) \ {p}
    BY <1>1, <1>2, <1>3 DEF ListsOK
  <2>2. \A t \in Scopes : t # s => lists'[t] = lists[t]
    BY <1>3 DEF SavedOK, ListsOK
  <2>3. \A t \in Scopes : t # s => p \notin ToSet(lists[t])
    BY <1>1, OneScope DEF Has
  <2> QED BY <2>1, <2>2, <2>3
<1>7. /\ name' \in [Ids -> Names \cup {None}]
      /\ \A r \in Ids : r # p => name'[r] = name[r]
      /\ items' \in [Ids -> Seq(Links)]
      /\ \A r \in Ids : items'[r] = IF r = p THEN << >> ELSE items[r]
  BY EmptySeq DEF SavedOK, NamesOK, ItemsOK
<1>8. \A t \in Scopes : ToSet(lists[t]) \subseteq 1..made /\ ToSet(lists[t]) \subseteq Ids
  BY <1>1, Members
<1>9. NamesOK'
  <2> SUFFICES ASSUME NEW t \in Scopes, NEW a \in ToSet(lists'[t]), NEW b \in ToSet(lists'[t])
               PROVE  name'[a] # None /\ (name'[a] = name'[b] => a = b)
    BY <1>7 DEF NamesOK
  <2>1. /\ a \in ToSet(lists[t]) /\ a # p /\ a \in Ids
        /\ b \in ToSet(lists[t]) /\ b # p /\ b \in Ids
    BY <1>6, <1>8
  <2>2. name'[a] = name[a] /\ name'[b] = name[b]
    BY <2>1, <1>7
  <2> QED BY <2>1, <2>2 DEF SavedOK, NamesOK
<1>10. ItemsOK' /\ SharedOK'
  BY <1>7, EmptySeq, Numbers DEF SavedOK, ItemsOK, SharedOK
<1>11. RevisionsOK'
  BY Numbers DEF SavedOK, RevisionsOK
<1>12. Steady
  <2>1. made \in Nat /\ made' = made /\ 1..made \subseteq Ids
    BY Numbers DEF SavedOK, ListsOK, Ids
  <2>2. \A r \in 1..made : revision[r] \in Nat /\ revision'[r] = revision[r]
    BY <2>1 DEF SavedOK, RevisionsOK
  <2>3. \A t \in Scopes : \A r \in ToSet(lists'[t]) : r \in ToSet(lists[t]) /\ r # p
    BY <1>6
  <2>4. \A t \in Scopes : \A r \in ToSet(lists'[t]) : items'[r] = items[r]
    BY <2>3, <1>7, <1>8
  <2>5. /\ made <= made'
        /\ \A r \in 1..made : revision[r] <= revision'[r]
    BY <2>1, <2>2
  <2> QED BY <2>3, <2>4, <2>5 DEF Steady
<1>13. LosesNothing
  BY DEF LosesNothing, SavedOK, ListsOK
<1> QED BY <1>5, <1>9, <1>10, <1>11, <1>12, <1>13 DEF Good, SavedOK

\* Renaming takes a name that no other playlist of the scope has.
LEMMA RenameStep ==
    ASSUME SavedOK, edits' = edits + 1, edits < MaxEdits,
           NEW s \in Scopes, NEW p \in Ids, NEW n \in Names, Rename(s, p, n)
    PROVE  Good
<1> USE DEF Rename, Revise
<1>1. ListsOK' /\ ItemsOK' /\ SharedOK'
  BY DEF SavedOK, ListsOK, ItemsOK, SharedOK
<1>2. /\ name' \in [Ids -> Names \cup {None}]
      /\ \A r \in Ids : name'[r] = IF r = p THEN n ELSE name[r]
      /\ n # None
  BY PlaylistsAssumption DEF SavedOK, NamesOK
<1>3. NamesOK'
  <2> SUFFICES ASSUME NEW t \in Scopes, NEW a \in ToSet(lists[t]), NEW b \in ToSet(lists[t])
               PROVE  name'[a] # None /\ (name'[a] = name'[b] => a = b)
    BY <1>2 DEF NamesOK
  <2>1. a \in Ids /\ b \in Ids
    BY Members DEF SavedOK
  <2>2. name[a] # None /\ (name[a] = name[b] => a = b)
    BY DEF SavedOK, NamesOK
  <2>3. (p = a \/ p = b) => t = s
    BY OneScope DEF SavedOK, Has
  <2>4. \A x \in ToSet(lists[s]) : x # p => name[x] # n
    BY DEF NameTaken
  <2> QED BY <2>1, <2>2, <2>3, <2>4, <1>2
<1>4. /\ revision' \in [Ids -> Nat]
      /\ \A q \in Ids : revision'[q] = IF q = p THEN revision[q] + 1 ELSE revision[q]
      /\ \A q \in Ids : revision[q] \in Nat
  BY DEF SavedOK, RevisionsOK
<1>5. RevisionsOK'
  BY <1>4, Numbers DEF SavedOK, RevisionsOK
<1>6. Steady
  <2>1. 1..made \subseteq Ids /\ made \in Nat /\ made' = made /\ lists' = lists /\ items' = items
    BY Numbers DEF SavedOK, ListsOK, Ids
  <2>2. \A q \in 1..made : revision[q] <= revision'[q]
    BY <2>1, <1>4
  <2> QED BY <2>1, <2>2 DEF Steady
<1>7. LosesNothing
  BY DEF LosesNothing, SavedOK, ListsOK
<1> QED BY <1>1, <1>3, <1>5, <1>6, <1>7 DEF Good, SavedOK

\* Putting chosen playlists first neither loses a playlist nor has it twice.
LEMMA PinStep ==
    ASSUME SavedOK, edits' = edits + 1, edits < MaxEdits, NEW s \in Scopes,
           NEW chosen \in Selections(ToSet(lists[s]), 1, MaxPlaylists), Pin(s, chosen)
    PROVE  Good
<1> DEFINE l == lists[s]
           rest == Without(l, ToSet(chosen))
           q == chosen \o rest
<1>1. /\ l \in Seq(1..made) /\ IsInjective(l) /\ Len(l) <= MaxPlaylists /\ Len(l) \in Nat
      /\ ToSet(l) \subseteq 1..made
  BY Members DEF SavedOK, ListsOK
<1>2. chosen \in Seq(ToSet(l)) /\ IsInjective(chosen) /\ ToSet(chosen) \subseteq ToSet(l)
  BY Numbers, SelectionIs
<1>3. chosen \in Seq(1..made)
  BY <1>1, <1>2, SeqMonotonic
<1>4. rest \in Seq(1..made) /\ ToSet(rest) = ToSet(l) \ ToSet(chosen) /\ IsInjective(rest)
  BY <1>1, WithoutPlaces
<1> HIDE DEF rest, l
<1>5. q \in Seq(1..made) /\ ToSet(q) = ToSet(l) /\ IsInjective(q)
  <2>1. /\ ToSet(q) = ToSet(chosen) \cup ToSet(rest)
        /\ IsInjective(chosen) /\ IsInjective(rest) /\ ToSet(chosen) \cap ToSet(rest) = {}
              => IsInjective(q)
    BY <1>3, <1>4, ConcatMembers
  <2>2. q \in Seq(1..made)
    BY <1>3, <1>4, ConcatProperties
  <2> QED BY <2>1, <2>2, <1>2, <1>4
<1> HIDE DEF q
<1>6. Len(q) = Len(l)
  BY <1>1, <1>5, LengthOfInjective
<1>7. /\ lists' = [lists EXCEPT ![s] = q]
      /\ UNCHANGED <<name, items, revision, made, shared>>
  BY DEF Pin, q, rest, l
<1> QED BY <1>1, <1>5, <1>6, <1>7, OrderStep DEF l

\* Moving a playlist by a place keeps all of its scope.
LEMMA MoveStep ==
    ASSUME SavedOK, edits' = edits + 1, edits < MaxEdits, NEW s \in Scopes,
           NEW i \in DOMAIN lists[s], NEW d \in {-1, 1}, Move(s, i, d)
    PROVE  Good
<1> DEFINE q == Swapped(lists[s], i, i + d)
<1>1. /\ lists[s] \in Seq(1..made) /\ IsInjective(lists[s]) /\ Len(lists[s]) <= MaxPlaylists
      /\ i + d \in DOMAIN lists[s]
  BY Members DEF SavedOK, ListsOK, Move
<1>2. /\ q \in Seq(1..made) /\ Len(q) = Len(lists[s]) /\ IsInjective(q)
      /\ ToSet(q) \subseteq ToSet(lists[s])
  <2> DEFINE l == lists[s]
             j == i + d
  <2>1. l \in Seq(1..made) /\ i \in DOMAIN l /\ j \in DOMAIN l /\ IsInjective(l)
    BY <1>1
  <2>2. q = Swapped(l, i, j)
    OBVIOUS
  <2> HIDE DEF l, j, q
  <2>3. /\ Swapped(l, i, j) \in Seq(1..made) /\ Len(Swapped(l, i, j)) = Len(l)
        /\ IsInjective(Swapped(l, i, j)) /\ ToSet(Swapped(l, i, j)) \subseteq ToSet(l)
    BY <2>1, SwappedPlaces
  <2> QED BY <2>2, <2>3 DEF l
<1>3. /\ lists' = [lists EXCEPT ![s] = q]
      /\ UNCHANGED <<name, items, revision, made, shared>>
  BY DEF Move
<1> HIDE DEF q
<1> QED BY <1>1, <1>2, <1>3, OrderStep

\* Adding a track to a playlist that is not full is a good edit.
LEMMA AddItemStep ==
    ASSUME SavedOK, edits' = edits + 1, edits < MaxEdits,
           NEW s \in Scopes, NEW p \in Ids, NEW l \in Links, AddItem(s, p, l)
    PROVE  Good
<1>1. items[p] \in Seq(Links) /\ Len(items[p]) \in Nat /\ Len(items[p]) < MaxItems
  BY ItemsAre DEF AddItem
<1>2. Append(items[p], l) \in Seq(Links) /\ Len(Append(items[p], l)) = Len(items[p]) + 1
  BY <1>1, AppendProperties
<1>3. Len(Append(items[p], l)) <= MaxItems
  BY <1>1, <1>2, Numbers
<1> QED BY <1>2, <1>3, EditStep DEF AddItem

\* Deleting tracks leaves some of the others, in a new revision.
LEMMA DeleteItemsStep ==
    ASSUME SavedOK, edits' = edits + 1, edits < MaxEdits,
           NEW s \in Scopes, NEW p \in Ids, NEW places, DeleteItems(s, p, places)
    PROVE  Good
<1> DEFINE q == Kept(items[p], (DOMAIN items[p]) \ places)
<1>1. items[p] \in Seq(Links) /\ Len(items[p]) \in Nat /\ Len(items[p]) <= MaxItems
  BY ItemsAre
<1>2. q \in Seq(Links) /\ Len(q) <= Len(items[p])
  BY <1>1, KeptPlaces
<1>3. Edit(p, q)
  BY DEF DeleteItems
<1> HIDE DEF q
<1>4. Len(q) \in Nat
  BY <1>2, LenProperties
<1>5. Len(q) <= MaxItems
  BY <1>1, <1>2, <1>4, Numbers
<1> QED BY <1>2, <1>3, <1>5, EditStep

\* Moving a track by a place keeps the length, in a new revision.
LEMMA MoveItemStep ==
    ASSUME SavedOK, edits' = edits + 1, edits < MaxEdits,
           NEW s \in Scopes, NEW p \in Ids, NEW i \in DOMAIN items[p], NEW d \in {-1, 1},
           MoveItem(s, p, i, d)
    PROVE  Good
<1> DEFINE q == Swapped(items[p], i, i + d)
<1>1. items[p] \in Seq(Links) /\ Len(items[p]) <= MaxItems /\ i + d \in DOMAIN items[p]
  BY ItemsAre DEF MoveItem
<1>2. q \in Seq(Links) /\ Len(q) = Len(items[p])
  BY <1>1, SwappedPlaces
<1>3. Edit(p, q)
  BY DEF MoveItem
<1> HIDE DEF q
<1> QED BY <1>1, <1>2, <1>3, EditStep

\* Giving the tracks an order that names each once keeps the length too.
LEMMA ReorderItemsStep ==
    ASSUME SavedOK, edits' = edits + 1, edits < MaxEdits,
           NEW s \in Scopes, NEW p \in Ids, NEW order, ReorderItems(s, p, order)
    PROVE  Good
<1> DEFINE n == Len(items[p])
           q == [i \in DOMAIN items[p] |-> items[p][order[i]]]
<1>1. /\ items[p] \in Seq(Links) /\ n \in Nat /\ n <= MaxItems
      /\ DOMAIN items[p] = 1 .. n
  BY ItemsAre
<1>2. order \in Selections(DOMAIN items[p], n, n) /\ Edit(p, q)
  BY DEF ReorderItems
<1>3. DOMAIN order = 1 .. n /\ \A i \in 1 .. n : order[i] \in 1 .. n
  <2>1. /\ Len(order) \in n .. n /\ DOMAIN order = 1 .. Len(order)
        /\ \A i \in DOMAIN order : order[i] \in DOMAIN items[p]
    BY <1>1, <1>2, SelectionIs
  <2> QED BY <2>1, <1>1
<1>4. \A i \in 1 .. n : items[p][order[i]] \in Links
  BY <1>1, <1>3, ElementOfSeq
<1>5. q \in Seq(Links) /\ Len(q) = n
  BY <1>1, <1>4
<1> HIDE DEF q
<1> QED BY <1>1, <1>2, <1>5, EditStep

\* Adding tracks of another playlist, as many as fit, stays within the limit.
LEMMA BatchAddStep ==
    ASSUME SavedOK, edits' = edits + 1, edits < MaxEdits,
           NEW s \in Scopes, NEW p \in Ids, NEW to \in Ids,
           NEW chosen \in Selections(DOMAIN items[p], 1, MaxItems),
           BatchAdd(s, p, to, chosen)
    PROVE  Good
<1> DEFINE picked == [k \in DOMAIN chosen |-> items[p][chosen[k]]]
           fresh == Without(Distinct(picked), ToSet(items[to]))
           added == Upto(fresh, MaxItems - Len(items[to]))
<1>1. /\ items[p] \in Seq(Links) /\ DOMAIN items[p] = 1 .. Len(items[p])
      /\ items[to] \in Seq(Links) /\ Len(items[to]) \in Nat /\ Len(items[to]) <= MaxItems
  BY ItemsAre
<1>2. /\ Len(chosen) \in 1 .. MaxItems /\ DOMAIN chosen = 1 .. Len(chosen)
      /\ \A k \in DOMAIN chosen : chosen[k] \in DOMAIN items[p]
  BY Numbers, SelectionIs
<1>3. picked \in Seq(Links)
  <2>1. \A k \in 1 .. Len(chosen) : items[p][chosen[k]] \in Links
    BY <1>1, <1>2, ElementOfSeq
  <2>2. Len(chosen) \in Nat
    BY <1>2
  <2> QED BY <2>1, <2>2, <1>2
<1> HIDE DEF picked
<1>4. fresh \in Seq(Links)
  <2>1. Distinct(picked) \in Seq(Links)
    BY <1>3, DistinctPlaces
  <2> QED BY <2>1, WithoutPlaces
<1>5. Edit(to, items[to] \o added)
  BY DEF BatchAdd, picked
<1> HIDE DEF fresh
<1>6. MaxItems - Len(items[to]) \in Nat
  BY <1>1, Numbers
<1>7. added \in Seq(Links) /\ Len(added) <= MaxItems - Len(items[to])
  BY <1>4, <1>6, UptoPlaces
<1> HIDE DEF added
<1>8. items[to] \o added \in Seq(Links) /\ Len(items[to] \o added) = Len(items[to]) + Len(added)
  BY <1>1, <1>7, ConcatProperties
<1>9. Len(added) \in Nat
  BY <1>7, LenProperties
<1>10. Len(items[to] \o added) <= MaxItems
  BY <1>1, <1>7, <1>8, <1>9, Numbers
<1> QED BY <1>5, <1>8, <1>10, EditStep

-----------------------------------------------------------------------------
(* Merging playlists. *)

\* The rows of the sources, one source after the other.
LEMMA AllPlaces ==
    ASSUME SavedOK, NEW sources \in Seq(Ids)
    PROVE  /\ All(sources) \in Seq(Links) /\ Len(All(sources)) \in Nat
           /\ DOMAIN All(sources) = 1 .. Len(All(sources))
           /\ \A i \in DOMAIN sources :
                 /\ Offset(sources, i) \in Nat
                 /\ \A k \in DOMAIN items[sources[i]] :
                       /\ Offset(sources, i) + k \in DOMAIN All(sources)
                       /\ All(sources)[Offset(sources, i) + k] = items[sources[i]][k]
<1> DEFINE n == Len(sources)
           seqs == [i \in DOMAIN sources |-> items[sources[i]]]
           A == All(sources)
<1>1. n \in Nat /\ DOMAIN sources = 1 .. n /\ \A i \in 1 .. n : sources[i] \in Ids
  BY LenProperties, ElementOfSeq
<1>2. \A i \in 1 .. n : /\ items[sources[i]] \in Seq(Links) /\ Len(items[sources[i]]) \in Nat
                        /\ DOMAIN items[sources[i]] = 1 .. Len(items[sources[i]])
  BY <1>1, ItemsAre
<1>3. /\ seqs \in Seq(Seq(Links)) /\ Len(seqs) = n
      /\ \A i \in 1 .. n : seqs[i] = items[sources[i]]
  BY <1>1, <1>2
<1>4. A = FlattenSeq(seqs)
  BY DEF All
<1>5. \A i \in 1 .. n : Offset(sources, i) = StartOf(seqs, i)
  <2> SUFFICES ASSUME NEW i \in 1 .. n PROVE Offset(sources, i) = StartOf(seqs, i)
    OBVIOUS
  <2> DEFINE pre == SubSeq(sources, 1, i - 1)
             preseqs == [j \in DOMAIN pre |-> items[pre[j]]]
  <2>1. 1 \in Int /\ i - 1 \in Int /\ i - 1 \in Nat /\ 1 .. i - 1 \subseteq 1 .. n
        /\ \A j \in 1 .. (i - 1) - 1 + 1 : j \in 1 .. i - 1 /\ 1 + j - 1 = j
    BY <1>1
  <2>2. \A j \in 1 .. i - 1 : sources[j] \in Ids /\ seqs[j] \in Seq(Links)
    BY <1>1, <1>2, <1>3, <2>1
  <2>3. /\ pre \in Seq(Ids) /\ Len(pre) = i - 1
        /\ \A j \in 1 .. i - 1 : pre[j] = sources[j]
    <3>1. /\ pre \in Seq(Ids)
          /\ Len(pre) = IF 1 <= i - 1 THEN (i - 1) - 1 + 1 ELSE 0
          /\ \A j \in 1 .. (i - 1) - 1 + 1 : pre[j] = sources[1 + j - 1]
      BY <2>1, <2>2, SubSeqProperties
    <3> HIDE DEF pre
    <3> QED BY <3>1, <2>1
  <2> HIDE DEF seqs
  <2>4. /\ SubSeq(seqs, 1, i - 1) \in Seq(Seq(Links)) /\ Len(SubSeq(seqs, 1, i - 1)) = i - 1
        /\ \A j \in 1 .. i - 1 : SubSeq(seqs, 1, i - 1)[j] = seqs[j]
    <3>1. /\ SubSeq(seqs, 1, i - 1) \in Seq(Seq(Links))
          /\ Len(SubSeq(seqs, 1, i - 1)) = IF 1 <= i - 1 THEN (i - 1) - 1 + 1 ELSE 0
          /\ \A j \in 1 .. (i - 1) - 1 + 1 : SubSeq(seqs, 1, i - 1)[j] = seqs[1 + j - 1]
      BY <2>1, <2>2, SubSeqProperties
    <3> QED BY <3>1, <2>1
  <2> HIDE DEF pre
  <2>5. DOMAIN pre = 1 .. i - 1
    BY <2>3, LenProperties
  <2>6. \A j \in 1 .. i - 1 : items[pre[j]] = seqs[j]
    BY <2>1, <2>3, <1>3
  <2>7. preseqs \in Seq(Seq(Links)) /\ Len(preseqs) = i - 1
        /\ \A j \in 1 .. i - 1 : preseqs[j] = seqs[j]
    BY <2>1, <2>2, <2>5, <2>6
  <2> HIDE DEF preseqs
  <2>8. preseqs = SubSeq(seqs, 1, i - 1)
    BY <2>4, <2>7, SeqEqual
  <2>9. Offset(sources, i) = Len(FlattenSeq(preseqs))
    BY DEF Offset, All, pre, preseqs
  <2> QED BY <2>8, <2>9 DEF StartOf
<1> HIDE DEF seqs, n
<1>6. /\ A \in Seq(Links)
      /\ \A j \in 1 .. n :
           /\ StartOf(seqs, j) \in Nat
           /\ StartOf(seqs, j) + Len(seqs[j]) <= Len(A)
           /\ \A k \in 1 .. Len(seqs[j]) : A[StartOf(seqs, j) + k] = seqs[j][k]
  BY <1>3, <1>4, FlattenPlaces
<1> HIDE DEF A
<1>7. Len(A) \in Nat /\ DOMAIN A = 1 .. Len(A)
  BY <1>6, LenProperties
<1>8. ASSUME NEW i \in DOMAIN sources
      PROVE  /\ Offset(sources, i) \in Nat
             /\ \A k \in DOMAIN items[sources[i]] :
                   /\ Offset(sources, i) + k \in DOMAIN A
                   /\ A[Offset(sources, i) + k] = items[sources[i]][k]
  <2>1. i \in 1 .. n /\ Offset(sources, i) = StartOf(seqs, i) /\ seqs[i] = items[sources[i]]
        /\ Len(seqs[i]) \in Nat /\ DOMAIN items[sources[i]] = 1 .. Len(seqs[i])
    BY <1>1, <1>2, <1>3, <1>5
  <2>2. /\ StartOf(seqs, i) \in Nat
        /\ StartOf(seqs, i) + Len(seqs[i]) <= Len(A)
        /\ \A k \in 1 .. Len(seqs[i]) : A[StartOf(seqs, i) + k] = seqs[i][k]
    BY <2>1, <1>6
  <2>3. \A k \in 1 .. Len(seqs[i]) : StartOf(seqs, i) + k \in 1 .. Len(A)
    BY <2>1, <2>2, <1>7
  <2> QED BY <2>1, <2>2, <2>3, <1>7
<1> QED BY <1>6, <1>7, <1>8 DEF A

\* The merged playlist is within the limit, and its rows are rows of the sources.
LEMMA MergedIs ==
    ASSUME SavedOK, NEW sources \in Seq(Ids)
    PROVE  Merged(sources) \in Seq(Links) /\ Len(Merged(sources)) <= MaxItems
<1>1. Distinct(All(sources)) \in Seq(Links)
  BY AllPlaces, DistinctPlaces
<1> QED BY <1>1, UptoPlaces, Numbers DEF Merged

\* Whatever is consumed is in the merged playlist.
LEMMA ConsumedIs ==
    ASSUME SavedOK, NEW sources \in Seq(Ids)
    PROVE  /\ Consumed(sources) \in Nat
           /\ \A k \in DOMAIN All(sources) :
                 k <= Consumed(sources) => All(sources)[k] \in ToSet(Merged(sources))
<1> DEFINE A == All(sources)
           M == ToSet(Merged(sources))
           misfits == {k \in DOMAIN A : A[k] \notin M}
           first == CHOOSE k \in misfits : \A j \in misfits : k <= j
<1>1. Len(A) \in Nat /\ DOMAIN A = 1 .. Len(A)
  BY AllPlaces
<1>2. Consumed(sources) = IF misfits = {} THEN Len(A) ELSE first - 1
  BY DEF Consumed
<1> HIDE DEF A, M
<1>3. CASE misfits = {}
  <2>1. \A k \in DOMAIN A : A[k] \in M
    BY <1>3
  <2> QED BY <2>1, <1>1, <1>2, <1>3 DEF A, M
<1>4. CASE misfits # {}
  <2>1. misfits \in SUBSET Nat
    BY <1>1
  <2> HIDE DEF misfits
  <2>2. \E k \in misfits : \A j \in misfits : k <= j
    BY <2>1, <1>4, LeastNumber
  <2>3. first \in misfits /\ \A j \in misfits : first <= j
    BY <2>2
  <2> HIDE DEF first
  <2>4. first \in 1 .. Len(A)
    BY <2>3, <1>1 DEF misfits
  <2>5. \A k \in DOMAIN A : k <= first - 1 => A[k] \in M
    <3> SUFFICES ASSUME NEW k \in DOMAIN A, k <= first - 1, A[k] \notin M PROVE FALSE
      OBVIOUS
    <3>1. k \in misfits
      BY DEF misfits
    <3> QED BY <3>1, <2>3, <2>4, <1>1
  <2> QED BY <2>4, <2>5, <1>1, <1>2, <1>4 DEF A, M
<1> QED BY <1>3, <1>4

\* A merge empties some of its sources and cuts others.
LEMMA SourcesOf ==
    ASSUME SavedOK, NEW sources \in Seq(Ids), IsInjective(sources)
    PROVE  /\ Emptied(sources) \subseteq ToSet(sources)
           /\ \A i \in Cut(sources) :
                 /\ i \in DOMAIN sources
                 /\ sources[i] \notin Emptied(sources)
                 /\ \A j \in Cut(sources) : sources[j] = sources[i] => j = i
                 /\ Consumed(sources) - Offset(sources, i) \in 1 .. Len(items[sources[i]]) - 1
<1>1. Emptied(sources) \subseteq ToSet(sources)
  BY DEF Emptied, ToSet
<1>2. ASSUME NEW i \in Cut(sources)
      PROVE  /\ i \in DOMAIN sources
             /\ sources[i] \notin Emptied(sources)
             /\ \A j \in Cut(sources) : sources[j] = sources[i] => j = i
             /\ Consumed(sources) - Offset(sources, i) \in 1 .. Len(items[sources[i]]) - 1
  <2>1. /\ i \in DOMAIN sources
        /\ Offset(sources, i) < Consumed(sources) /\ Consumed(sources) < End(sources, i)
        /\ \A j \in Cut(sources) : j \in DOMAIN sources
    BY DEF Cut
  <2>2. sources[i] \in Ids
    BY <2>1, LenProperties, ElementOfSeq
  <2>3. /\ Offset(sources, i) \in Nat /\ Consumed(sources) \in Nat
        /\ Len(items[sources[i]]) \in Nat
        /\ End(sources, i) = Offset(sources, i) + Len(items[sources[i]])
    BY <2>1, <2>2, AllPlaces, ConsumedIs, ItemsAre DEF End
  <2>4. Consumed(sources) - Offset(sources, i) \in 1 .. Len(items[sources[i]]) - 1
    BY <2>1, <2>3
  <2>5. sources[i] \notin Emptied(sources)
    <3> SUFFICES ASSUME sources[i] \in Emptied(sources) PROVE FALSE
      OBVIOUS
    <3>1. PICK j \in DOMAIN sources : End(sources, j) <= Consumed(sources) /\ sources[j] = sources[i]
      BY DEF Emptied
    <3>2. j = i
      BY <3>1, <2>1 DEF IsInjective
    <3> QED BY <3>1, <3>2, <2>1, <2>3
  <2> QED BY <2>1, <2>4, <2>5 DEF IsInjective
<1> QED BY <1>1, <1>2

\* Where a row of a source is after the merge: in the merged playlist, or still
\* in the source.
LEMMA RowsSurvive ==
    ASSUME SavedOK, NEW sources \in Seq(Ids), IsInjective(sources),
           NEW i \in DOMAIN sources, NEW k \in DOMAIN items[sources[i]]
    PROVE  \/ items[sources[i]][k] \in ToSet(Merged(sources))
           \/ /\ sources[i] \notin Emptied(sources)
              /\ i \in Cut(sources) => k > Consumed(sources) - Offset(sources, i)
<1>1. /\ Offset(sources, i) \in Nat /\ Offset(sources, i) + k \in DOMAIN All(sources)
      /\ All(sources)[Offset(sources, i) + k] = items[sources[i]][k]
  BY AllPlaces
<1>2. Consumed(sources) \in Nat
  BY ConsumedIs
<1>3. sources[i] \in Ids
  BY LenProperties, ElementOfSeq
<1>4. Len(items[sources[i]]) \in Nat /\ k \in 1 .. Len(items[sources[i]])
  BY <1>3, ItemsAre
<1>5. CASE Offset(sources, i) + k <= Consumed(sources)
  BY <1>1, <1>5, ConsumedIs
<1>6. CASE ~ (Offset(sources, i) + k <= Consumed(sources))
  <2>1. sources[i] \notin Emptied(sources)
    <3> SUFFICES ASSUME sources[i] \in Emptied(sources) PROVE FALSE
      OBVIOUS
    <3>1. PICK j \in DOMAIN sources : End(sources, j) <= Consumed(sources) /\ sources[j] = sources[i]
      BY DEF Emptied
    <3>2. j = i
      BY <3>1 DEF IsInjective
    <3> QED BY <3>1, <3>2, <1>1, <1>2, <1>4, <1>6 DEF End
  <2>2. k > Consumed(sources) - Offset(sources, i)
    BY <1>1, <1>2, <1>4, <1>6
  <2> QED BY <2>1, <2>2
<1> QED BY <1>5, <1>6

\* A merge is a good edit: above all, a scope loses no link by it.  What was not
\* merged is in a source that stays, behind what the merge cut off.
LEMMA MergeStep ==
    ASSUME SavedOK, edits' = edits + 1, edits < MaxEdits, NEW s \in Scopes,
           NEW sources \in Selections(ToSet(lists[s]), 2, MaxPlaylists), NEW n \in Names,
           Merge(s, sources, n)
    PROVE  Good
<1> DEFINE gone == Emptied(sources)
           new == made + 1
           l == lists[s]
           rest == Without(l, gone)
           q == Append(rest, new)
           IsCut(p) == \E i \in Cut(sources) : sources[i] = p
           Of(p) == CHOOSE i \in Cut(sources) : sources[i] = p
           Left(p) == SubSeq(items[p], Consumed(sources) - Offset(sources, Of(p)) + 1, Len(items[p]))
<1>1. /\ made \in Nat /\ new \in Ids /\ made' = new /\ new <= MaxMade
      /\ 1..made \subseteq Ids /\ new \notin 1..made /\ 1..made' = 1..made \cup {new}
      /\ made' \in {made, made + 1} /\ 1..made' \ 1..made = {new}
  BY Numbers DEF SavedOK, ListsOK, Ids, Merge
<1>2. /\ ListsOK /\ l \in Seq(1..made) /\ IsInjective(l) /\ Len(l) <= MaxPlaylists
      /\ Len(l) \in Nat /\ ToSet(l) \subseteq 1..made /\ ToSet(l) \subseteq Ids
  BY Members DEF SavedOK, ListsOK
<1>3. sources \in Seq(Ids) /\ IsInjective(sources) /\ ToSet(sources) \subseteq ToSet(l)
  <2>1. sources \in Seq(ToSet(l)) /\ IsInjective(sources) /\ ToSet(sources) \subseteq ToSet(l)
    BY Numbers, SelectionIs
  <2> HIDE DEF l
  <2> QED BY <2>1, <1>2, SeqMonotonic
<1>4. gone \subseteq ToSet(l)
  BY <1>3, SourcesOf
<1>5. /\ lists' = [lists EXCEPT ![s] = q]
      /\ name' = [p \in Ids |-> IF p = new THEN n ELSE IF p \in gone THEN None ELSE name[p]]
      /\ items' = [p \in Ids |-> IF p = new THEN Merged(sources)
                                 ELSE IF p \in gone THEN << >>
                                 ELSE IF IsCut(p) THEN Left(p) ELSE items[p]]
      /\ revision' = [p \in Ids |-> IF p = new THEN 1
                                    ELSE IF IsCut(p) THEN revision[p] + 1 ELSE revision[p]]
      /\ ~ NameTaken(s, n, gone) /\ Len(l) - Cardinality(gone) < MaxPlaylists
      /\ UNCHANGED shared
  BY DEF Merge
<1>6. ASSUME NEW p \in Ids, IsCut(p)
      PROVE  /\ Of(p) \in Cut(sources) /\ sources[Of(p)] = p /\ p \in ToSet(l) /\ p \notin gone
             /\ Left(p) \in Seq(Links) /\ Len(Left(p)) <= MaxItems
             /\ \A k \in DOMAIN items[p] :
                   k > Consumed(sources) - Offset(sources, Of(p)) => items[p][k] \in ToSet(Left(p))
  <2>1. Of(p) \in Cut(sources) /\ sources[Of(p)] = p
    BY <1>6
  <2> HIDE DEF Of, IsCut
  <2>2. /\ Of(p) \in DOMAIN sources /\ p \notin gone
        /\ Consumed(sources) - Offset(sources, Of(p)) \in 1 .. Len(items[p]) - 1
    BY <2>1, <1>3, SourcesOf
  <2>3. p \in ToSet(l)
    BY <2>1, <2>2, <1>3 DEF ToSet
  <2> DEFINE c == Consumed(sources) - Offset(sources, Of(p))
             m == Len(items[p])
  <2>4. /\ items[p] \in Seq(Links) /\ m \in Nat /\ m <= MaxItems /\ DOMAIN items[p] = 1 .. m
        /\ c \in 1 .. m - 1
    BY <2>2, ItemsAre
  <2>5. Left(p) = SubSeq(items[p], c + 1, m)
    OBVIOUS
  <2> HIDE DEF c, m, Left
  <2>6. \A i \in c + 1 .. m : items[p][i] \in Links
    BY <2>4, ElementOfSeq
  <2>7. c + 1 \in Int /\ m \in Int
    BY <2>4
  <2>8. /\ Left(p) \in Seq(Links)
        /\ Len(Left(p)) = IF c + 1 <= m THEN m - (c + 1) + 1 ELSE 0
        /\ \A i \in 1 .. m - (c + 1) + 1 : Left(p)[i] = items[p][c + 1 + i - 1]
    BY <2>5, <2>6, <2>7, SubSeqProperties
  <2>9. Len(Left(p)) = m - c /\ Len(Left(p)) <= MaxItems
    BY <2>4, <2>8, Numbers
  <2>10. DOMAIN Left(p) = 1 .. m - c
    BY <2>8, <2>9, LenProperties
  <2>11. \A k \in DOMAIN items[p] : k > c => items[p][k] \in ToSet(Left(p))
    <3> SUFFICES ASSUME NEW k \in DOMAIN items[p], k > c PROVE items[p][k] \in ToSet(Left(p))
      OBVIOUS
    <3>1. /\ k - c \in 1 .. m - (c + 1) + 1 /\ k - c \in 1 .. m - c
          /\ c + 1 + (k - c) - 1 = k
      BY <2>4
    <3>2. Left(p)[k - c] = items[p][k]
      BY <3>1, <2>8
    <3> QED BY <3>1, <3>2, <2>10 DEF ToSet
  <2> QED BY <2>1, <2>2, <2>3, <2>8, <2>9, <2>11 DEF c
<1>7. /\ rest \in Seq(1..made) /\ ToSet(rest) = ToSet(l) \ gone /\ IsInjective(rest)
      /\ Len(rest) \in Nat /\ Len(rest) < MaxPlaylists
  <2>1. rest \in Seq(1..made) /\ ToSet(rest) = ToSet(l) \ gone /\ IsInjective(rest)
    BY <1>2, WithoutPlaces
  <2> HIDE DEF rest
  <2>2. Len(rest) = Cardinality(ToSet(rest)) /\ Len(l) = Cardinality(ToSet(l)) /\ IsFiniteSet(ToSet(l))
    BY <2>1, <1>2, LengthOfInjective
  <2>3. ToSet(l) \cap gone = gone
    BY <1>4
  <2>4. Cardinality(ToSet(l) \ gone) = Cardinality(ToSet(l)) - Cardinality(ToSet(l) \cap gone)
    BY <2>2, FS_Difference
  <2>5. Len(rest) \in Nat
    BY <2>1, LenProperties
  <2> QED BY <2>1, <2>2, <2>3, <2>4, <2>5, <1>5
<1> HIDE DEF gone, rest, IsCut, Of, Left
<1>8. /\ q \in Seq(1..made') /\ Len(q) = Len(rest) + 1 /\ IsInjective(q)
      /\ ToSet(q) = (ToSet(l) \ gone) \cup {new}
  <2>1. rest \in Seq(1..made') /\ new \in 1..made' /\ new \notin ToSet(rest)
    <3>1. 1..made \subseteq 1..made' /\ new \in 1..made'
      BY <1>1
    <3>2. new \notin ToSet(rest)
      BY <1>1, <1>2, <1>7
    <3> QED BY <3>1, <3>2, <1>7, SeqMonotonic
  <2> DEFINE T == 1..made'
  <2>2. rest \in Seq(T) /\ new \in T
    BY <2>1
  <2> HIDE DEF new, T
  <2>3. /\ q \in Seq(T) /\ Len(q) = Len(rest) + 1
        /\ ToSet(q) = ToSet(rest) \cup {new}
        /\ IsInjective(q)
    BY <2>1, <2>2, <1>7, AppendMember
  <2> QED BY <2>3, <1>7 DEF T
<1>9. ListsOK'
  <2>1. Len(q) <= MaxPlaylists
    BY <1>7, <1>8, Numbers
  <2>2. ToSet(q) \subseteq ToSet(lists[s]) \cup (1..made' \ 1..made) /\ made' <= MaxMade
    BY <1>1, <1>8
  <2> HIDE DEF q
  <2> QED BY <2>1, <2>2, <1>1, <1>2, <1>5, <1>8, ListsStep
<1>10. /\ ToSet(lists'[s]) = (ToSet(l) \ gone) \cup {new}
       /\ \A t \in Scopes : t # s => lists'[t] = lists[t] /\ ToSet(lists'[t]) = ToSet(lists[t])
  <2>1. lists'[s] = q /\ \A t \in Scopes : t # s => lists'[t] = lists[t]
    BY <1>2, <1>5 DEF ListsOK
  <2> QED BY <2>1, <1>8
<1> HIDE DEF q, new
<1>11. \A t \in Scopes : ToSet(lists[t]) \subseteq 1..made /\ ToSet(lists[t]) \subseteq Ids
  BY <1>2, Members
<1>12. \A t \in Scopes : t # s => \A p \in ToSet(lists[t]) : p \notin ToSet(l)
  BY <1>2 DEF ListsOK
<1>13. ASSUME NEW t \in Scopes, t # s, NEW p \in ToSet(lists[t])
       PROVE  p \in Ids /\ p # new /\ p \notin gone /\ ~ IsCut(p)
  <2>1. p \in 1..made /\ p \in Ids /\ p \notin ToSet(l)
    BY <1>11, <1>12, <1>13
  <2> QED BY <2>1, <1>1, <1>4, <1>6
<1>14. \A p \in ToSet(l) : p \in Ids /\ p # new
  BY <1>1, <1>2
<1>15. NamesOK'
  <2>1. n # None /\ n \in Names
    BY PlaylistsAssumption
  <2>2. name' \in [Ids -> Names \cup {None}]
    BY <1>5, <2>1 DEF SavedOK, NamesOK
  <2> SUFFICES ASSUME NEW t \in Scopes, NEW a \in ToSet(lists'[t]), NEW b \in ToSet(lists'[t])
               PROVE  name'[a] # None /\ (name'[a] = name'[b] => a = b)
    BY <2>2 DEF NamesOK
  <2>3. \A x \in ToSet(lists[t]) : \A y \in ToSet(lists[t]) :
           name[x] # None /\ (name[x] = name[y] => x = y)
    BY DEF SavedOK, NamesOK
  <2>4. CASE t # s
    <3>1. a \in ToSet(lists[t]) /\ b \in ToSet(lists[t])
      BY <2>4, <1>10
    <3>2. name'[a] = name[a] /\ name'[b] = name[b]
      BY <3>1, <2>4, <1>5, <1>13
    <3> QED BY <3>1, <3>2, <2>3
  <2>5. CASE t = s
    <3>1. \A x \in ToSet(l) \ gone : name'[x] = name[x] /\ name[x] # n
      BY <1>5, <1>14 DEF NameTaken
    <3>2. name'[new] = n
      BY <1>1, <1>5
    <3>3. /\ a \in ToSet(l) \ gone \/ a = new
          /\ b \in ToSet(l) \ gone \/ b = new
      BY <2>5, <1>10
    <3> QED BY <3>1, <3>2, <3>3, <2>1, <2>3, <2>5
  <2> QED BY <2>4, <2>5
<1>16. /\ Merged(sources) \in Seq(Links) /\ Len(Merged(sources)) <= MaxItems
       /\ << >> \in Seq(Links) /\ Len(<< >>) <= MaxItems
  BY <1>3, MergedIs, EmptySeq, Numbers
<1>17. ItemsOK' /\ SharedOK'
  <2>1. \A p \in Ids : /\ items'[p] \in Seq(Links) /\ Len(items'[p]) <= MaxItems
    <3> SUFFICES ASSUME NEW p \in Ids
                 PROVE  items'[p] \in Seq(Links) /\ Len(items'[p]) <= MaxItems
      OBVIOUS
    <3>1. items[p] \in Seq(Links) /\ Len(items[p]) <= MaxItems
      BY DEF SavedOK, ItemsOK
    <3>2. IsCut(p) => Left(p) \in Seq(Links) /\ Len(Left(p)) <= MaxItems
      BY <1>6
    <3> QED BY <3>1, <3>2, <1>5, <1>16
  <2>2. items' \in [Ids -> Seq(Links)]
    BY <2>1, <1>5
  <2> QED BY <2>1, <2>2, <1>5 DEF ItemsOK, SavedOK, SharedOK
<1>18. /\ \A p \in Ids : revision[p] \in Nat /\ revision[p] <= edits + 1
       /\ edits \in Nat /\ edits' \in 0..MaxEdits
  BY Numbers DEF SavedOK, RevisionsOK
<1>19. RevisionsOK'
  BY <1>5, <1>18 DEF RevisionsOK
<1>20. Steady
  <2>1. \A p \in 1..made : p \in Ids /\ p # new
    BY <1>1
  <2>2. \A p \in 1..made : revision[p] <= revision'[p] /\ (revision'[p] = revision[p] => ~ IsCut(p))
    BY <2>1, <1>5, <1>18
  <2>3. ASSUME NEW p \in 1..made, NEW t \in Scopes, p \in ToSet(lists'[t])
        PROVE  p \in ToSet(lists[t]) /\ p \notin gone
    <3>1. CASE t = s
      BY <3>1, <2>1, <2>3, <1>10
    <3>2. CASE t # s
      BY <3>2, <2>3, <1>10, <1>13
    <3> QED BY <3>1, <3>2
  <2>4. \A p \in 1..made : p \notin gone /\ ~ IsCut(p) => items'[p] = items[p]
    BY <2>1, <1>5
  <2>5. made <= made'
    BY <1>1
  <2> QED BY <2>2, <2>3, <2>4, <2>5 DEF Steady
<1>21. LosesNothing
  <2> SUFFICES ASSUME NEW t \in Scopes, NEW p \in ToSet(lists[t]), NEW x \in ToSet(items[p])
               PROVE  \E r \in ToSet(lists'[t]) : x \in ToSet(items'[r])
    BY DEF LosesNothing, LinksOf
  <2>1. CASE t # s
    <3>1. p \in ToSet(lists'[t]) /\ items'[p] = items[p]
      BY <2>1, <1>5, <1>10, <1>13
    <3> QED BY <3>1
  <2>2. CASE t = s /\ ~ (\E i \in DOMAIN sources : sources[i] = p)
    <3>1. p \notin gone /\ ~ IsCut(p)
      <4>1. p \notin ToSet(sources) /\ \A i \in Cut(sources) : i \in DOMAIN sources
        BY <2>2 DEF ToSet, Cut
      <4> QED BY <4>1, <2>2, <1>3, SourcesOf DEF gone, IsCut
    <3>2. p \in ToSet(lists'[t]) /\ items'[p] = items[p]
      BY <2>2, <3>1, <1>5, <1>10, <1>14
    <3> QED BY <3>2
  <2>3. CASE t = s /\ \E i \in DOMAIN sources : sources[i] = p
    <3>1. PICK i \in DOMAIN sources : sources[i] = p
      BY <2>3
    <3>2. PICK k \in DOMAIN items[p] : items[p][k] = x
      BY DEF ToSet
    <3>3. CASE x \in ToSet(Merged(sources))
      <4>1. new \in ToSet(lists'[t]) /\ items'[new] = Merged(sources)
        BY <2>3, <1>1, <1>5, <1>10
      <4> QED BY <4>1, <3>3
    <3>4. CASE p \notin gone /\ (i \in Cut(sources) => k > Consumed(sources) - Offset(sources, i))
      <4>1. p \in ToSet(lists'[t]) /\ p \in Ids /\ p # new
        BY <2>3, <3>4, <1>10, <1>14
      <4>2. CASE IsCut(p)
        <5>1. Of(p) \in Cut(sources) /\ sources[Of(p)] = p
          BY <4>1, <4>2, <1>6
        <5>2. Of(p) = i
          <6>1. Of(p) \in DOMAIN sources
            BY <5>1 DEF Cut
          <6> QED BY <6>1, <5>1, <3>1, <1>3 DEF IsInjective
        <5>3. x \in ToSet(Left(p))
          BY <5>1, <5>2, <3>2, <3>4, <4>1, <4>2, <1>6
        <5>4. items'[p] = Left(p)
          BY <4>1, <4>2, <3>4, <1>5
        <5> QED BY <4>1, <5>3, <5>4
      <4>3. CASE ~ IsCut(p)
        <5>1. items'[p] = items[p]
          BY <4>1, <4>3, <3>4, <1>5
        <5> QED BY <4>1, <5>1
      <4> QED BY <4>2, <4>3
    <3>5. \/ x \in ToSet(Merged(sources))
          \/ p \notin gone /\ (i \in Cut(sources) => k > Consumed(sources) - Offset(sources, i))
      BY <3>1, <3>2, <1>3, RowsSurvive DEF gone
    <3> QED BY <3>3, <3>4, <3>5
  <2> QED BY <2>1, <2>2, <2>3
<1> QED BY <1>9, <1>15, <1>17, <1>19, <1>20, <1>21 DEF Good, SavedOK

-----------------------------------------------------------------------------
(* The two requests that read in several statements. *)

\* What the room plays; the queue of requests, snapshot 0, has no owner.
PlayedOK ==
    /\ taken \in 1..MaxSnapshots
    /\ rows \in [Snapshots -> Seq(Links)]
    /\ active \in [snapshot : 0..taken, list : 0..MaxMade, owner : Users \cup {None}]
    /\ active.owner # None => active.snapshot # 0

\* An activation under way.
Activations ==
    [at : {"summary", "count", "rows", "activate", "clean"}, scope : Scopes, list : Ids,
     page : Nat \ {0}, total : Nat, got : Seq(Links), revision : Nat, accounts : SUBSET Users]

\* Its playlist was made, and is of its revision or a later one, and whoever had
\* no account has none.
ActivationOK ==
    \/ activation = Idle
    \/ /\ activation \in Activations
       /\ activation.list <= made
       /\ activation.revision <= revision[activation.list]
       /\ activation.accounts \subseteq deleted
       /\ activation.at # "clean" => taken < MaxSnapshots

\* A clone under way.
CloneOK ==
    \/ clone = Idle
    \/ clone \in [at : {"rows"}, user : Users, snapshot : Snapshots]
    \/ clone \in [at : {"copy"}, user : Users, links : Seq(Links)]

\* The playlist is there and as it was when the activation began, and for a room's
\* so are the accounts.
Unrevised ==
    /\ activation # Idle /\ Has(activation.scope, activation.list)
    /\ revision[activation.list] = activation.revision
    /\ activation.scope = Room => deleted = activation.accounts

\* Then the pages so far are the playlist's first rows.
ReadInOrder ==
    Unrevised =>
       /\ activation.at \in {"summary", "count", "rows"} =>
             activation.got = Upto(items[activation.list], (activation.page - 1) * PageSize)
       /\ activation.at = "rows" => activation.total = Len(items[activation.list])
       /\ activation.at = "activate" => activation.got = items[activation.list]

\* The invariant of what is played and of the requests in several statements.
RequestsOK == PlayedOK /\ ActivationOK /\ CloneOK /\ ReadInOrder

\* The inductive invariant of Playlists.
PlaylistsInv == SavedOK /\ DeletedOK /\ RequestsOK

\* A good edit leaves an activation that reads in order so: either it gives the
\* playlist a new revision or it leaves its items alone.
LEMMA ActivationKept ==
    ASSUME SavedOK, SavedOK', ActivationOK, ReadInOrder, Steady,
           UNCHANGED <<activation, taken>>, deleted \subseteq deleted'
    PROVE  ActivationOK' /\ ReadInOrder'
<1>1. CASE activation = Idle
  BY <1>1 DEF ActivationOK, ReadInOrder, Unrevised
<1>2. CASE activation # Idle
  <2>1. /\ activation \in Activations /\ activation.list <= made
        /\ activation.revision <= revision[activation.list]
        /\ activation.accounts \subseteq deleted
        /\ activation.at # "clean" => taken < MaxSnapshots
    BY <1>2 DEF ActivationOK
  <2> PICK a \in Activations : a = activation
    BY <2>1
  <2>2. a.list \in 1..made /\ a.scope \in Scopes /\ made \in Nat /\ a.list \in Ids /\ a.revision \in Nat
    BY <2>1 DEF Activations, Ids, SavedOK, ListsOK
  <2>3. revision[a.list] <= revision'[a.list] /\ made <= made' /\ deleted \subseteq deleted'
    BY <2>2 DEF Steady
  <2>4. revision[a.list] \in Nat /\ revision'[a.list] \in Nat /\ made' \in Nat
    BY <2>2 DEF SavedOK, RevisionsOK, ListsOK
  <2>6. ActivationOK'
    BY <2>1, <2>2, <2>3, <2>4 DEF ActivationOK
  <2>7. ASSUME Unrevised'
        PROVE  Unrevised /\ items'[a.list] = items[a.list]
    <3>1. a.list \in ToSet(lists'[a.scope]) /\ revision'[a.list] = a.revision
      BY <2>7 DEF Unrevised, Has
    <3>2. revision'[a.list] = revision[a.list]
      BY <3>1, <2>1, <2>2, <2>3, <2>4
    <3>3. a.scope = Room => deleted' = deleted /\ deleted = a.accounts
      BY <2>1, <2>3, <2>7 DEF Unrevised
    <3>4. a.list \in ToSet(lists[a.scope]) /\ items'[a.list] = items[a.list]
      BY <3>1, <3>2, <3>3, <2>2 DEF Steady
    <3> QED BY <3>1, <3>2, <3>3, <3>4, <1>2 DEF Unrevised, Has
  <2> QED BY <2>6, <2>7 DEF ReadInOrder
<1> QED BY <1>1, <1>2

\* What an edit leaves of the requests that read in several statements.
LEMMA RequestsKept ==
    ASSUME PlaylistsInv, Good, UNCHANGED requests, DeletedOK'
    PROVE  PlaylistsInv'
<1>1. SavedOK /\ SavedOK' /\ Steady /\ ActivationOK /\ ReadInOrder
  BY DEF PlaylistsInv, RequestsOK, Good
<1>2. UNCHANGED <<active, rows, taken, activation, clone, deleted>>
  BY DEF requests
<1>3. ActivationOK' /\ ReadInOrder'
  BY <1>1, <1>2, ActivationKept
<1>4. PlayedOK' /\ CloneOK'
  BY <1>2 DEF PlaylistsInv, RequestsOK, PlayedOK, CloneOK
<1> QED BY <1>1, <1>3, <1>4 DEF PlaylistsInv, RequestsOK

\* An account that goes takes its playlists and rows of the room's.  An activation
\* of the room's that was under way is excused from then on.
LEMMA DeleteAccountStep ==
    ASSUME PlaylistsInv, edits' = edits + 1, edits < MaxEdits,
           NEW u \in Users, NEW left \in Leftovers, DeleteAccount(u, left), u \notin deleted
    PROVE  PlaylistsInv' /\ LosesNothing
<1>1. SavedOK /\ DeletedOK /\ PlayedOK /\ ActivationOK /\ CloneOK /\ ReadInOrder
  BY DEF PlaylistsInv, RequestsOK
<1>2. /\ UNCHANGED <<revision, made, shared, active, rows, taken, activation, clone>>
      /\ deleted' = deleted \cup {u} /\ lists' = [lists EXCEPT ![u] = << >>]
      /\ name' = [p \in Ids |-> IF Has(u, p) THEN None ELSE name[p]]
      /\ items' = [p \in Ids |-> IF Has(u, p) THEN << >>
                                 ELSE IF Has(Room, p) THEN Kept(items[p], left[p]) ELSE items[p]]
  BY DEF DeleteAccount
<1>3. u \in Scopes /\ u # Room /\ Room \in Scopes
  BY PlaylistsAssumption DEF Scopes
<1>4. made \in Nat /\ 1..made \subseteq Ids
  BY <1>1, Numbers DEF SavedOK, ListsOK, Ids
<1>5. /\ lists'[u] = << >> /\ ToSet(lists'[u]) = {}
      /\ \A t \in Scopes : t # u => lists'[t] = lists[t]
  BY <1>1, <1>2, <1>3 DEF SavedOK, ListsOK, ToSet
<1>6. \A t \in Scopes : t # u => \A p \in ToSet(lists[t]) : p \in Ids /\ ~ Has(u, p)
  <2> TAKE t \in Scopes
  <2> HAVE t # u
  <2>1. ToSet(lists[t]) \subseteq Ids
    BY <1>1, Members DEF SavedOK
  <2> QED BY <2>1, <1>1, <1>3 DEF SavedOK, ListsOK, Has
<1>7. ListsOK'
  <2>1. /\ << >> \in Seq(1..made) /\ IsInjective(<< >>) /\ Len(<< >>) = 0
    BY EmptySeq DEF IsInjective
  <2>2. made' = made /\ made <= MaxMade /\ 0 <= MaxPlaylists
    BY <1>1, <1>2, Numbers DEF SavedOK, ListsOK
  <2>3. ToSet(<< >>) = {}
    BY DEF ToSet
  <2> DEFINE q == << >>
  <2>4. /\ lists' = [lists EXCEPT ![u] = q] /\ q \in Seq(1..made') /\ IsInjective(q)
        /\ Len(q) <= MaxPlaylists /\ ToSet(q) \subseteq ToSet(lists[u]) \cup (1..made' \ 1..made)
    BY <2>1, <2>2, <2>3, <1>2
  <2> HIDE DEF q
  <2> QED BY <2>2, <2>4, <1>1, <1>3, <1>4, ListsStep DEF SavedOK
<1>8. NamesOK'
  <2>1. name' \in [Ids -> Names \cup {None}]
    BY <1>1, <1>2 DEF SavedOK, NamesOK
  <2>2. ASSUME NEW t \in Scopes, NEW a \in ToSet(lists'[t])
        PROVE  t # u /\ a \in ToSet(lists[t]) /\ name'[a] = name[a]
    BY <2>2, <1>2, <1>5, <1>6
  <2> QED BY <2>1, <2>2, <1>1 DEF SavedOK, NamesOK
<1>9. ItemsOK'
  <2> SUFFICES ASSUME NEW p \in Ids PROVE items'[p] \in Seq(Links) /\ Len(items'[p]) <= MaxItems
    BY <1>2 DEF ItemsOK
  <2>1. items[p] \in Seq(Links) /\ Len(items[p]) <= MaxItems /\ Len(items[p]) \in Nat
    BY <1>1, ItemsAre DEF SavedOK, ItemsOK
  <2>2. /\ Kept(items[p], left[p]) \in Seq(Links)
        /\ Len(Kept(items[p], left[p])) <= Len(items[p])
    BY <2>1, KeptPlaces
  <2>3. Len(Kept(items[p], left[p])) \in Nat
    BY <2>2, LenProperties
  <2>4. << >> \in Seq(Links) /\ Len(<< >>) = 0
    BY EmptySeq
  <2> QED BY <2>1, <2>2, <2>3, <2>4, <1>2, Numbers
<1>10. RevisionsOK' /\ SharedOK'
  BY <1>1, <1>2, Numbers DEF SavedOK, RevisionsOK, SharedOK
<1>11. Steady
  <2>1. \A p \in 1..made : revision[p] \in Nat /\ revision[p] <= revision'[p]
    BY <1>1, <1>2, <1>4 DEF SavedOK, RevisionsOK
  <2>2. ASSUME NEW p \in 1..made, NEW s \in Scopes, p \in ToSet(lists'[s]),
               s = Room => deleted' = deleted
        PROVE  p \in ToSet(lists[s]) /\ items'[p] = items[p]
    <3>1. s # Room
      BY <2>2, <1>2
    <3>2. s # u /\ p \in ToSet(lists[s]) /\ p \in Ids /\ ~ Has(u, p)
      BY <2>2, <1>5, <1>6
    <3>3. ~ Has(Room, p)
      BY <3>1, <3>2, <1>1, <1>3 DEF SavedOK, ListsOK, Has
    <3> QED BY <3>2, <3>3, <1>2
  <2>3. made <= made'
    BY <1>2, <1>4
  <2>4. \A p \in 1..made, s \in Scopes :
           p \in ToSet(lists'[s]) /\ revision'[p] = revision[p] /\ (s = Room => deleted' = deleted)
              => p \in ToSet(lists[s]) /\ items'[p] = items[p]
    BY <2>2
  <2> QED BY <2>1, <2>3, <2>4 DEF Steady
<1>12. LosesNothing
  BY <1>2, <1>4 DEF LosesNothing
<1>13. DeletedOK'
  <2>1. \A t \in Users : t \in Scopes
    BY DEF Scopes
  <2> QED BY <2>1, <1>1, <1>2, <1>5 DEF DeletedOK
<1>14. SavedOK'
  BY <1>7, <1>8, <1>9, <1>10 DEF SavedOK
<1>15. ActivationOK' /\ ReadInOrder'
  BY <1>1, <1>2, <1>11, <1>14, ActivationKept
<1>16. PlayedOK' /\ CloneOK'
  BY <1>1, <1>2 DEF PlayedOK, CloneOK
<1> QED BY <1>12, <1>13, <1>14, <1>15, <1>16 DEF PlaylistsInv, RequestsOK

\* Playing the queue of requests touches no playlist.
LEMMA PlayQueueStep ==
    ASSUME PlaylistsInv, edits' = edits + 1, edits < MaxEdits, PlayQueue
    PROVE  PlaylistsInv' /\ LosesNothing
<1>1. SavedOK /\ PlayedOK /\ ActivationOK /\ CloneOK /\ ReadInOrder
  BY DEF PlaylistsInv, RequestsOK
<1>2. SharedOK' /\ edits' <= MaxEdits
  BY <1>1, Numbers DEF PlayQueue, SavedOK, SharedOK, RevisionsOK
<1>3. Good
  BY <1>1, <1>2, NothingSaved DEF PlayQueue
<1>4. ActivationOK' /\ ReadInOrder'
  BY <1>1, <1>3, ActivationKept DEF Good, PlayQueue
<1>5. PlayedOK'
  <2>1. rows' \in [Snapshots -> Seq(Links)]
    BY EmptySeq DEF PlayQueue
  <2>2. 0 \in 0..taken /\ 0 \in 0..MaxMade
    BY <1>1, Numbers DEF PlayedOK
  <2> QED BY <1>1, <2>1, <2>2 DEF PlayQueue, PlayedOK
<1>6. CloneOK'
  BY <1>1 DEF PlayQueue, CloneOK
<1>7. DeletedOK'
  BY DEF PlaylistsInv, DeletedOK, PlayQueue
<1> QED BY <1>3, <1>4, <1>5, <1>6, <1>7 DEF PlaylistsInv, RequestsOK, Good

\* A step that saves nothing and only goes on with an activation.
LEMMA ActivationStep ==
    ASSUME PlaylistsInv, UNCHANGED <<saved, clone>>, PlayedOK', ActivationOK', ReadInOrder'
    PROVE  PlaylistsInv' /\ LosesNothing
<1>1. SavedOK /\ CloneOK /\ DeletedOK
  BY DEF PlaylistsInv, RequestsOK
<1>2. UNCHANGED <<lists, name, items, revision, made, edits, shared, clone, deleted>>
  BY DEF saved
<1>3. SavedOK'
  BY <1>1, <1>2 DEF SavedOK, ListsOK, NamesOK, ItemsOK, RevisionsOK, SharedOK
<1>4. CloneOK' /\ DeletedOK'
  BY <1>1, <1>2 DEF CloneOK, DeletedOK
<1>5. LosesNothing
  BY <1>1, <1>2 DEF LosesNothing, SavedOK, ListsOK
<1> QED BY <1>3, <1>4, <1>5 DEF PlaylistsInv, RequestsOK

\* What the room plays depends on its own variables only.
LEMMA PlayedKept ==
    ASSUME PlayedOK, UNCHANGED played
    PROVE  PlayedOK'
BY DEF PlayedOK, played

\* An activation that begins has read none of the rows.
LEMMA BeginActivationStep ==
    ASSUME PlaylistsInv, NEW u \in Users, NEW s \in Scopes, NEW p \in Ids,
           BeginActivation(u, s, p)
    PROVE  PlaylistsInv' /\ LosesNothing
<1>1. SavedOK /\ PlayedOK /\ p \in 1..made /\ made \in Nat
  BY HasIds DEF PlaylistsInv, RequestsOK, BeginActivation, SavedOK, ListsOK
<1>2. /\ revision[p] \in Nat /\ items[p] \in Seq(Links) /\ Len(items[p]) \in Nat
  BY <1>1, ItemsAre DEF SavedOK, RevisionsOK
<1> DEFINE b == [at |-> "count", scope |-> s, list |-> p, page |-> 1, total |-> 0,
                 got |-> << >>, revision |-> revision[p], accounts |-> deleted]
<1>3. activation' = b /\ UNCHANGED <<lists, items, revision, made, taken, deleted>>
  BY DEF BeginActivation, saved, played
<1>4. b \in Activations /\ b.accounts = deleted
  BY <1>2, EmptySeq DEF Activations, PlaylistsInv, DeletedOK
<1>5. Upto(items[p], 0) = << >>
  <2>1. Upto(items[p], 0) \in Seq(Links) /\ Len(Upto(items[p], 0)) = 0
    BY <1>2, UptoPlaces
  <2> QED BY <2>1
<1>6. b.at = "count" /\ b.list = p /\ b.revision = revision[p] /\ b.got = << >> /\ b.page = 1
  OBVIOUS
<1>7. (b.page - 1) * PageSize = 0
  BY <1>6, Numbers
<1> HIDE DEF b
<1>8. PlayedOK'
  BY <1>1, PlayedKept DEF BeginActivation
<1>9. ActivationOK'
  BY <1>1, <1>2, <1>3, <1>4, <1>6 DEF ActivationOK, BeginActivation
<1>10. ReadInOrder'
  BY <1>3, <1>5, <1>6, <1>7 DEF ReadInOrder
<1> QED BY <1>8, <1>9, <1>10, ActivationStep DEF BeginActivation

\* What an activation that goes on is.
LEMMA Going ==
    ASSUME PlaylistsInv, activation.at # "idle"
    PROVE  /\ activation \in Activations /\ activation # Idle
           /\ activation.list \in 1..made /\ activation.list \in Ids /\ activation.scope \in Scopes
           /\ activation.revision <= revision[activation.list]
           /\ activation.accounts \subseteq deleted
           /\ activation.at # "clean" => taken < MaxSnapshots
           /\ items[activation.list] \in Seq(Links) /\ Len(items[activation.list]) \in Nat
<1>1. activation # Idle
  BY DEF Idle
<1>2. /\ activation \in Activations /\ activation.list <= made
      /\ activation.revision <= revision[activation.list]
      /\ activation.accounts \subseteq deleted
      /\ activation.at # "clean" => taken < MaxSnapshots
  BY <1>1 DEF PlaylistsInv, RequestsOK, ActivationOK
<1>3. activation.list \in Ids /\ activation.scope \in Scopes
  BY <1>2 DEF Activations
<1>4. activation.list \in 1..made
  BY <1>2, <1>3, Numbers DEF Ids, PlaylistsInv, SavedOK, ListsOK
<1> QED BY <1>1, <1>2, <1>3, <1>4, ItemsAre DEF PlaylistsInv

\* Reading the summary of a later page preserves the invariant.
LEMMA ReadSummaryStep ==
    ASSUME PlaylistsInv, ReadSummary
    PROVE  PlaylistsInv' /\ LosesNothing
<1>1. PlayedOK'
  BY PlayedKept DEF ReadSummary, PlaylistsInv, RequestsOK
<1>2. CASE activation' = Idle
  <2>1. ActivationOK' /\ ReadInOrder'
    BY <1>2 DEF ActivationOK, ReadInOrder, Unrevised
  <2> QED BY <1>1, <2>1, ActivationStep DEF ReadSummary
<1>3. CASE activation' = [activation EXCEPT !.at = "count"]
  <2>1. /\ activation \in Activations /\ activation # Idle
        /\ activation.list \in 1..made /\ activation.list \in Ids
        /\ activation.revision <= revision[activation.list]
        /\ activation.accounts \subseteq deleted
        /\ taken < MaxSnapshots /\ activation.at = "summary"
    BY Going DEF ReadSummary
  <2> PICK a \in Activations : a = activation
    BY <2>1
  <2> DEFINE b == [a EXCEPT !.at = "count"]
  <2>2. /\ b \in Activations /\ b.at = "count" /\ b.list = a.list /\ b.scope = a.scope
        /\ b.revision = a.revision /\ b.got = a.got /\ b.page = a.page /\ b.accounts = a.accounts
    BY DEF Activations
  <2>3. activation' = b /\ UNCHANGED <<lists, items, revision, made, taken, deleted>>
    BY <1>3 DEF ReadSummary, saved, played
  <2> HIDE DEF b
  <2>4. ActivationOK'
    BY <2>1, <2>2, <2>3 DEF ActivationOK
  <2>5. Unrevised' => Unrevised
    BY <2>1, <2>2, <2>3 DEF Unrevised, Has
  <2>6. Unrevised => a.got = Upto(items[a.list], (a.page - 1) * PageSize)
    BY <2>1 DEF PlaylistsInv, RequestsOK, ReadInOrder
  <2>7. ReadInOrder'
    BY <2>2, <2>3, <2>5, <2>6 DEF ReadInOrder
  <2> QED BY <1>1, <2>4, <2>7, ActivationStep DEF ReadSummary
<1> QED BY <1>2, <1>3 DEF ReadSummary

\* Counting the items preserves it: of an unrevised playlist, the count stays right.
LEMMA CountItemsStep ==
    ASSUME PlaylistsInv, CountItems
    PROVE  PlaylistsInv' /\ LosesNothing
<1>1. PlayedOK'
  BY PlayedKept DEF CountItems, PlaylistsInv, RequestsOK
<1>2. /\ activation \in Activations /\ activation # Idle
      /\ activation.list \in 1..made /\ activation.list \in Ids
      /\ activation.revision <= revision[activation.list]
      /\ activation.accounts \subseteq deleted
      /\ taken < MaxSnapshots /\ activation.at = "count"
      /\ Len(items[activation.list]) \in Nat
  BY Going DEF CountItems
<1> PICK a \in Activations : a = activation
  BY <1>2
<1> DEFINE b == [a EXCEPT !.at = "rows", !.total = Len(items[a.list])]
<1>3. /\ b \in Activations /\ b.at = "rows" /\ b.list = a.list /\ b.scope = a.scope
      /\ b.revision = a.revision /\ b.got = a.got /\ b.page = a.page /\ b.accounts = a.accounts
      /\ b.total = Len(items[a.list])
  BY <1>2 DEF Activations
<1>4. activation' = b /\ UNCHANGED <<lists, items, revision, made, taken, deleted>>
  BY DEF CountItems, saved, played
<1> HIDE DEF b
<1>5. ActivationOK'
  BY <1>2, <1>3, <1>4 DEF ActivationOK
<1>6. Unrevised' => Unrevised
  BY <1>2, <1>3, <1>4 DEF Unrevised, Has
<1>7. Unrevised => a.got = Upto(items[a.list], (a.page - 1) * PageSize)
  BY <1>2 DEF PlaylistsInv, RequestsOK, ReadInOrder
<1>8. ReadInOrder'
  BY <1>3, <1>4, <1>6, <1>7 DEF ReadInOrder
<1> QED BY <1>1, <1>5, <1>8, ActivationStep DEF CountItems

\* A page that was read goes behind those before it.
LEMMA PageRowsFollow ==
    ASSUME NEW S, NEW seq \in Seq(S), NEW lo \in Nat, NEW hi \in Nat, lo <= hi
    PROVE  /\ SubSeq(Upto(seq, hi), lo + 1, Len(Upto(seq, hi))) \in Seq(S)
           /\ Upto(seq, lo) \o SubSeq(Upto(seq, hi), lo + 1, Len(Upto(seq, hi))) = Upto(seq, hi)
<1> DEFINE n == Len(seq)
           h == IF hi < n THEN hi ELSE n
           l == IF lo < n THEN lo ELSE n
           top == Upto(seq, hi)
           page == SubSeq(top, lo + 1, Len(top))
<1>1. n \in Nat /\ \A i \in 1 .. n : seq[i] \in S
  BY LenProperties, ElementOfSeq
<1>2. h \in Nat /\ l \in Nat /\ l <= h /\ h <= n /\ l <= n /\ (lo < h => l = lo) /\ (h <= lo => l = h)
  BY <1>1
<1>3. top = SubSeq(seq, 1, h) /\ Upto(seq, lo) = SubSeq(seq, 1, l)
  BY DEF Upto
<1> HIDE DEF h, l, n
<1>4. /\ top \in Seq(S) /\ Len(top) = h /\ \A i \in 1 .. h : top[i] = seq[i]
  BY <1>1, <1>2, <1>3, SubSeqProperties
<1>5. /\ Upto(seq, lo) \in Seq(S) /\ Len(Upto(seq, lo)) = l
      /\ \A i \in 1 .. l : Upto(seq, lo)[i] = seq[i]
  BY <1>1, <1>2, <1>3, SubSeqProperties
<1> HIDE DEF top
<1>6. /\ page \in Seq(S)
      /\ Len(page) = IF lo < h THEN h - lo ELSE 0
      /\ \A i \in 1 .. Len(page) : page[i] = top[lo + i]
  <2>1. \A i \in lo + 1 .. h : top[i] \in S
    BY <1>4, ElementOfSeq
  <2>2. SubSeq(top, lo + 1, h) \in Seq(S)
    BY <1>2, <1>4, <2>1, SubSeqProperties
  <2>3. Len(page) = IF lo + 1 <= h THEN h - (lo + 1) + 1 ELSE 0
    BY <1>2, <1>4, <2>1, SubSeqProperties
  <2>4. \A i \in 1 .. h - (lo + 1) + 1 : page[i] = top[(lo + 1) + i - 1]
    BY <1>2, <1>4, <2>1, SubSeqProperties
  <2> QED BY <1>2, <1>4, <2>2, <2>3, <2>4
<1> HIDE DEF page
<1> DEFINE c == Upto(seq, lo) \o page
<1>7. /\ c \in Seq(S) /\ Len(c) = l + Len(page)
      /\ \A i \in 1 .. Len(c) : c[i] = IF i <= l THEN Upto(seq, lo)[i] ELSE page[i - l]
  <2> DEFINE lower == Upto(seq, lo)
  <2>1. lower \in Seq(S) /\ Len(lower) = l /\ page \in Seq(S)
    BY <1>5, <1>6
  <2> HIDE DEF lower
  <2>2. /\ lower \o page \in Seq(S)
        /\ Len(lower \o page) = Len(lower) + Len(page)
        /\ \A i \in 1 .. Len(lower) + Len(page) :
              (lower \o page)[i] = IF i <= Len(lower) THEN lower[i] ELSE page[i - Len(lower)]
    BY <2>1, ConcatProperties
  <2> QED BY <2>1, <2>2 DEF lower
<1>8. Len(c) = h
  BY <1>2, <1>6, <1>7
<1>9. \A i \in 1 .. h : c[i] = top[i]
  <2> SUFFICES ASSUME NEW i \in 1 .. h PROVE c[i] = top[i]
    OBVIOUS
  <2>1. CASE i <= l
    <3>1. i \in 1 .. l /\ i \in 1 .. Len(c)
      BY <2>1, <1>2, <1>8
    <3>2. c[i] = Upto(seq, lo)[i]
      BY <3>1, <2>1, <1>7
    <3> QED BY <3>1, <3>2, <1>4, <1>5
  <2>2. CASE i > l
    <3>1. l = lo /\ i - l \in 1 .. Len(page)
      BY <2>2, <1>2, <1>6
    <3>2. c[i] = page[i - l]
      BY <2>2, <1>2, <1>7, <1>8
    <3>3. page[i - l] = top[lo + (i - l)] /\ lo + (i - l) = i
      BY <3>1, <1>2, <1>6
    <3> QED BY <3>2, <3>3
  <2>3. i <= l \/ i > l
    BY <1>2
  <2> QED BY <2>1, <2>2, <2>3
<1> HIDE DEF c
<1>10. c = top
  BY <1>4, <1>7, <1>8, <1>9, SeqEqual
<1> QED BY <1>6, <1>10 DEF c, page, top

\* The first row of a page and the first of the next.
LEMMA PageBounds ==
    ASSUME NEW page \in Nat \ {0}
    PROVE  /\ (page - 1) * PageSize \in Nat /\ page * PageSize \in Nat
           /\ (page - 1) * PageSize <= page * PageSize
<1>1. PageSize \in Nat /\ page - 1 \in Nat /\ page \in Nat
  BY Numbers
<1>2. (page - 1) * PageSize = page * PageSize - PageSize
  BY <1>1
<1>3. (page - 1) * PageSize \in Nat /\ page * PageSize \in Nat
  BY <1>1
<1> QED BY <1>1, <1>2, <1>3

\* A page that is read follows the rows before it, and the last one ends the
\* playlist if it was not revised.
LEMMA ReadPageStep ==
    ASSUME PlaylistsInv, ReadPage
    PROVE  PlaylistsInv' /\ LosesNothing
<1>1. PlayedOK'
  BY PlayedKept DEF ReadPage, PlaylistsInv, RequestsOK
<1>2. /\ activation \in Activations /\ activation # Idle
      /\ activation.list \in 1..made /\ activation.list \in Ids
      /\ activation.revision <= revision[activation.list]
      /\ activation.accounts \subseteq deleted
      /\ taken < MaxSnapshots /\ activation.at = "rows"
      /\ items[activation.list] \in Seq(Links) /\ Len(items[activation.list]) \in Nat
  BY Going DEF ReadPage
<1> PICK a \in Activations : a = activation
  BY <1>2
<1> DEFINE lo == (a.page - 1) * PageSize
           hi == a.page * PageSize
           it == items[a.list]
           more == PageRows(a.list, a.page)
           got == a.got \o more
           at == IF hi < a.total THEN "summary" ELSE "activate"
           b == [at |-> at, scope |-> a.scope, list |-> a.list, page |-> a.page + 1,
                 total |-> a.total, got |-> got, revision |-> a.revision,
                 accounts |-> a.accounts]
<1>3. /\ a.page \in Nat \ {0} /\ a.got \in Seq(Links) /\ a.total \in Nat
      /\ a.scope \in Scopes /\ a.list \in Ids /\ a.revision \in Nat /\ a.accounts \in SUBSET Users
      /\ a = [at |-> a.at, scope |-> a.scope, list |-> a.list, page |-> a.page,
              total |-> a.total, got |-> a.got, revision |-> a.revision,
              accounts |-> a.accounts]
  BY DEF Activations
<1>4. lo \in Nat /\ hi \in Nat /\ lo <= hi
  BY <1>3, PageBounds
<1>5. activation' = [a EXCEPT !.got = @ \o PageRows(a.list, a.page), !.page = @ + 1,
                              !.at = IF a.page * PageSize < a.total THEN "summary" ELSE "activate"]
      /\ UNCHANGED <<lists, items, revision, made, taken, deleted>>
  BY DEF ReadPage, saved, played
<1>6. activation' = b
  BY <1>3, <1>5
<1>7. more = SubSeq(Upto(it, hi), lo + 1, Len(Upto(it, hi)))
  BY DEF PageRows
<1> HIDE DEF hi, lo
<1>8. more \in Seq(Links) /\ Upto(it, lo) \o more = Upto(it, hi)
  <2>1. it \in Seq(Links)
    BY <1>2
  <2> HIDE DEF it, more
  <2>2. /\ SubSeq(Upto(it, hi), lo + 1, Len(Upto(it, hi))) \in Seq(Links)
        /\ Upto(it, lo) \o SubSeq(Upto(it, hi), lo + 1, Len(Upto(it, hi))) = Upto(it, hi)
    BY <2>1, <1>4, PageRowsFollow
  <2> QED BY <2>2, <1>7
<1> HIDE DEF more
<1>9. got \in Seq(Links)
  BY <1>3, <1>8, ConcatProperties
<1> HIDE DEF got
<1>10. a.page + 1 \in Nat \ {0}
  BY <1>3
<1>11. at \in {"summary", "activate"} /\ (at = "activate" => ~ (hi < a.total))
  OBVIOUS
<1> HIDE DEF at
<1>12. b \in Activations
  BY <1>3, <1>9, <1>10, <1>11 DEF Activations
<1>13. /\ b.at = at /\ b.list = a.list /\ b.scope = a.scope /\ b.revision = a.revision
       /\ b.got = got /\ b.page = a.page + 1 /\ b.accounts = a.accounts
  OBVIOUS
<1>14. (b.page - 1) * PageSize = hi
  <2>1. b.page - 1 = a.page
    BY <1>3, <1>13
  <2> QED BY <2>1 DEF hi
<1> HIDE DEF b
<1>15. ActivationOK'
  BY <1>2, <1>5, <1>6, <1>12, <1>13 DEF ActivationOK
<1>16. Unrevised' => Unrevised
  BY <1>2, <1>5, <1>6, <1>13 DEF Unrevised, Has
<1>17. Unrevised => got = Upto(it, hi) /\ a.total = Len(it)
  <2>1. Unrevised => a.got = Upto(it, lo) /\ a.total = Len(it)
    BY <1>2 DEF PlaylistsInv, RequestsOK, ReadInOrder, lo
  <2> QED BY <2>1, <1>8 DEF got
<1>18. Unrevised /\ at = "activate" => got = it
  <2> SUFFICES ASSUME Unrevised, at = "activate" PROVE got = it
    OBVIOUS
  <2>1. Len(it) <= hi
    BY <1>2, <1>4, <1>11, <1>17
  <2>2. Upto(it, hi) = it
    BY <2>1, <1>2, <1>4, UptoPlaces
  <2> QED BY <2>2, <1>17
<1>19. ReadInOrder'
  <2>1. activation' = b /\ items'[b.list] = it
    BY <1>5, <1>6, <1>13
  <2>2. Unrevised' => b.got = Upto(it, hi)
    BY <1>13, <1>16, <1>17
  <2>3. Unrevised' /\ b.at = "activate" => b.got = it
    BY <1>13, <1>16, <1>18
  <2>4. b.at # "rows"
    BY <1>11, <1>13
  <2> DEFINE before == (b.page - 1) * PageSize
  <2>5. before = hi
    BY <1>14
  <2> HIDE DEF it, before
  <2>6. Unrevised' => b.got = Upto(it, before)
    BY <2>2, <2>5
  <2> QED BY <2>1, <2>3, <2>4, <2>6 DEF ReadInOrder, before
<1> QED BY <1>1, <1>15, <1>19, ActivationStep DEF ReadPage

\* Activating gives the room a snapshot of its own.
LEMMA ActivateStep ==
    ASSUME PlaylistsInv, Activate
    PROVE  PlaylistsInv' /\ LosesNothing
<1>1. /\ activation \in Activations /\ activation # Idle
      /\ activation.list \in 1..made /\ activation.list \in Ids
      /\ activation.revision <= revision[activation.list]
      /\ activation.accounts \subseteq deleted
      /\ taken < MaxSnapshots
  BY Going DEF Activate
<1> PICK a \in Activations : a = activation
  BY <1>1
<1> DEFINE b == [a EXCEPT !.at = "clean"]
<1>2. /\ b \in Activations /\ b.at = "clean" /\ b.list = a.list /\ b.revision = a.revision
      /\ b.accounts = a.accounts
      /\ a.got \in Seq(Links) /\ a.scope \in Scopes /\ a.list \in Ids
  BY DEF Activations
<1>3. activation' = b /\ UNCHANGED <<lists, items, revision, made, deleted>>
  BY DEF Activate, saved
<1> HIDE DEF b
<1>4. ActivationOK' /\ ReadInOrder'
  BY <1>1, <1>2, <1>3 DEF ActivationOK, ReadInOrder
<1>5. PlayedOK /\ taken \in Nat /\ taken + 1 \in Snapshots
  BY <1>1, Numbers DEF PlaylistsInv, RequestsOK, PlayedOK, Snapshots
<1>6. taken' \in 1..MaxSnapshots /\ taken + 1 \in 0..taken' /\ taken + 1 # 0
  BY <1>1, <1>5, Numbers DEF Activate, Snapshots
<1>7. rows' \in [Snapshots -> Seq(Links)]
  BY <1>2, <1>5 DEF Activate, PlayedOK
<1>8. active' \in [snapshot : 0..taken', list : 0..MaxMade, owner : Users \cup {None}]
  <2>1. Owner(a.scope) \in Users \cup {None}
    BY <1>2 DEF Owner, Scopes
  <2>2. a.list \in 0..MaxMade
    BY <1>2, Numbers DEF Ids
  <2> QED BY <2>1, <2>2, <1>6 DEF Activate
<1>9. active'.snapshot # 0
  BY <1>6 DEF Activate
<1>10. PlayedOK'
  BY <1>6, <1>7, <1>8, <1>9 DEF PlayedOK
<1> QED BY <1>4, <1>10, ActivationStep DEF Activate

\* Cleaning up preserves the invariant.
LEMMA CleanSnapshotsStep ==
    ASSUME PlaylistsInv, CleanSnapshots
    PROVE  PlaylistsInv' /\ LosesNothing
<1>1. ActivationOK' /\ ReadInOrder'
  BY DEF CleanSnapshots, ActivationOK, ReadInOrder, Unrevised
<1>2. PlayedOK
  BY DEF PlaylistsInv, RequestsOK
<1>3. rows' \in [Snapshots -> Seq(Links)]
  BY <1>2, EmptySeq DEF CleanSnapshots, PlayedOK
<1>4. PlayedOK'
  BY <1>2, <1>3 DEF CleanSnapshots, PlayedOK
<1> QED BY <1>1, <1>4, ActivationStep DEF CleanSnapshots

\* A step that saves nothing and only goes on with a clone.
LEMMA CloneKept ==
    ASSUME PlaylistsInv, UNCHANGED <<saved, played, activation>>, CloneOK'
    PROVE  PlaylistsInv' /\ LosesNothing
<1>1. SavedOK /\ PlayedOK /\ ActivationOK /\ ReadInOrder /\ DeletedOK
  BY DEF PlaylistsInv, RequestsOK
<1>2. UNCHANGED <<lists, name, items, revision, made, edits, shared, taken, activation, deleted>>
  BY DEF saved, played
<1>3. SavedOK'
  BY <1>1, <1>2 DEF SavedOK, ListsOK, NamesOK, ItemsOK, RevisionsOK, SharedOK
<1>4. PlayedOK' /\ ActivationOK'
  BY <1>1, <1>2, PlayedKept DEF ActivationOK
<1>5. ReadInOrder' /\ DeletedOK'
  BY <1>1, <1>2 DEF ReadInOrder, Unrevised, Has, DeletedOK
<1>6. LosesNothing
  BY <1>1, <1>2 DEF LosesNothing, SavedOK, ListsOK
<1> QED BY <1>3, <1>4, <1>5, <1>6 DEF PlaylistsInv, RequestsOK

\* A clone begins with a snapshot that the room has: a playlist with an owner is
\* played from one.
LEMMA LoadActiveStep ==
    ASSUME PlaylistsInv, NEW u \in Users, LoadActive(u)
    PROVE  PlaylistsInv' /\ LosesNothing
<1>1. PlayedOK
  BY DEF PlaylistsInv, RequestsOK
<1>2. active.owner # None
  BY PlaylistsAssumption DEF LoadActive, Scopes
<1>3. active.snapshot \in Snapshots
  BY <1>1, <1>2, Numbers DEF PlayedOK, Snapshots
<1>4. CloneOK'
  BY <1>3 DEF LoadActive, CloneOK
<1> QED BY <1>4, CloneKept DEF LoadActive

\* The clone reads the rows of that snapshot, cleaned up meanwhile or not.
LEMMA LoadRowsStep ==
    ASSUME PlaylistsInv, LoadRows
    PROVE  PlaylistsInv' /\ LosesNothing
<1>1. clone \in [at : {"rows"}, user : Users, snapshot : Snapshots]
  BY DEF PlaylistsInv, RequestsOK, CloneOK, Idle, LoadRows
<1>2. rows[clone.snapshot] \in Seq(Links) /\ clone.user \in Users
  BY <1>1 DEF PlaylistsInv, RequestsOK, PlayedOK
<1>3. CloneOK'
  BY <1>2 DEF LoadRows, CloneOK
<1> QED BY <1>3, CloneKept DEF LoadRows

\* It makes a playlist of them, under a name that is free, or nothing.
LEMMA CloneSnapshotStep ==
    ASSUME PlaylistsInv, CloneSnapshot
    PROVE  PlaylistsInv' /\ LosesNothing
<1>1. clone \in [at : {"copy"}, user : Users, links : Seq(Links)]
  BY DEF PlaylistsInv, RequestsOK, CloneOK, Idle, CloneSnapshot
<1>2. clone.user \in Users /\ clone.user \in Scopes /\ clone.links \in Seq(Links)
  BY <1>1 DEF Scopes
<1>3. SavedOK /\ PlayedOK /\ ActivationOK /\ ReadInOrder /\ edits' = edits
      /\ edits \in Nat /\ edits <= MaxEdits
  BY Numbers DEF PlaylistsInv, RequestsOK, CloneSnapshot, SavedOK, RevisionsOK
<1>4. Good
  <2>1. CASE /\ clone.user \notin deleted
             /\ Len(clone.links) <= MaxItems /\ Len(lists[clone.user]) < MaxPlaylists
    <3>1. FreeName(clone.user) \in Names /\ ~ NameTaken(clone.user, FreeName(clone.user), {})
      BY <1>2, <1>3, <2>1, FreeNameIsFree
    <3>2. Make(clone.user, FreeName(clone.user), clone.links) /\ UNCHANGED shared
      BY <2>1 DEF CloneSnapshot
    <3> QED BY <3>1, <3>2, <1>2, <1>3, <2>1, MakeStep
  <2>2. CASE ~ (/\ clone.user \notin deleted
                /\ Len(clone.links) <= MaxItems /\ Len(lists[clone.user]) < MaxPlaylists)
    <3>1. UNCHANGED <<lists, name, items, revision, made, shared>>
      BY <2>2 DEF CloneSnapshot
    <3>2. SharedOK'
      BY <3>1, <1>3 DEF SavedOK, SharedOK
    <3> QED BY <3>1, <3>2, <1>3, NothingSaved
  <2> QED BY <2>1, <2>2
<1>5. ActivationOK' /\ ReadInOrder'
  BY <1>3, <1>4, ActivationKept DEF Good, CloneSnapshot, played
<1>6. PlayedOK' /\ CloneOK'
  BY <1>3, PlayedKept DEF CloneSnapshot, CloneOK
<1>7. DeletedOK'
  <2>1. \A u \in deleted : lists'[u] = lists[u]
    BY <1>3 DEF CloneSnapshot, Make, PlaylistsInv, SavedOK, ListsOK, DeletedOK, Scopes
  <2> QED BY <2>1 DEF CloneSnapshot, PlaylistsInv, DeletedOK
<1> QED BY <1>4, <1>5, <1>6, <1>7 DEF PlaylistsInv, RequestsOK, Good

-----------------------------------------------------------------------------
(* All requests, and the theorems. *)

\* Requests that make a playlist are good edits and leave the requests in
\* several statements alone.
LEMMA MakeRequestStep ==
    ASSUME SavedOK, edits' = edits + 1, edits < MaxEdits, NEW s \in Scopes, MakeRequest(s)
    PROVE  Good /\ UNCHANGED requests
<1> PICK n \in Names : \/ Create(s, n)
                       \/ \E sources \in Selections(ToSet(lists[s]), 2, MaxPlaylists) : Merge(s, sources, n)
  BY DEF MakeRequest
<1>1. CASE Create(s, n)
  BY <1>1, CreateStep DEF Create
<1>2. ASSUME NEW sources \in Selections(ToSet(lists[s]), 2, MaxPlaylists), Merge(s, sources, n)
      PROVE  Good /\ UNCHANGED requests
  BY <1>2, MergeStep DEF Merge
<1> QED BY <1>1, <1>2

\* So are requests that change the playlists of a scope.
LEMMA ChangeRequestStep ==
    ASSUME SavedOK, edits' = edits + 1, edits < MaxEdits, NEW s \in Scopes, ChangeRequest(s)
    PROVE  Good /\ UNCHANGED requests
<1>1. ASSUME NEW p \in Ids, Delete(s, p) PROVE Good /\ UNCHANGED requests
  BY <1>1, DeleteStep DEF Delete
<1>2. ASSUME NEW p \in Ids, NEW n \in Names, Rename(s, p, n) PROVE Good /\ UNCHANGED requests
  BY <1>2, RenameStep DEF Rename
<1>3. ASSUME NEW i \in DOMAIN lists[s], NEW d \in {-1, 1}, Move(s, i, d)
      PROVE  Good /\ UNCHANGED requests
  BY <1>3, MoveStep DEF Move
<1>4. ASSUME NEW chosen \in Selections(ToSet(lists[s]), 1, MaxPlaylists), Pin(s, chosen)
      PROVE  Good /\ UNCHANGED requests
  BY <1>4, PinStep DEF Pin
<1> QED BY <1>1, <1>2, <1>3, <1>4 DEF ChangeRequest

\* So are requests that add tracks.
LEMMA AddRequestStep ==
    ASSUME SavedOK, edits' = edits + 1, edits < MaxEdits, NEW s \in Scopes, AddRequest(s)
    PROVE  Good /\ UNCHANGED requests
<1>1. ASSUME NEW p \in Ids, NEW l \in Links, AddItem(s, p, l) PROVE Good /\ UNCHANGED requests
  BY <1>1, AddItemStep DEF AddItem, Edit
<1>2. ASSUME NEW p \in Ids, NEW to \in Ids, NEW chosen \in Selections(DOMAIN items[p], 1, MaxItems),
             BatchAdd(s, p, to, chosen)
      PROVE  Good /\ UNCHANGED requests
  BY <1>2, BatchAddStep DEF BatchAdd, Edit
<1> QED BY <1>1, <1>2 DEF AddRequest

\* So are requests on the tracks of one playlist.
LEMMA ItemsRequestStep ==
    ASSUME SavedOK, edits' = edits + 1, edits < MaxEdits, NEW s \in Scopes, ItemsRequest(s)
    PROVE  Good /\ UNCHANGED requests
<1>1. ASSUME NEW p \in Ids, NEW places, DeleteItems(s, p, places) PROVE Good /\ UNCHANGED requests
  BY <1>1, DeleteItemsStep DEF DeleteItems, Edit
<1>2. ASSUME NEW p \in Ids, NEW i \in DOMAIN items[p], NEW d \in {-1, 1}, MoveItem(s, p, i, d)
      PROVE  Good /\ UNCHANGED requests
  BY <1>2, MoveItemStep DEF MoveItem, Edit
<1>3. ASSUME NEW p \in Ids, NEW order, ReorderItems(s, p, order) PROVE Good /\ UNCHANGED requests
  BY <1>3, ReorderItemsStep DEF ReorderItems, Edit
<1> QED BY <1>1, <1>2, <1>3 DEF ItemsRequest

\* So is every request that is one step.
LEMMA EditRequestStep ==
    ASSUME SavedOK, edits' = edits + 1, edits < MaxEdits, NEW u \in Users, EditRequest(u)
    PROVE  Good /\ UNCHANGED requests
<1>1. u \in Scopes /\ Room \in Scopes
  BY DEF Scopes
<1>2. CASE MakeRequest(u) \/ MakeRequest(Room)
  BY <1>1, <1>2, MakeRequestStep
<1>3. CASE ChangeRequest(u) \/ ChangeRequest(Room)
  BY <1>1, <1>3, ChangeRequestStep
<1>4. CASE AddRequest(u) \/ AddRequest(Room)
  BY <1>1, <1>4, AddRequestStep
<1>5. CASE ItemsRequest(u) \/ ItemsRequest(Room)
  BY <1>1, <1>5, ItemsRequestStep
<1>6. ASSUME NEW p \in Ids, NEW n \in Names, Import(u, p, n) PROVE Good /\ UNCHANGED requests
  BY <1>6, ImportStep DEF Import
<1>7. ASSUME NEW p \in Ids, CloneRoomPlaylist(u, p) PROVE Good /\ UNCHANGED requests
  BY <1>7, CloneRoomPlaylistStep DEF CloneRoomPlaylist
<1>8. ASSUME NEW p \in Ids, Share(u, p) PROVE Good /\ UNCHANGED requests
  BY <1>8, ShareStep DEF Share
<1>9. CASE CloneShared(u)
  BY <1>9, CloneSharedStep DEF CloneShared
<1> QED BY <1>2, <1>3, <1>4, <1>5, <1>6, <1>7, <1>8, <1>9
        DEF EditRequest, RoomMakeRequest, RoomChangeRequest, RoomAddRequest, RoomItemsRequest,
            RoomCloneRequest

\* Requests touch the playlists of whoever sends them, or the room's.
LEMMA EditsOwnScope ==
    ASSUME ListsOK, NEW u \in Users, EditRequest(u)
    PROVE  \A t \in Scopes \ {u, Room} : lists'[t] = lists[t]
<1>1. lists \in [Scopes -> Seq(1..made)]
  BY DEF ListsOK
<1>2. \A s : \A n, links : Make(s, n, links) => \A t \in Scopes \ {s} : lists'[t] = lists[t]
  BY <1>1 DEF Make
<1>3. \A s : MakeRequest(s) => \A t \in Scopes \ {s} : lists'[t] = lists[t]
  BY <1>1, <1>2 DEF MakeRequest, Create, Merge
<1>4. \A s : ChangeRequest(s) => \A t \in Scopes \ {s} : lists'[t] = lists[t]
  BY <1>1 DEF ChangeRequest, Delete, Rename, Move, Pin
<1>5. \A s : AddRequest(s) \/ ItemsRequest(s) => \A t \in Scopes : lists'[t] = lists[t]
  BY DEF AddRequest, ItemsRequest, AddItem, BatchAdd, DeleteItems, MoveItem, ReorderItems, Edit
<1>6. (\E p \in Ids, n \in Names : Import(u, p, n))
         => \A t \in Scopes \ {Room} : lists'[t] = lists[t]
  BY <1>2 DEF Import
<1>7. (\E p \in Ids : CloneRoomPlaylist(u, p)) \/ CloneShared(u)
         => \A t \in Scopes \ {u} : lists'[t] = lists[t]
  BY <1>2 DEF CloneRoomPlaylist, CloneShared
<1>8. (\E p \in Ids : Share(u, p)) => \A t \in Scopes : lists'[t] = lists[t]
  BY DEF Share
<1> QED BY <1>3, <1>4, <1>5, <1>6, <1>7, <1>8
        DEF EditRequest, RoomMakeRequest, RoomChangeRequest, RoomAddRequest, RoomItemsRequest,
            RoomCloneRequest

\* Every step preserves the invariant, and a step that makes a playlist takes no
\* link out of a scope.
LEMMA PlaylistsStep ==
    ASSUME PlaylistsInv, [PlaylistsNext]_playlistsVars
    PROVE  PlaylistsInv' /\ LosesNothing
<1>1. ASSUME edits < MaxEdits, edits' = edits + 1, NEW u \in Accounts, EditRequest(u)
      PROVE  PlaylistsInv' /\ LosesNothing
  <2>1. Good /\ UNCHANGED requests
    BY <1>1, EditRequestStep DEF PlaylistsInv, Accounts
  <2>2. UNCHANGED deleted
    BY <2>1 DEF requests
  <2>3. \A t \in deleted : t \in Scopes \ {u, Room}
    BY PlaylistsAssumption DEF PlaylistsInv, DeletedOK, Accounts, Scopes
  <2>4. \A t \in Scopes \ {u, Room} : lists'[t] = lists[t]
    BY <1>1, EditsOwnScope DEF PlaylistsInv, SavedOK, Accounts
  <2>5. DeletedOK'
    BY <2>2, <2>3, <2>4 DEF PlaylistsInv, DeletedOK
  <2> QED BY <2>1, <2>5, RequestsKept DEF Good
<1>13. ASSUME edits < MaxEdits, edits' = edits + 1, NEW u \in Accounts, NEW left \in Leftovers,
             DeleteAccount(u, left)
      PROVE  PlaylistsInv' /\ LosesNothing
  BY <1>13, DeleteAccountStep DEF Accounts
<1>2. CASE edits < MaxEdits /\ edits' = edits + 1 /\ PlayQueue
  BY <1>2, PlayQueueStep
<1>3. ASSUME NEW u \in Accounts, NEW s \in Scopes, NEW p \in Ids, BeginActivation(u, s, p)
      PROVE  PlaylistsInv' /\ LosesNothing
  BY <1>3, BeginActivationStep DEF Accounts
<1>4. CASE ReadSummary
  BY <1>4, ReadSummaryStep
<1>5. CASE CountItems
  BY <1>5, CountItemsStep
<1>6. CASE ReadPage
  BY <1>6, ReadPageStep
<1>7. CASE Activate
  BY <1>7, ActivateStep
<1>8. CASE CleanSnapshots
  BY <1>8, CleanSnapshotsStep
<1>9. ASSUME NEW u \in Accounts, LoadActive(u) PROVE PlaylistsInv' /\ LosesNothing
  BY <1>9, LoadActiveStep DEF Accounts
<1>10. CASE LoadRows
  BY <1>10, LoadRowsStep
<1>11. CASE CloneSnapshot
  BY <1>11, CloneSnapshotStep
<1>12. CASE UNCHANGED playlistsVars
  <2>1. UNCHANGED <<saved, played, activation, clone>>
    BY <1>12 DEF playlistsVars
  <2>2. CloneOK'
    BY <2>1 DEF PlaylistsInv, RequestsOK, CloneOK
  <2> QED BY <2>1, <2>2, CloneKept
<1> QED BY <1>1, <1>2, <1>3, <1>4, <1>5, <1>6, <1>7, <1>8, <1>9, <1>10, <1>11, <1>12, <1>13
        DEF PlaylistsNext

\* Every library that the assumption allows satisfies the invariant.
LEMMA InitialPlaylists ==
    PlaylistsInit => PlaylistsInv
<1> SUFFICES ASSUME PlaylistsInit PROVE PlaylistsInv
  OBVIOUS
<1> DEFINE n == Len(Library)
           all == [p \in 1 .. n |-> p]
<1>1. /\ n \in Nat /\ n <= MaxMade /\ 1 .. n \subseteq Ids /\ DOMAIN Library = 1 .. n
      /\ made = n
      /\ \A p \in 1 .. n : /\ Library[p].scope \in Scopes /\ Library[p].name \in Names
                           /\ Library[p].links \in Seq(Links) /\ Len(Library[p].links) <= MaxItems
  <2>1. Library \in Seq([scope : Scopes, name : Names, links : Seq(Links)])
    BY PlaylistsAssumption
  <2>2. n \in Nat /\ DOMAIN Library = 1 .. n
        /\ \A p \in 1 .. n : Library[p] \in [scope : Scopes, name : Names, links : Seq(Links)]
    BY <2>1, LenProperties, ElementOfSeq
  <2>3. n <= MaxMade /\ \A p \in 1 .. n : Len(Library[p].links) <= MaxItems
    BY <2>2, PlaylistsAssumption
  <2>4. 1 .. n \subseteq Ids /\ made = n
    BY <2>2, <2>3, Numbers DEF PlaylistsInit, Ids
  <2> HIDE DEF n
  <2> QED BY <2>2, <2>3, <2>4
<1> HIDE DEF n
<1>2. all \in Seq(1 .. n) /\ DOMAIN all = 1 .. n
  BY <1>1, IsASeq
<1>3. ASSUME NEW s \in Scopes
      PROVE  /\ lists[s] \in Seq(1 .. n) /\ ToSet(lists[s]) = LibraryOf(s)
             /\ IsInjective(lists[s]) /\ Len(lists[s]) <= MaxPlaylists
  <2>1. lists[s] = Kept(all, LibraryOf(s))
    BY <1>1 DEF PlaylistsInit
  <2>2. LibraryOf(s) \subseteq 1 .. n
    BY <1>1 DEF LibraryOf
  <2>3. /\ lists[s] \in Seq(1 .. n)
        /\ ToSet(lists[s]) = {all[i] : i \in DOMAIN all \cap LibraryOf(s)}
        /\ (\A i, j \in DOMAIN all \cap LibraryOf(s) : all[i] = all[j] => i = j)
              => IsInjective(lists[s])
    <3> HIDE DEF all
    <3> DEFINE k == Kept(all, LibraryOf(s))
    <3>1. /\ k \in Seq(1 .. n)
          /\ ToSet(k) = {all[i] : i \in DOMAIN all \cap LibraryOf(s)}
          /\ (\A i, j \in DOMAIN all \cap LibraryOf(s) : all[i] = all[j] => i = j)
                => IsInjective(k)
      BY <1>2, KeptPlaces
    <3> HIDE DEF k
    <3>2. lists[s] = k
      BY <2>1 DEF k
    <3> QED BY <3>1, <3>2
  <2>4. ToSet(lists[s]) = LibraryOf(s) /\ IsInjective(lists[s])
    BY <2>2, <2>3, <1>2
  <2>5. Len(lists[s]) = Cardinality(LibraryOf(s))
    BY <2>3, <2>4, LengthOfInjective
  <2> QED BY <2>3, <2>4, <2>5, PlaylistsAssumption
<1>4. ListsOK
  <2>1. made \in 0..MaxMade
    BY <1>1
  <2>2. lists \in [Scopes -> Seq(1..made)]
    BY <1>1, <1>3 DEF PlaylistsInit
  <2>3. \A s, t \in Scopes : s # t => LibraryOf(s) \cap LibraryOf(t) = {}
    BY DEF LibraryOf
  <2> QED BY <2>1, <2>2, <2>3, <1>3 DEF ListsOK
<1>5. NamesOK
  <2>1. \A p \in Ids : name[p] = IF p \in 1 .. n THEN Library[p].name ELSE None
    BY <1>1 DEF PlaylistsInit, Ids
  <2>2. name \in [Ids -> Names \cup {None}]
    BY <2>1, <1>1 DEF PlaylistsInit
  <2>3. \A s \in Scopes : \A p \in LibraryOf(s) : p \in 1 .. n /\ p \in Ids
    BY <1>1 DEF LibraryOf
  <2>4. None \notin Names
    BY PlaylistsAssumption
  <2>5. \A s \in Scopes : \A p, q \in LibraryOf(s) : Library[p].name = Library[q].name => p = q
    BY PlaylistsAssumption
  <2> QED BY <2>1, <2>2, <2>3, <2>4, <2>5, <1>1, <1>3 DEF NamesOK
<1>6. ItemsOK
  <2>1. /\ items = [p \in Ids |-> IF p <= made THEN Library[p].links ELSE << >>]
        /\ \A p \in Ids : p <= made => p \in 1 .. n
    BY <1>1 DEF PlaylistsInit, Ids
  <2>2. << >> \in Seq(Links) /\ Len(<< >>) = 0 /\ 0 <= MaxItems
    BY EmptySeq, Numbers
  <2> QED BY <2>1, <2>2, <1>1 DEF ItemsOK
<1>7. RevisionsOK
  BY Numbers DEF PlaylistsInit, RevisionsOK
<1>8. SharedOK
  BY Numbers, EmptySeq DEF PlaylistsInit, SharedOK
<1>9. PlayedOK
  <2>1. Playing \in 1 .. n /\ Playing \in Ids
    BY <1>1, PlaylistsAssumption
  <2>2. items[Playing] \in Seq(Links) /\ << >> \in Seq(Links)
    BY <2>1, <1>6, EmptySeq DEF ItemsOK
  <2>3. rows \in [Snapshots -> Seq(Links)]
    BY <2>2 DEF PlaylistsInit
  <2>4. Owner(Library[Playing].scope) \in Users \cup {None}
    BY <2>1, <1>1 DEF Owner, Scopes
  <2>5. taken = 1 /\ 1 \in 0..taken /\ taken \in 1..MaxSnapshots
    BY PlaylistsAssumption, Numbers DEF PlaylistsInit
  <2>6. Playing \in 0..MaxMade
    BY <2>1, Numbers DEF Ids
  <2> QED BY <2>3, <2>4, <2>5, <2>6 DEF PlayedOK, PlaylistsInit
<1>10. ActivationOK /\ CloneOK /\ ReadInOrder /\ DeletedOK
  BY DEF PlaylistsInit, ActivationOK, CloneOK, ReadInOrder, Unrevised, DeletedOK
<1> QED BY <1>4, <1>5, <1>6, <1>7, <1>8, <1>9, <1>10
        DEF PlaylistsInv, SavedOK, RequestsOK

\* The invariant holds: the saved playlists are within their limits and have
\* distinct names, and what an activation has read are the first rows of its
\* playlist for as long as nobody revises it and, for a room's, nobody's account
\* goes.
THEOREM PlaylistsInvariant == PlaylistsSpec => []PlaylistsInv
<1>1. PlaylistsInv /\ [PlaylistsNext]_playlistsVars => PlaylistsInv'
  BY PlaylistsStep
<1> QED BY <1>1, InitialPlaylists, PTL DEF PlaylistsSpec

\* Whatever requests come, every playlist is in one scope, has a name that no
\* other of the scope has, and neither it nor its scope is longer than the limits
\* that playlist_store.go checks before it writes.
THEOREM PlaylistsTypeCorrect == PlaylistsSpec => []PlaylistsTypeOK
<1>1. PlaylistsInv => PlaylistsTypeOK
  <2> SUFFICES ASSUME PlaylistsInv PROVE PlaylistsTypeOK
    OBVIOUS
  <2>1. ListsOK /\ NamesOK /\ ItemsOK /\ RevisionsOK /\ SharedOK
    BY DEF PlaylistsInv, SavedOK
  <2>2. PlayedOK /\ ActivationOK /\ CloneOK
    BY DEF PlaylistsInv, RequestsOK
  <2>3. /\ made \in 0..MaxMade /\ lists \in [Scopes -> Seq(1..made)]
        /\ \A s \in Scopes : IsInjective(lists[s]) /\ Len(lists[s]) <= MaxPlaylists
        /\ \A s, t \in Scopes : s # t => ToSet(lists[s]) \cap ToSet(lists[t]) = {}
    BY <2>1 DEF ListsOK
  <2>4. /\ name \in [Ids -> Names \cup {None}]
        /\ \A s \in Scopes : \A p \in ToSet(lists[s]) :
              name[p] # None /\ ~ NameTaken(s, name[p], {p})
    BY <2>1 DEF NamesOK, NameTaken
  <2>5. /\ items \in [Ids -> Seq(Links)] /\ \A p \in Ids : Len(items[p]) <= MaxItems
        /\ shared \in Seq(Links) /\ Len(shared) <= MaxItems
    BY <2>1 DEF ItemsOK, SharedOK
  <2>6. revision \in [Ids -> 0..MaxEdits + 1] /\ edits \in 0..MaxEdits
    <3>1. edits \in Nat /\ edits <= MaxEdits /\ revision \in [Ids -> Nat]
          /\ \A p \in Ids : revision[p] \in Nat /\ revision[p] <= edits + 1
      BY <2>1, Numbers DEF RevisionsOK
    <3>2. \A p \in Ids : revision[p] \in 0..MaxEdits + 1
      BY <3>1, Numbers
    <3> QED BY <3>1, <3>2, <2>1 DEF RevisionsOK
  <2>7. /\ taken \in 0..MaxSnapshots /\ rows \in [Snapshots -> Seq(Links)]
        /\ active.snapshot \in 0..taken /\ active.owner \in Users \cup {None}
    BY <2>2, Numbers DEF PlayedOK
  <2>8. activation.at \in {"idle", "summary", "count", "rows", "activate", "clean"}
    BY <2>2 DEF ActivationOK, Activations, Idle
  <2>9. clone.at \in {"idle", "rows", "copy"}
    BY <2>2 DEF CloneOK, Idle
  <2>10. deleted \subseteq Users /\ \A u \in deleted : lists[u] = << >>
    BY DEF PlaylistsInv, DeletedOK
  <2> QED BY <2>3, <2>4, <2>5, <2>6, <2>7, <2>8, <2>9, <2>10 DEF PlaylistsTypeOK
<1> QED BY <1>1, PlaylistsInvariant, PTL

\* Reading a playlist page by page without a transaction is safe for whoever
\* compares revisions: when the playlist still has the revision of the first page,
\* the activation of music_box.go has every item once and in order, whatever the
\* page size and whichever edits ran between the pages.  The one exception is an
\* account deleted meanwhile, which takes rows out of a room's playlist quietly
\* (src/internal/db/schema.sql:480); a user's own playlist has none.
THEOREM PlayedWhole == PlaylistsSpec => []UnrevisedIsPlayedWhole
<1>1. PlaylistsInv => UnrevisedIsPlayedWhole
  BY DEF PlaylistsInv, RequestsOK, ReadInOrder, Unrevised, UnrevisedIsPlayedWhole, Idle
<1> QED BY <1>1, PlaylistsInvariant, PTL

\* Making a playlist, and mergeUserPlaylists with its limit above all, takes no
\* track out of a scope: what the merged playlist has no room for stays in the
\* playlists it came from.
THEOREM MakingKeepsLinks == PlaylistsSpec => MakingLosesNothing
<1>1. PlaylistsInv /\ [PlaylistsNext]_playlistsVars
         => [made' > made => \A s \in Scopes : LinksOf(s) \subseteq LinksOf(s)']_playlistsVars
  BY PlaylistsStep DEF LosesNothing
<1> QED BY <1>1, PlaylistsInvariant, PTL DEF PlaylistsSpec, MakingLosesNothing
=============================================================================
