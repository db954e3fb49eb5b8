------------------------------- MODULE EventBus -------------------------------
(***************************************************************************)
(* The in-memory event bus of src/internal/eventbus/bus.go: the registry   *)
(* of streams with its two indexes, the interest of a stream in rooms, and *)
(* delivery into a bounded channel.                                        *)
(*                                                                         *)
(* Each action is a critical section of bus.mu or of a stream's mu: a      *)
(* publisher copies its targets under the one and delivers to each under   *)
(* the other.  A stream is never registered twice.  RoomStream says who    *)
(* calls the bus and when.                                                 *)
(***************************************************************************)
EXTENDS Integers, FiniteSets, Sequences

CONSTANTS
    Users, Rooms,
    Conns,          \* streams: one for each connection of a client
    Publishers,
    None,
    BufferSize      \* the capacity of Subscription.events

VARIABLES
    owner,          \* Subscription.userID
    interest,       \* Subscription.rooms
    byUser, byRoom, \* Bus.byUser, Bus.byRoom
    events,         \* Subscription.events
    closed,         \* Subscription.closed
    sending         \* the targets and the event of a publisher

bus == <<owner, interest, byUser, byRoom, events, closed, sending>>

Nothing == [to |-> {}, event |-> None]

BusInit ==
    /\ owner = [c \in Conns |-> None]
    /\ interest = [c \in Conns |-> {}]
    /\ byUser = [u \in Users |-> {}]
    /\ byRoom = [r \in Rooms |-> {}]
    /\ events = [c \in Conns |-> << >>]
    /\ closed = [c \in Conns |-> FALSE]
    /\ sending = [p \in Publishers |-> Nothing]

Subscribe(c, u) ==
    /\ owner[c] = None
    /\ owner' = [owner EXCEPT ![c] = u]
    /\ byUser' = [byUser EXCEPT ![u] = @ \cup {c}]
    /\ UNCHANGED <<interest, byRoom, events, closed, sending>>

\* The new set replaces the old one.
SetRooms(c, rooms) ==
    /\ byRoom' = [r \in Rooms |->
                    IF r \in interest[c] \ rooms THEN byRoom[r] \ {c}
                    ELSE IF r \in rooms \ interest[c] THEN byRoom[r] \cup {c}
                    ELSE byRoom[r]]
    /\ interest' = [interest EXCEPT ![c] = rooms]
    /\ UNCHANGED <<owner, byUser, events, closed, sending>>

\* Mutant: only the streams that listen to nothing yet.
AddInterestToNew(u, r) ==
    LET more == {c \in byUser[u] : interest[c] = {}} IN
    /\ interest' = [c \in Conns |-> IF c \in more THEN {r} ELSE interest[c]]
    /\ byRoom' = [byRoom EXCEPT ![r] = @ \cup more]
    /\ UNCHANGED <<owner, byUser, events, closed, sending>>

AddUserRoomInterest(u, r) ==
    LET more == {c \in byUser[u] : r \notin interest[c]} IN
    /\ interest' = [c \in Conns |-> IF c \in more THEN interest[c] \cup {r} ELSE interest[c]]
    /\ byRoom' = [byRoom EXCEPT ![r] = @ \cup more]
    /\ UNCHANGED <<owner, byUser, events, closed, sending>>

\* The targets are copied under bus.mu, before the first delivery.
Publish(p, targets, e) ==
    /\ sending[p].to = {}
    /\ sending' = [sending EXCEPT ![p] = IF targets = {} THEN Nothing
                                         ELSE [to |-> targets, event |-> e]]
    /\ UNCHANGED <<owner, interest, byUser, byRoom, events, closed>>

\* Mutant: a full channel keeps its oldest events.
DeliverOldest(p, c) ==
    /\ c \in sending[p].to
    /\ sending' = [sending EXCEPT ![p] = IF @.to = {c} THEN Nothing
                                         ELSE [to |-> @.to \ {c}, event |-> @.event]]
    /\ events' = IF closed[c] \/ Len(events[c]) = BufferSize THEN events
                 ELSE [events EXCEPT ![c] = Append(@, sending[p].event)]
    /\ UNCHANGED <<owner, interest, byUser, byRoom, closed>>

\* deliver: the loop of sends and drops, with the stream's mu held.
Deliver(p, c) ==
    /\ c \in sending[p].to
    /\ sending' = [sending EXCEPT ![p] = IF @.to = {c} THEN Nothing
                                         ELSE [to |-> @.to \ {c}, event |-> @.event]]
    /\ events' = IF closed[c] THEN events
                 ELSE [events EXCEPT ![c] =
                         Append(IF Len(@) = BufferSize THEN Tail(@) ELSE @, sending[p].event)]
    /\ UNCHANGED <<owner, interest, byUser, byRoom, closed>>

\* The owner of the stream takes an event from the channel.
Receive(c) ==
    /\ ~closed[c] /\ events[c] # << >>
    /\ events' = [events EXCEPT ![c] = Tail(@)]
    /\ UNCHANGED <<owner, interest, byUser, byRoom, closed, sending>>

\* Close, first with the stream's mu and then with bus.mu.
CloseChannel(c) ==
    /\ ~closed[c]
    /\ closed' = [closed EXCEPT ![c] = TRUE]
    /\ UNCHANGED <<owner, interest, byUser, byRoom, events, sending>>

\* Mutant: the rooms' index keeps the stream.
UnregisterUser(c) ==
    /\ closed[c] /\ c \in byUser[owner[c]]
    /\ byUser' = [byUser EXCEPT ![owner[c]] = @ \ {c}]
    /\ UNCHANGED <<owner, interest, byRoom, events, closed, sending>>

Unregister(c) ==
    /\ closed[c] /\ c \in byUser[owner[c]]
    /\ byRoom' = [r \in Rooms |-> IF r \in interest[c] THEN byRoom[r] \ {c} ELSE byRoom[r]]
    /\ byUser' = [byUser EXCEPT ![owner[c]] = @ \ {c}]
    /\ UNCHANGED <<owner, interest, events, closed, sending>>

-----------------------------------------------------------------------------
Registered(c) == \E u \in Users : c \in byUser[u]

\* The registry: each open stream is in the index of its user and of just the
\* rooms in its interest set, a closed one in none.
BusTypeOK ==
    /\ owner \in [Conns -> Users \cup {None}]
    /\ interest \in [Conns -> SUBSET Rooms]
    /\ closed \in [Conns -> BOOLEAN]
    /\ \A c \in Conns : Len(events[c]) <= BufferSize
    /\ \A p \in Publishers : sending[p].to \subseteq Conns
    /\ \A u \in Users : \A c \in byUser[u] : owner[c] = u
    /\ \A r \in Rooms : byRoom[r] = {c \in Conns : Registered(c) /\ r \in interest[c]}
    /\ \A c \in Conns : owner[c] # None /\ ~closed[c] => Registered(c)
=============================================================================
