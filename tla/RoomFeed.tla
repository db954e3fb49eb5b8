------------------------------- MODULE RoomFeed -------------------------------
(***************************************************************************)
(* What the event bus promises its callers, by the comments of             *)
(* src/internal/eventbus/bus.go: a publisher picks the streams that listen *)
(* and hands the event to each of them without ever waiting; a stream gets *)
(* its events in the order they were handed to it, loses only its oldest,  *)
(* only when it holds BufferSize of them, and gets none after it closed.   *)
(* EventBus has the indexes and locks that keep the promise.               *)
(***************************************************************************)
EXTENDS Integers, Sequences

CONSTANTS Users, Rooms, Conns, Publishers, None, BufferSize, Events

VARIABLES
    stream,         \* "off", "open", "closing" or "gone"
    owner,          \* the user of each stream
    listens,        \* the rooms that a stream has asked for
    box,            \* what it has not read yet
    pending         \* what each publisher has still to hand over, and to whom

vars == <<stream, owner, listens, box, pending>>

Nobody == [to |-> {}, event |-> None]

Init ==
    /\ stream = [c \in Conns |-> "off"]
    /\ owner = [c \in Conns |-> None]
    /\ listens = [c \in Conns |-> {}]
    /\ box = [c \in Conns |-> << >>]
    /\ pending = [p \in Publishers |-> Nobody]

Open(c, u) ==
    /\ stream[c] = "off"
    /\ stream' = [stream EXCEPT ![c] = "open"]
    /\ owner' = [owner EXCEPT ![c] = u]
    /\ UNCHANGED <<listens, box, pending>>

Listen(c, rooms) ==
    /\ stream[c] = "open"
    /\ listens' = [listens EXCEPT ![c] = rooms]
    /\ UNCHANGED <<stream, owner, box, pending>>

\* Every stream of the user listens to one more room.
ListenMore(u, r) ==
    /\ listens' = [c \in Conns |->
                     IF owner[c] = u /\ stream[c] \in {"open", "closing"}
                     THEN listens[c] \cup {r} ELSE listens[c]]
    /\ UNCHANGED <<stream, owner, box, pending>>

Listeners(r) == {c \in Conns : stream[c] \in {"open", "closing"} /\ r \in listens[c]}
StreamsOf(u) == {c \in Conns : stream[c] \in {"open", "closing"} /\ owner[c] = u}

\* An event for nobody leaves no trace.
Publish(p) ==
    /\ pending[p].to = {}
    /\ \E to \in {Listeners(r) : r \in Rooms} \cup {StreamsOf(u) : u \in Users} :
          /\ to # {}
          /\ \E e \in Events : pending' = [pending EXCEPT ![p] = [to |-> to, event |-> e]]
    /\ UNCHANGED <<stream, owner, listens, box>>

\* The oldest event of a full stream goes, a closed stream takes nothing.
Hand(p, c) ==
    /\ c \in pending[p].to
    /\ pending' = [pending EXCEPT ![p] = IF @.to = {c} THEN Nobody ELSE [to |-> @.to \ {c}, event |-> @.event]]
    /\ box' = IF stream[c] # "open" THEN box
              ELSE [box EXCEPT ![c] =
                      Append(IF Len(@) < BufferSize THEN @ ELSE Tail(@), pending[p].event)]
    /\ UNCHANGED <<stream, owner, listens>>

Read(c) ==
    /\ stream[c] = "open" /\ box[c] # << >>
    /\ box' = [box EXCEPT ![c] = Tail(@)]
    /\ UNCHANGED <<stream, owner, listens, pending>>

Close(c) ==
    \/ /\ stream[c] = "open"
       /\ stream' = [stream EXCEPT ![c] = "closing"]
       /\ UNCHANGED <<owner, listens, box, pending>>
    \/ /\ stream[c] = "closing"
       /\ stream' = [stream EXCEPT ![c] = "gone"]
       /\ UNCHANGED <<owner, listens, box, pending>>

Next ==
    \/ \E c \in Conns : Read(c) \/ Close(c)
    \/ \E c \in Conns, u \in Users : Open(c, u)
    \/ \E c \in Conns, rooms \in SUBSET Rooms : Listen(c, rooms)
    \/ \E u \in Users, r \in Rooms : ListenMore(u, r)
    \/ \E p \in Publishers : Publish(p)
    \/ \E p \in Publishers, c \in Conns : Hand(p, c)

Spec == Init /\ [][Next]_vars
=============================================================================
