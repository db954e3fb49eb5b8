----------------------------- MODULE MCRoomStream -----------------------------
(* One room with a member, a user who joins and leaves it and a superuser; a *)
(* stream of one of the last two, and two requests that change the room at   *)
(* the same time.  What is promised is promised to each stream by itself: a  *)
(* second stream only adds targets between the deliveries of a publisher.    *)
EXTENDS RoomStream, TLC

CONSTANTS u1, u2, u3, r1, c1, h1, h2

StartMembers == r1 :> {u1}

StreamSymmetry == Permutations(Handlers)
=============================================================================
