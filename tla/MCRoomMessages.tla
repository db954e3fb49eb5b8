---------------------------- MODULE MCRoomMessages ----------------------------
(* A member and an admin, two old messages, one of them an event of a voice  *)
(* room, and two that are still to come: the new ids sort before and after   *)
(* the old ones.                                                             *)
EXTENDS RoomMessages, TLC
CONSTANTS ann, bob, gangBot, h1, h2, c1

MCOldKind == (2 :> "file") @@ (3 :> "live")
MCMixes == {[send |-> 2], [send |-> 1, read |-> 2],
            [send |-> 1, force |-> 1, recall |-> 1], [send |-> 1, dismiss |-> 1],
            [settings |-> 1, recall |-> 2, review |-> 2],
            [page |-> 1, system |-> 2, force |-> 1, hide |-> 1],
            [page |-> 1, system |-> 2, settings |-> 1]}
Either == Permutations({h1, h2})
=============================================================================
