-------------------------- MODULE MCRoomMembership --------------------------
(* Small instances of RoomMembership: three users and a superuser, in a room *)
(* whose policy is the one that createRoom chooses by itself.                *)
EXTENDS RoomMembership, TLC

CONSTANTS alice, bob, carol, root, web, phone

Symmetric == Permutations({alice, bob, carol}) \cup Permutations({web, phone})

DefaultInit == Init /\ policy = "approval_required"
DefaultSpec == DefaultInit /\ [][Next]_vars
=============================================================================
