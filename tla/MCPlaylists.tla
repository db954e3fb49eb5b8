------------------------------ MODULE MCPlaylists ------------------------------
(* Two users and a room.  A playlist holds three tracks, a scope two       *)
(* playlists and a page two tracks: u1 is at the limit of playlists, and   *)
(* merging the two makes a playlist that is full before the second source  *)
(* is used up.                                                             *)
EXTENDS Playlists

CONSTANTS u1, u2, l1, l2, l3, l4, n1, n2, n3

TwoLists ==
    << [scope |-> u1, name |-> n1, links |-> <<l1, l2, l3>>],
       [scope |-> u1, name |-> n2, links |-> <<l2, l4>>],
       [scope |-> Room, name |-> n1, links |-> <<l4>>] >>
=============================================================================
