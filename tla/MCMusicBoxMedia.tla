-------------------------- MODULE MCMusicBoxMedia --------------------------
(* Small instances of MusicBoxMedia: two rooms, a track both of them want.  *)
EXTENDS MusicBoxMedia, TLC

CONSTANTS r1, r2, a, b, w1, w2, w3

MCRooms == {r1, r2}
MCTracks == {a, b}

\* One row and one track for each room, in a cache for one track.
PairItems == {1, 2}
PairRoomOf == (1 :> r1) @@ (2 :> r2)
PairTrackOf == (1 :> a) @@ (2 :> b)

\* Two rows in one room, and a row of the other room with the first one's track.
SharedItems == {1, 2, 3}
SharedRoomOf == (1 :> r1) @@ (2 :> r1) @@ (3 :> r2)
SharedTrackOf == (1 :> a) @@ (2 :> b) @@ (3 :> a)

WorkerSymmetry == Permutations(Workers)
=============================================================================
