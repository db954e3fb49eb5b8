---------------------------- MODULE MCMusicBoxRoom ----------------------------
(* Small instances of MusicBoxRoom: a played row, a row to come, and two requests. *)
EXTENDS MusicBoxRoom, TLC

CONSTANTS r1, r2

Either == Permutations({r1, r2})
=============================================================================
