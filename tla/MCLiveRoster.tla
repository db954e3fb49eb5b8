---------------------------- MODULE MCLiveRoster ----------------------------
(* Small instances of LiveRoster: one user with two devices. *)
EXTENDS LiveRoster

CONSTANTS alice
=============================================================================
