----------------------------- MODULE MCEmptyRoom -----------------------------
(* Small instances of EmptyRoom: one participant, two requests at a time. *)
EXTENDS EmptyRoom

CONSTANTS alice, request, webhook
=============================================================================
