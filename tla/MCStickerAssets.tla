-------------------------- MODULE MCStickerAssets --------------------------
(* Two assets that can be exchanged, and two requests at the same time. *)
EXTENDS StickerAssets, TLC
CONSTANTS a1, a2, h1, h2, own, shared

Either == Permutations({a1, a2}) \cup Permutations({h1, h2})
=============================================================================
