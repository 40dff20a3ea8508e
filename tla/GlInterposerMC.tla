-------------------------- MODULE GlInterposerMC --------------------------
(***************************************************************************)
(* Threads and handles are interchangeable: the game's calls, the hooks    *)
(* and the invariants treat every thread, and every handle, alike.         *)
(***************************************************************************)
EXTENDS GlInterposer, TLC

GlSymmetry == Permutations(Threads) \cup Permutations(Handles)
=============================================================================
