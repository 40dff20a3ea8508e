-------------------------- MODULE OverlayPresentMC --------------------------
(***************************************************************************)
(* OverlayPresent for TLC: the instances whose properties are checked      *)
(* state by state identify states that differ by a renaming of the         *)
(* swapchains.                                                             *)
(***************************************************************************)
EXTENDS OverlayPresent, TLC

(* Nothing in the module tells one swapchain handle from another. *)
SwapchainSymmetry == Permutations(Swapchains)
=============================================================================
