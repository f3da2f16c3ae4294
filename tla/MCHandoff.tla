----------------------------- MODULE MCHandoff -----------------------------
(* Handoff on small instances. *)
EXTENDS Handoff, TLC

(* Bundles, channels and posts are interchangeable (safety runs only). *)
Symmetry == Permutations(Bundles) \cup Permutations(Channels) \cup Permutations(Posts)
=============================================================================
