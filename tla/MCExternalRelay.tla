-------------------------- MODULE MCExternalRelay --------------------------
(* ExternalRelay on small instances. *)
EXTENDS ExternalRelay, TLC

(* Sessions, keys and channels are interchangeable (safety runs only). *)
Symmetry == Permutations(Sessions) \cup Permutations(Keys) \cup Permutations(Channels)
=============================================================================
