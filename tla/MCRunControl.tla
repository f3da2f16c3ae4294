---------------------------- MODULE MCRunControl ----------------------------
(* RunControl on small instances. *)
EXTENDS RunControl, TLC

(* Ids of one kind are interchangeable (safety runs only). *)
Symmetry == Permutations(Reqs) \cup Permutations(Steers) \cup Permutations(Repos)
            \cup Permutations(Channels)
=============================================================================
