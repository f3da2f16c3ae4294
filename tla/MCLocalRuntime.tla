--------------------------- MODULE MCLocalRuntime ---------------------------
(* LocalRuntime on small instances. *)
EXTENDS LocalRuntime, TLC
=============================================================================
