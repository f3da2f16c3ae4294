---------------------------- MODULE SessionLease ----------------------------
(***************************************************************************)
(* What binding promises the external clients, without how: a session is   *)
(* held under one lease at a time, a lease is new when it is granted, and  *)
(* one that was given up, for whatever reason, never holds again.          *)
(* ExternalRelay is shown to implement this for all its sessions, and      *)
(* Handoff, which keeps only the lease of its chat, for that one.          *)
(***************************************************************************)
EXTENDS Naturals

CONSTANT Sessions

VARIABLES
  held,  \* <<lease, session>>: the leases that hold now
  given  \* leases granted so far; they are numbered

leaseVars == <<held, given>>

LeaseInit == held = {} /\ given = 0

Grant(s) ==
  /\ \A h \in held : h[2] # s
  /\ given' = given + 1
  /\ held' = held \cup {<<given + 1, s>>}

(* Leases are revoked, expire, or are lost with the process.               *)
GiveUp == held' \subseteq held /\ UNCHANGED given

LeaseNext == GiveUp \/ \E s \in Sessions : Grant(s)

LeaseSpec == LeaseInit /\ [][LeaseNext]_leaseVars
=============================================================================
