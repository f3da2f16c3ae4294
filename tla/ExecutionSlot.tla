---------------------------- MODULE ExecutionSlot ----------------------------
(***************************************************************************)
(* What the admission of a chat promises, without how: the chat has one    *)
(* slot; a request takes it, may start one Codex process, and cannot give  *)
(* the slot back while that process lives; a process that ended is never   *)
(* started again.  RunControl is shown to implement this.                  *)
(***************************************************************************)
CONSTANTS
  Ids,   \* requests
  None   \* no request

VARIABLES
  holder,   \* the request that has the slot, or None
  process,  \* the request whose Codex process lives, or None
  ended     \* requests whose process has ended

slotVars == <<holder, process, ended>>

SlotInit == holder = None /\ process = None /\ ended = {}

Take(r) ==
  /\ holder = None
  /\ holder' = r
  /\ UNCHANGED <<process, ended>>

Start(r) ==
  /\ holder = r /\ process = None /\ r \notin ended
  /\ process' = r
  /\ UNCHANGED <<holder, ended>>

End(r) ==
  /\ process = r
  /\ process' = None
  /\ ended' = ended \cup {r}
  /\ UNCHANGED holder

Release(r) ==
  /\ holder = r /\ process = None
  /\ holder' = None
  /\ UNCHANGED <<process, ended>>

SlotNext == \E r \in Ids : Take(r) \/ Start(r) \/ End(r) \/ Release(r)

SlotSpec == SlotInit /\ [][SlotNext]_slotVars
=============================================================================
