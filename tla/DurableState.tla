--------------------------- MODULE DurableState ---------------------------
(***************************************************************************)
(* What CodeFox promises of the state it keeps in state.json: the state is *)
(* made of parts, each of which only moves forward while a process runs;   *)
(* what the file holds of a part moves forward too and is never ahead of   *)
(* memory; and a process starts from what the file holds.  How far the     *)
(* file is behind is not promised: a crash may lose the difference.        *)
(*                                                                         *)
(* A part is represented by the number of the change that made it.         *)
(* Module Service implements this specification.                           *)
(***************************************************************************)
EXTENDS Naturals

CONSTANT Parts  \* what is listed and written on its own: sessions, workflows

VARIABLES
  current,  \* the state in memory, per part
  durable,  \* the state in the file
  running   \* a process has loaded the file

vars == <<current, durable, running>>

Behind(s, t) == \A p \in Parts : s[p] <= t[p]

Init ==
  /\ durable \in [Parts -> {0}]
  /\ current = durable
  /\ running = FALSE

(* A process loads the file; pruning and recovery change what it loaded.  *)
Load ==
  /\ ~running /\ running'
  /\ current' \in [Parts -> Nat] /\ Behind(durable, current')
  /\ \A p \in Parts : current'[p] <= durable[p] + 1
  /\ UNCHANGED durable

Change ==
  /\ running
  /\ current' \in [Parts -> Nat] /\ Behind(current, current')
  /\ UNCHANGED <<durable, running>>

Write ==
  /\ running
  /\ durable' \in [Parts -> Nat]
  /\ Behind(durable, durable') /\ Behind(durable', current)
  /\ UNCHANGED <<current, running>>

(* The process ends, in whatever way; memory is gone.                     *)
End ==
  /\ running /\ ~running'
  /\ current' = durable
  /\ UNCHANGED durable

Next == Load \/ Change \/ Write \/ End

Spec == Init /\ [][Next]_vars
=============================================================================
