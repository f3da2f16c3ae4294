------------------------- MODULE LocalRuntimeProofs -------------------------
(***************************************************************************)
(* Proofs about LocalRuntime, for any number of handoff clients, other     *)
(* relay clients and processes.                                            *)
(***************************************************************************)
EXTENDS LocalRuntime, TLAPS

Before == {"idle", "naming", "waiting", "routing", "choosing", "binding"}
Bound  == {"completing", "delivering", "revoking"}

(* The lease of a client that is not between bind and revoke is one whose  *)
(* grant, or whose revocation, got lost; none of that happens before bind. *)
LeaseHasOwner ==
  \A c \in Clients :
    /\ lease = c => act[c].at \in Bound \cup {"quit"} \/ act[c].lost
    /\ act[c].lost => act[c].at \notin Before \cup Bound

(* A client that delivers under its lease has had its completion noted.    *)
CompletionComesFirst ==
  \A c \in Clients :
    /\ act[c].at = "delivering" /\ ~act[c].reminder /\ lease = c => noted
    /\ act[c].ok => act[c].at \notin Before \cup {"completing", "delivering"}

LeaseInv == LeaseHasOwner /\ CompletionComesFirst /\ SubmittedAsFinished

(* A process belongs to the actor that spawned it, and one that waits for  *)
(* a process has one.                                                      *)
ProcessHasOwner ==
  \A a \in Actors :
    /\ act[a].pid # None => proc[act[a].pid] # "none" /\ act[a].kind # "none"
    /\ a = Ui => act[a].kind # "fg"
    /\ \A b \in Actors \ {a} : act[a].pid = act[b].pid => act[a].pid = None
    /\ act[a].at \in {"naming", "stopping", "checkingPidFile", "unlinking"}
         => act[a].kind = "bg" /\ act[a].pid # None
    /\ act[a].at \in {"stoppingChild", "attached"} => act[a].kind = "fg" /\ act[a].pid # None
    /\ act[a].kind # "none" /\ a # Ui => act[a].pid # None
    /\ act[a].at \in {"checkingPidFile", "unlinking"} => act[a].pid \notin Alive

ProcessInv == ProcessHasOwner /\ OwnServiceStopped

IInv == TypeOK /\ LeaseInv /\ ProcessInv

(* Where a step of an actor leads.                                         *)
LEMMA GotoIs ==
  ASSUME TypeOK, NEW a \in Actors, NEW next \in Phases, Goto(a, next)
  PROVE  /\ act' \in [Actors -> Records]
         /\ act'[a] = [act[a] EXCEPT !.at = next]
         /\ \A b \in Actors \ {a} : act'[b] = act[b]
<1>1. act[a] \in Records
  BY DEF TypeOK
<1>2. [act[a] EXCEPT !.at = next] \in Records
  BY <1>1 DEF Records
<1>3. act' = [act EXCEPT ![a] = [act[a] EXCEPT !.at = next]]
  BY DEF Goto
<1> QED
  BY <1>2, <1>3 DEF TypeOK

(* A new process gets a pid that nobody had, and its owner has no other.   *)
Spawned(a, kind, next) ==
  \E p \in Pids :
    /\ proc[p] = "none"
    /\ proc' = [proc EXCEPT ![p] = "launching"]
    /\ act' \in [Actors -> Records]
    /\ act'[a] = [act[a] EXCEPT !.at = next, !.pid = p, !.kind = kind]
    /\ \A b \in Actors \ {a} : act'[b] = act[b]

(* What spawning a process does to the actor and the processes.            *)
LEMMA SpawnIs ==
  ASSUME TypeOK, NEW a \in Actors, NEW kind \in {"fg", "bg"}, NEW next \in Phases,
         Spawn(a, kind, next)
  PROVE  Spawned(a, kind, next)
<1>1. PICK p \in Pids :
        /\ proc[p] = "none"
        /\ proc' = [proc EXCEPT ![p] = "launching"]
        /\ act' = [act EXCEPT ![a].at = next, ![a].pid = p, ![a].kind = kind]
  BY DEF Spawn
<1> DEFINE rec == [act[a] EXCEPT !.at = next, !.pid = p, !.kind = kind]
<1>2. act[a] \in Records
  BY DEF TypeOK
<1>3. rec \in Records
  BY <1>2 DEF Records
<1>4. act' = [act EXCEPT ![a] = rec]
  BY <1>1
<1>5. /\ act' \in [Actors -> Records]
      /\ act'[a] = rec
      /\ \A b \in Actors \ {a} : act'[b] = act[b]
  BY <1>3, <1>4 DEF TypeOK
<1> QED
  BY <1>1, <1>5 DEF Spawned

(* What the first step of a client or the UI changes.                      *)
Begins(a) == IF a = Ui THEN UiBegins ELSE ClientBegins(a)

StartsNone(a) ==
  /\ act'[a].at \in {"routing", "finishing", "open"}
  /\ act'[a].pid = act[a].pid /\ act'[a].kind = act[a].kind
  /\ UNCHANGED proc

StartsOne(a) ==
  \E p \in Pids :
    /\ proc[p] = "none"
    /\ proc' = [proc EXCEPT ![p] = "launching"]
    /\ act'[a].pid = p
    /\ \/ act'[a].at = "naming" /\ act'[a].kind = "bg"
       \/ act'[a].at = "waiting" /\ act'[a].kind = "fg" /\ a # Ui

(* A client that begins touches its own record only.                       *)
LEMMA BeginsIs ==
  ASSUME TypeOK, NEW a \in Actors, Begins(a)
  PROVE  /\ act' \in [Actors -> Records]
         /\ \A b \in Actors \ {a} : act'[b] = act[b]
         /\ act'[a].lost = act[a].lost /\ act'[a].reminder = act[a].reminder
         /\ act'[a].ok = act[a].ok /\ act'[a].delivered = act[a].delivered
         /\ StartsNone(a) \/ StartsOne(a)
<1>1. act[a] \in Records
  BY DEF TypeOK
<1>2. ASSUME NEW next \in {"routing", "finishing", "open"}, Goto(a, next), UNCHANGED proc
      PROVE  /\ act' \in [Actors -> Records]
             /\ \A b \in Actors \ {a} : act'[b] = act[b]
             /\ act'[a].lost = act[a].lost /\ act'[a].reminder = act[a].reminder
             /\ act'[a].ok = act[a].ok /\ act'[a].delivered = act[a].delivered
             /\ StartsNone(a)
  <2>1. next \in Phases
    BY DEF Phases
  <2>2. act'[a] = [act[a] EXCEPT !.at = next]
    BY <1>2, <2>1, GotoIs
  <2>3. StartsNone(a)
    BY <1>1, <1>2, <2>2 DEF StartsNone, Records
  <2> QED
    BY <1>1, <1>2, <2>1, <2>2, <2>3, GotoIs DEF Records
<1>3. ASSUME NEW kind \in {"fg", "bg"}, NEW next \in {"naming", "waiting"}, Spawn(a, kind, next),
             next = (IF kind = "bg" THEN "naming" ELSE "waiting"), a = Ui => kind = "bg"
      PROVE  /\ act' \in [Actors -> Records]
             /\ \A b \in Actors \ {a} : act'[b] = act[b]
             /\ act'[a].lost = act[a].lost /\ act'[a].reminder = act[a].reminder
             /\ act'[a].ok = act[a].ok /\ act'[a].delivered = act[a].delivered
             /\ StartsOne(a)
  <2>1. next \in Phases
    BY DEF Phases
  <2>2. PICK p \in Pids :
           /\ proc[p] = "none"
           /\ proc' = [proc EXCEPT ![p] = "launching"]
           /\ act' \in [Actors -> Records]
           /\ act'[a] = [act[a] EXCEPT !.at = next, !.pid = p, !.kind = kind]
           /\ \A b \in Actors \ {a} : act'[b] = act[b]
    <3>1. Spawned(a, kind, next)
      BY <1>3, <2>1, SpawnIs
    <3> QED
      BY <3>1 DEF Spawned
  <2>3. /\ act'[a].at = next /\ act'[a].pid = p /\ act'[a].kind = kind
        /\ act'[a].lost = act[a].lost /\ act'[a].reminder = act[a].reminder
        /\ act'[a].ok = act[a].ok /\ act'[a].delivered = act[a].delivered
    BY <1>1, <2>2 DEF Records
  <2>4. StartsOne(a)
    BY <1>3, <2>2, <2>3 DEF StartsOne
  <2> QED
    BY <2>2, <2>3, <2>4
<1>4. CASE a = Ui
  BY <1>2, <1>3, <1>4 DEF Begins, UiBegins
<1>5. CASE a # Ui
  BY <1>2, <1>3, <1>5 DEF Begins, ClientBegins
<1> QED
  BY <1>4, <1>5

(* The changes a client makes to its record keep it one.                   *)
LEMMA RecordUpdates ==
  ASSUME NEW r \in Records, NEW at \in Phases, NEW b \in BOOLEAN,
         NEW d \in {"no", "alone", "complete"}
  PROVE  /\ [r EXCEPT !.at = at, !.reminder = b] \in Records
         /\ [r EXCEPT !.at = at, !.lost = b] \in Records
         /\ [r EXCEPT !.at = at, !.ok = b, !.delivered = d] \in Records
  BY DEF Records

(* An actor whose program is over without its finally has nothing in hand. *)
LEMMA QuitIs ==
  ASSUME TypeOK, NEW a \in Actors, Quit(a)
  PROVE  /\ act' \in [Actors -> Records]
         /\ act'[a] = [Idle EXCEPT !.at = "quit"]
         /\ \A b \in Actors \ {a} : act'[b] = act[b]
<1>1. [Idle EXCEPT !.at = "quit"] \in Records
  BY DEF Idle, Records, Phases
<1> QED
  BY <1>1 DEF Quit, TypeOK

(* Where a client goes with the routes in hand.                            *)
LEMMA ResolveIs ==
  ASSUME TypeOK, NEW c \in Clients, Resolve(c)
  PROVE  act' \in [Actors -> Records]
<1>1. c \in Actors /\ act[c] \in Records /\ {"finishing", "stopping", "ended", "binding"} \subseteq Phases
  BY DEF Actors, TypeOK, Phases
<1>2. CASE \E next \in {"finishing", "stopping", "ended"} : Goto(c, next)
  BY <1>1, <1>2, GotoIs
<1>3. ASSUME NEW again \in BOOLEAN,
             act' = [act EXCEPT ![c].at = "binding", ![c].reminder = again]
      PROVE act' \in [Actors -> Records]
  <2>1. [act[c] EXCEPT !.at = "binding", !.reminder = again] \in Records
    BY <1>1, RecordUpdates
  <2>2. act' = [act EXCEPT ![c] = [act[c] EXCEPT !.at = "binding", !.reminder = again]]
    BY <1>3
  <2> QED
    BY <2>1, <2>2 DEF TypeOK
<1> QED
  BY <1>2, <1>3 DEF Resolve, Finally

(* A process changes its state without leaving its type.                   *)
LEMMA LeaveIs ==
  ASSUME TypeOK, NEW p \in Pids, NEW to \in {"stopping", "gone"},
         (p \in Alive /\ Leave(p, to)) \/ Signal(p)
  PROVE  /\ proc' \in [Pids -> {"none", "launching", "starting", "serving", "orphaned", "stopping", "gone"}]
         /\ \A q \in Pids : proc[q] # "none" => proc'[q] # "none"
         /\ \A q \in Pids : q \notin Alive => q \notin Alive'
         /\ lease' \in {lease, None}
         /\ noted' \in BOOLEAN
  BY DEF TypeOK, Leave, Signal, Alive, relay

(* Everything holds before any program is started.                         *)
LEMMA InitInv == Init => IInv
<1> SUFFICES ASSUME Init PROVE IInv
  OBVIOUS
<1>1. Idle \in Records
  BY DEF Idle, Records, Phases
<1>2. TypeOK
  BY <1>1 DEF Init, NoStop, TypeOK, Actors, Pids
<1>3. \A a \in Actors : act[a] = Idle
  BY DEF Init
<1>4. LeaseInv
  BY <1>3, LocalRuntimeConstants
  DEF Init, Idle, LeaseInv, LeaseHasOwner, CompletionComesFirst, SubmittedAsFinished, Actors,
      Bound, Before
<1>5. ProcessInv
  BY <1>3 DEF Idle, ProcessInv, ProcessHasOwner, OwnServiceStopped
<1> QED
  BY <1>2, <1>4, <1>5 DEF IInv

(* Every step keeps the types.                                             *)
LEMMA TypeStep == TypeOK /\ [Next]_vars => TypeOK'
<1> SUFFICES ASSUME TypeOK, [Next]_vars PROVE TypeOK'
  OBVIOUS
<1> USE LocalRuntimeConstants DEF TypeOK, relay, Actors, Records, Phases, Pids
<1> DEFINE States == {"none", "launching", "starting", "serving", "orphaned", "stopping", "gone"}
<1>0. ASSUME NEW a \in Actors, NEW next \in Phases, Goto(a, next)
      PROVE act' \in [Actors -> Records]
  <2> HIDE DEF TypeOK, Actors, Records, Phases
  <2> QED
    BY <1>0, GotoIs
<1>1. ASSUME NEW p \in Pids, Appears(p) PROVE TypeOK'
  BY <1>1 DEF Appears
<1>2. ASSUME NEW p \in Pids, Listens(p) PROVE TypeOK'
  <2>1. proc' \in [Pids -> States]
    <3>1. \E s \in {"gone"} \cup Serving : proc' = [proc EXCEPT ![p] = s]
      BY <1>2 DEF Listens
    <3> QED
      BY <3>1 DEF Serving
  <2> QED
    BY SMTT(30), <1>2, <2>1 DEF Listens
<1>3. ASSUME NEW p \in Pids, Dies(p) PROVE TypeOK'
  BY <1>3 DEF Dies, Leave
<1>4. CASE OtherBinds
  BY <1>4 DEF OtherBinds
<1>5. CASE LeaseEnds
  BY <1>5 DEF LeaseEnds
<1>6. ASSUME NEW c \in Clients, ClientBegins(c) PROVE TypeOK'
  <2>1. c \in Actors /\ Begins(c) /\ TypeOK
    BY <1>6 DEF Begins
  <2>2. /\ act' \in [Actors -> Records]
        /\ \A b \in Actors \ {c} : act'[b] = act[b]
        /\ act'[c].lost = act[c].lost /\ act'[c].reminder = act[c].reminder
        /\ act'[c].ok = act[c].ok /\ act'[c].delivered = act[c].delivered
        /\ StartsNone(c) \/ StartsOne(c)
    <3> HIDE DEF TypeOK, Actors, Records, Phases, Pids
    <3> QED
      BY <2>1, BeginsIs
  <2>3. proc' \in [Pids -> States]
    <3> HIDE DEF Records, Phases, Actors
    <3> QED
      BY <2>2 DEF StartsNone, StartsOne
  <2> QED
    BY <1>6, <2>2, <2>3 DEF ClientBegins
<1>7. ASSUME NEW a \in Actors, NEW next \in {"waiting", "confirming"}, WritePidFile(a, next)
      PROVE TypeOK'
  <2>1. Goto(a, next)
    BY <1>7 DEF WritePidFile
  <2>2. act' \in [Actors -> Records]
    <3> HIDE DEF Records, Goto
    <3> QED
      BY <2>1, <1>0
  <2> QED
    BY <1>7, <2>2 DEF WritePidFile
<1>8. ASSUME NEW c \in Clients, RelayReady(c) PROVE TypeOK'
  <2>1. Goto(c, "routing")
    BY <1>8 DEF RelayReady
  <2>2. act' \in [Actors -> Records]
    <3> HIDE DEF Records, Goto
    <3> QED
      BY <2>1, <1>0
  <2> QED
    BY <1>8, <2>2 DEF RelayReady
<1>9. ASSUME NEW c \in Clients, RelayNotReady(c) PROVE TypeOK'
  <2>1. Goto(c, "finishing")
    BY <1>9 DEF RelayNotReady
  <2>2. act' \in [Actors -> Records]
    <3> HIDE DEF Records, Goto
    <3> QED
      BY <2>1, <1>0
  <2> QED
    BY <1>9, <2>2 DEF RelayNotReady
<1>10. ASSUME NEW c \in Clients, ResolveContext(c) PROVE TypeOK'
  <2> HIDE DEF Phases, Records
  <2>1. ASSUME NEW next \in {"finishing", "choosing"}, Goto(c, next)
        PROVE act' \in [Actors -> Records]
    BY <2>1, <1>0 DEF Phases
  <2>2. ASSUME Resolve(c) PROVE act' \in [Actors -> Records]
    <3> HIDE DEF TypeOK, Actors
    <3> QED
      BY <2>2, ResolveIs
  <2> QED
    BY <1>10, <2>1, <2>2 DEF ResolveContext
<1>11. ASSUME NEW c \in Clients, ClientBinds(c) PROVE TypeOK'
  <2>1. PICK at \in Phases, lost \in BOOLEAN :
        act' = [act EXCEPT ![c].at = at, ![c].lost = lost]
    BY <1>11 DEF ClientBinds
  <2> DEFINE rec == [act[c] EXCEPT !.at = at, !.lost = lost]
  <2>2. rec \in Records
    <3>1. {"finishing", "revoking"} \subseteq Phases
      OBVIOUS
    <3>2. act[c] \in Records
      <4> HIDE DEF Phases, Records
      <4> QED
        OBVIOUS
    <3> HIDE DEF Phases, Records, TypeOK
    <3> QED
      BY <3>1, <3>2, RecordUpdates
  <2>3. act' = [act EXCEPT ![c] = rec]
    BY <2>1
  <2>4. act' \in [Actors -> Records]
    BY <2>2, <2>3
  <2> QED
    BY <1>11, <2>4 DEF ClientBinds
<1>12. ASSUME NEW c \in Clients, ClientReportsCompletion(c) PROVE TypeOK'
  BY SMTT(30), <1>12 DEF ClientReportsCompletion, Accepts, Goto
<1>13. ASSUME NEW c \in Clients, ClientDelivers(c) PROVE TypeOK'
  <2>1. PICK ok \in BOOLEAN, d \in {"no", "alone", "complete"} :
        act' = [act EXCEPT ![c].at = "revoking", ![c].ok = ok, ![c].delivered = d]
    BY <1>13 DEF ClientDelivers, Accepts
  <2> DEFINE rec == [act[c] EXCEPT !.at = "revoking", !.ok = ok, !.delivered = d]
  <2>2. rec \in Records
    <3>1. {"finishing", "revoking"} \subseteq Phases
      OBVIOUS
    <3>2. act[c] \in Records
      <4> HIDE DEF Phases, Records
      <4> QED
        OBVIOUS
    <3> HIDE DEF Phases, Records, TypeOK
    <3> QED
      BY <3>1, <3>2, RecordUpdates
  <2>3. act' = [act EXCEPT ![c] = rec]
    BY <2>1
  <2>4. act' \in [Actors -> Records]
    BY <2>2, <2>3
  <2> QED
    BY <1>13, <2>4 DEF ClientDelivers
<1>14. ASSUME NEW c \in Clients, ClientRevokes(c) PROVE TypeOK'
  <2>1. PICK lost \in BOOLEAN :
        act' = [act EXCEPT ![c].at = "finishing", ![c].lost = lost]
    BY <1>14 DEF ClientRevokes
  <2> DEFINE rec == [act[c] EXCEPT !.at = "finishing", !.lost = lost]
  <2>2. rec \in Records
    <3>1. {"finishing", "revoking"} \subseteq Phases
      OBVIOUS
    <3>2. act[c] \in Records
      <4> HIDE DEF Phases, Records
      <4> QED
        OBVIOUS
    <3> HIDE DEF Phases, Records, TypeOK
    <3> QED
      BY <3>1, <3>2, RecordUpdates
  <2>3. act' = [act EXCEPT ![c] = rec]
    BY <2>1
  <2>4. act' \in [Actors -> Records]
    BY <2>2, <2>3
  <2> QED
    BY <1>14, <2>4 DEF ClientRevokes
<1>15. ASSUME NEW c \in Clients, ClientFinishes(c) PROVE TypeOK'
  BY <1>15 DEF ClientFinishes, Finally, Goto
<1>16. ASSUME NEW c \in Clients, ForegroundExits(c) PROVE TypeOK'
  BY <1>16 DEF ForegroundExits, Goto
<1>17. ASSUME NEW c \in Clients, StopForegroundChild(c) PROVE TypeOK'
  <2> HIDE DEF Phases, Records
  <2>1. ASSUME Goto(c, "ended") PROVE act' \in [Actors -> Records]
    BY <2>1, GotoIs DEF Phases
  <2>2. ASSUME Signal(act[c].pid)
        PROVE proc' \in [Pids -> States] /\ lease' \in {lease, None} /\ noted' \in BOOLEAN
    BY <2>2 DEF Signal, Leave
  <2> QED
    BY <1>17, <2>1, <2>2 DEF StopForegroundChild
<1>18. ASSUME NEW a \in Actors, StopOwned(a) PROVE TypeOK'
  <2> HIDE DEF Phases, Records
  <2>1. ASSUME Goto(a, "checkingPidFile") PROVE act' \in [Actors -> Records]
    BY <2>1, GotoIs DEF Phases
  <2>2. ASSUME Signal(act[a].pid) \/ Leave(act[a].pid, "gone")
        PROVE proc' \in [Pids -> States] /\ lease' \in {lease, None} /\ noted' \in BOOLEAN
    BY <2>2 DEF Signal, Leave
  <2> QED
    BY <1>18, <2>1, <2>2 DEF StopOwned
<1>19. ASSUME NEW a \in Actors, ReadPidFile(a) PROVE TypeOK'
  <2>1. Goto(a, "unlinking") \/ Goto(a, "ended")
    BY <1>19 DEF ReadPidFile
  <2>2. act' \in [Actors -> Records]
    <3> HIDE DEF Records, Goto
    <3> QED
      BY <2>1, <1>0
  <2> QED
    BY <1>19, <2>2 DEF ReadPidFile
<1>20. ASSUME NEW a \in Actors, UnlinkPidFile(a) PROVE TypeOK'
  <2>1. Goto(a, "ended")
    BY <1>20 DEF UnlinkPidFile
  <2>2. act' \in [Actors -> Records]
    <3> HIDE DEF Records, Goto
    <3> QED
      BY <2>1, <1>0
  <2> QED
    BY <1>20, <2>2 DEF UnlinkPidFile
<1>21. CASE UiBegins
  <2>1. Ui \in Actors /\ Begins(Ui) /\ TypeOK
    BY <1>21 DEF Begins
  <2>2. /\ act' \in [Actors -> Records]
        /\ \A b \in Actors \ {Ui} : act'[b] = act[b]
        /\ act'[Ui].lost = act[Ui].lost /\ act'[Ui].reminder = act[Ui].reminder
        /\ act'[Ui].ok = act[Ui].ok /\ act'[Ui].delivered = act[Ui].delivered
        /\ StartsNone(Ui) \/ StartsOne(Ui)
    <3> HIDE DEF TypeOK, Actors, Records, Phases, Pids
    <3> QED
      BY <2>1, BeginsIs
  <2>3. proc' \in [Pids -> States]
    <3> HIDE DEF Records, Phases, Actors
    <3> QED
      BY <2>2 DEF StartsNone, StartsOne
  <2> QED
    BY <1>21, <2>2, <2>3 DEF UiBegins
<1>22. CASE UiConfirms
  <2>1. ASSUME Goto(Ui, "open") PROVE act' \in [Actors -> Records]
    BY <2>1 DEF Goto
  <2>2. ASSUME Quit(Ui) PROVE act' \in [Actors -> Records]
    <3> HIDE DEF TypeOK, Records, Phases
    <3> QED
      BY <2>2, QuitIs
  <2> QED
    BY <1>22, <2>1, <2>2 DEF UiConfirms
<1>23. CASE UiWatches
  <2>1. act' \in [Actors -> Records]
    <3>1. Quit(Ui)
      BY <1>23 DEF UiWatches
    <3> HIDE DEF TypeOK, Records, Phases
    <3> QED
      BY <3>1, QuitIs
  <2> QED
    BY <1>23, <2>1 DEF UiWatches
<1>24. ASSUME NEW c \in Clients, ChooseRoute(c) PROVE TypeOK'
  <2>1. act' \in [Actors -> Records]
    <3>1. Resolve(c)
      BY <1>24 DEF ChooseRoute
    <3> HIDE DEF TypeOK, Records, Phases, Actors
    <3> QED
      BY <3>1, ResolveIs
  <2> QED
    BY <1>24, <2>1 DEF ChooseRoute
<1>25. CASE UiCloses
  <2>1. ASSUME Goto(Ui, "stopping") PROVE act' \in [Actors -> Records]
    BY <2>1 DEF Goto
  <2>2. ASSUME Quit(Ui) PROVE act' \in [Actors -> Records]
    <3> HIDE DEF TypeOK, Records, Phases
    <3> QED
      BY <2>2, QuitIs
  <2> QED
    BY <1>25, <2>1, <2>2 DEF UiCloses
<1>26. ASSUME NEW a \in Actors, Interrupted(a) PROVE TypeOK'
  <2>1. ASSUME Quit(a) PROVE act' \in [Actors -> Records]
    <3> HIDE DEF TypeOK, Records, Phases, Actors
    <3> QED
      BY <2>1, QuitIs
  <2>2. ASSUME Signal(act[a].pid)
        PROVE proc' \in [Pids -> States] /\ lease' \in {lease, None} /\ noted' \in BOOLEAN
    BY <2>2 DEF Signal, Leave
  <2> HIDE DEF Records, Phases
  <2> QED
    BY <1>26, <2>1, <2>2 DEF Interrupted
<1>27. CASE StopperBegins
  <2>1. ScanFound \in [at: {"idle", "stale", "stopping", "removing"}, left: SUBSET Pids,
                       any: BOOLEAN]
    BY DEF ScanFound, Scanned
  <2> HIDE DEF Records, Phases, ScanFound
  <2> QED
    BY <1>27, <2>1 DEF StopperBegins
<1>28. CASE StopperDropsStale
  BY <1>28 DEF StopperDropsStale, ScanFound, NoStop, Scanned
<1>29. CASE StopperStops
  <2> HIDE DEF Phases, Records
  <2>1. PICK p \in stopper.left : StopOne(p)
    BY <1>29 DEF StopperStops
  <2>2. proc' \in [Pids -> States] /\ lease' \in {lease, None} /\ noted' \in BOOLEAN
    BY <2>1 DEF StopOne, Signal, Leave
  <2>3. stopper' \in [at: {"idle", "stale", "stopping", "removing"}, left: SUBSET Pids,
                       any: BOOLEAN]
    <3>1. UNCHANGED stopper \/ \E ok \in BOOLEAN : DoneWith(p, ok)
      BY <2>1 DEF StopOne
    <3>2. ASSUME NEW ok \in BOOLEAN, DoneWith(p, ok)
          PROVE stopper' \in [at: {"idle", "stale", "stopping", "removing"},
                              left: SUBSET Pids, any: BOOLEAN]
      <4>1. stopper.left \ {p} \in SUBSET Pids /\ (stopper.any \/ ok) \in BOOLEAN
        OBVIOUS
      <4> HIDE DEF Pids, TypeOK
      <4> QED
        BY <3>2, <4>1 DEF DoneWith, NoStop
    <3> QED
      BY <3>1, <3>2
  <2> QED
    BY <1>29, <2>2, <2>3 DEF StopperStops
<1>30. CASE StopperRemoves
  BY <1>30 DEF StopperRemoves, NoStop
<1>31. CASE UNCHANGED vars
  BY <1>31 DEF vars, relay
<1>32. ASSUME NEW p \in Pids, LauncherDies(p) PROVE TypeOK'
  BY <1>32 DEF LauncherDies
<1> QED
  BY <1>1, <1>2, <1>3, <1>4, <1>5, <1>6, <1>7, <1>8, <1>9, <1>10, <1>11, <1>12, <1>13, <1>14,
     <1>15, <1>16, <1>17, <1>18, <1>19, <1>20, <1>21, <1>22, <1>23, <1>24, <1>25, <1>26, <1>27,
     <1>28, <1>29, <1>30, <1>31, <1>32
  DEF Next, Process, ClientStep, UiStep, Stopper, Stops, Actors

(* Every step keeps what is said of leases and reports.                    *)
LEMMA LeaseStep == TypeOK /\ LeaseInv /\ [Next]_vars => LeaseInv'
<1> SUFFICES ASSUME TypeOK, LeaseInv, [Next]_vars PROVE LeaseInv'
  OBVIOUS
<1> USE LocalRuntimeConstants
    DEF TypeOK, LeaseInv, LeaseHasOwner, CompletionComesFirst, SubmittedAsFinished, Before, Bound,
        relay, Actors, Records, Phases
<1>1. ASSUME NEW p \in Pids, Appears(p) PROVE LeaseInv'
  BY <1>1 DEF Appears
<1>2. ASSUME NEW p \in Pids, Listens(p) PROVE LeaseInv'
  BY <1>2 DEF Listens, Reachable
<1>3. ASSUME NEW p \in Pids, Dies(p) PROVE LeaseInv'
  BY <1>3 DEF Dies, Leave
<1>4. CASE OtherBinds
  BY <1>4 DEF OtherBinds
<1>5. CASE LeaseEnds
  BY <1>5 DEF LeaseEnds
<1>6. ASSUME NEW c \in Clients, ClientBegins(c) PROVE LeaseInv'
  <2>1. c \in Actors /\ Begins(c) /\ TypeOK
    BY <1>6 DEF Begins
  <2>2. /\ act' \in [Actors -> Records]
        /\ \A b \in Actors \ {c} : act'[b] = act[b]
        /\ act'[c].lost = act[c].lost /\ act'[c].reminder = act[c].reminder
        /\ act'[c].ok = act[c].ok /\ act'[c].delivered = act[c].delivered
        /\ StartsNone(c) \/ StartsOne(c)
    <3> HIDE DEF TypeOK, Actors, Records, Phases, LeaseInv, LeaseHasOwner,
             CompletionComesFirst, SubmittedAsFinished
    <3> QED
      BY <2>1, BeginsIs
  <2>3. act'[c].at \in {"routing", "finishing", "open", "naming", "waiting"}
    BY <2>2 DEF StartsNone, StartsOne
  <2>4. act[c].at = "idle" /\ UNCHANGED relay
    BY <1>6 DEF ClientBegins
  <2> QED
    BY <2>2, <2>3, <2>4
<1>7. ASSUME NEW a \in Actors, NEW next \in {"waiting", "confirming"}, WritePidFile(a, next)
      PROVE LeaseInv'
  BY <1>7 DEF WritePidFile, Goto
<1>8. ASSUME NEW c \in Clients, RelayReady(c) PROVE LeaseInv'
  BY <1>8 DEF RelayReady, Goto
<1>9. ASSUME NEW c \in Clients, RelayNotReady(c) PROVE LeaseInv'
  BY <1>9 DEF RelayNotReady, Goto
<1>10. ASSUME NEW c \in Clients, ResolveContext(c) PROVE LeaseInv'
  BY <1>10 DEF ResolveContext, Resolve, Finally, Goto
<1>11. ASSUME NEW c \in Clients, ClientBinds(c) PROVE LeaseInv'
  <2>1. PICK o \in Outcomes :
          LET bound == o # "lost" /\ lease = None
              next  == IF act[c].reminder THEN "delivering" ELSE "completing"
          IN  /\ IF bound THEN lease' = c /\ noted' = FALSE ELSE UNCHANGED relay
              /\ act' = [act EXCEPT
                   ![c].at = IF bound /\ o = "answered" THEN next ELSE "finishing",
                   ![c].lost = bound /\ o = "unanswered"]
    BY <1>11 DEF ClientBinds
  <2>2. CASE o # "lost" /\ lease = None /\ o = "answered"
    BY <1>11, <2>1, <2>2 DEF ClientBinds
  <2>3. CASE o = "unanswered" /\ lease = None
    BY <1>11, <2>1, <2>3 DEF ClientBinds
  <2>4. CASE ~(o # "lost" /\ lease = None)
    BY <1>11, <2>1, <2>4 DEF ClientBinds
  <2>5. o \in {"lost", "unanswered", "answered"}
    BY DEF Outcomes
  <2> QED
    BY <2>2, <2>3, <2>4, <2>5
<1>12. ASSUME NEW c \in Clients, ClientReportsCompletion(c) PROVE LeaseInv'
  BY <1>12 DEF ClientReportsCompletion, Accepts, Goto
<1>13. ASSUME NEW c \in Clients, ClientDelivers(c) PROVE LeaseInv'
  BY <1>13 DEF ClientDelivers, Accepts
<1>14. ASSUME NEW c \in Clients, ClientRevokes(c) PROVE LeaseInv'
  BY <1>14 DEF ClientRevokes, Outcomes
<1>15. ASSUME NEW c \in Clients, ClientFinishes(c) PROVE LeaseInv'
  BY <1>15 DEF ClientFinishes, Finally, Goto
<1>16. ASSUME NEW c \in Clients, ForegroundExits(c) PROVE LeaseInv'
  BY <1>16 DEF ForegroundExits, Goto
<1>17. ASSUME NEW c \in Clients, StopForegroundChild(c) PROVE LeaseInv'
  BY <1>17 DEF StopForegroundChild, Signal, Leave, Goto
<1>18. ASSUME NEW a \in Actors, StopOwned(a) PROVE LeaseInv'
  BY <1>18 DEF StopOwned, Signal, Leave, Goto
<1>19. ASSUME NEW a \in Actors, ReadPidFile(a) PROVE LeaseInv'
  BY <1>19 DEF ReadPidFile, Goto
<1>20. ASSUME NEW a \in Actors, UnlinkPidFile(a) PROVE LeaseInv'
  BY <1>20 DEF UnlinkPidFile, Goto
<1>21. CASE UiBegins
  <2>1. Ui \in Actors /\ Begins(Ui) /\ TypeOK
    BY <1>21 DEF Begins
  <2>2. /\ act' \in [Actors -> Records]
        /\ \A b \in Actors \ {Ui} : act'[b] = act[b]
        /\ act'[Ui].lost = act[Ui].lost /\ act'[Ui].reminder = act[Ui].reminder
        /\ act'[Ui].ok = act[Ui].ok /\ act'[Ui].delivered = act[Ui].delivered
        /\ StartsNone(Ui) \/ StartsOne(Ui)
    <3> HIDE DEF TypeOK, Actors, Records, Phases, LeaseInv, LeaseHasOwner,
             CompletionComesFirst, SubmittedAsFinished
    <3> QED
      BY <2>1, BeginsIs
  <2>3. UNCHANGED relay
    BY <1>21 DEF UiBegins
  <2> QED
    BY <2>2, <2>3
<1>22. CASE UiConfirms
  BY <1>22 DEF UiConfirms, Goto, Quit, Idle
<1>23. CASE UiWatches
  BY <1>23 DEF UiWatches, Quit, Idle
<1>24. ASSUME NEW c \in Clients, ChooseRoute(c) PROVE LeaseInv'
  BY <1>24 DEF ChooseRoute, Resolve, Finally, Goto
<1>25. CASE UiCloses
  BY <1>25 DEF UiCloses, Goto, Quit, Idle
<1>26. ASSUME NEW a \in Actors, Interrupted(a) PROVE LeaseInv'
  BY <1>26 DEF Interrupted, Signal, Leave, Quit, Idle
<1>27. CASE StopperBegins
  BY <1>27 DEF StopperBegins, ScanFound, NoStop, Scanned
<1>28. CASE StopperDropsStale
  BY <1>28 DEF StopperDropsStale, ScanFound, NoStop, Scanned
<1>29. CASE StopperStops
  BY <1>29 DEF StopperStops, StopOne, DoneWith, NoStop, Signal, Leave
<1>30. CASE StopperRemoves
  BY <1>30 DEF StopperRemoves, NoStop
<1>31. CASE UNCHANGED vars
  BY <1>31 DEF vars, relay
<1>32. ASSUME NEW p \in Pids, LauncherDies(p) PROVE LeaseInv'
  BY <1>32 DEF LauncherDies
<1> QED
  BY <1>1, <1>2, <1>3, <1>4, <1>5, <1>6, <1>7, <1>8, <1>9, <1>10, <1>11, <1>12, <1>13, <1>14,
     <1>15, <1>16, <1>17, <1>18, <1>19, <1>20, <1>21, <1>22, <1>23, <1>24, <1>25, <1>26, <1>27,
     <1>28, <1>29, <1>30, <1>31, <1>32
  DEF Next, Process, ClientStep, UiStep, Stopper, Stops, Actors

(* Every step keeps what is said of the processes the actors started.      *)
LEMMA ProcessStep == TypeOK /\ ProcessInv /\ [Next]_vars => ProcessInv'
<1> SUFFICES ASSUME TypeOK, ProcessInv, [Next]_vars PROVE ProcessInv'
  OBVIOUS
<1> USE LocalRuntimeConstants
    DEF TypeOK, ProcessInv, ProcessHasOwner, OwnServiceStopped, Alive, relay, Actors,
        Records, Phases, Pids
<1>1. ASSUME NEW p \in Pids, Appears(p) PROVE ProcessInv'
  BY <1>1 DEF Appears
<1>2. ASSUME NEW p \in Pids, Listens(p) PROVE ProcessInv'
  <2>1. /\ \A q \in Pids : proc[q] # "none" => proc'[q] # "none"
        /\ \A q \in Pids : q \notin Alive => q \notin Alive'
    <3>1. PICK s \in Serving \cup {"gone"} : proc' = [proc EXCEPT ![p] = s]
      BY <1>2 DEF Listens
    <3>2. proc[p] = "starting"
      BY <1>2 DEF Listens
    <3> HIDE DEF ProcessInv, ProcessHasOwner, OwnServiceStopped, Records, Phases, Pids
    <3> QED
      BY <3>1, <3>2 DEF Serving
  <2> HIDE DEF Alive
  <2> QED
    BY <1>2, <2>1 DEF Listens
<1>3. ASSUME NEW p \in Pids, Dies(p) PROVE ProcessInv'
  BY <1>3 DEF Dies, Leave
<1>4. CASE OtherBinds
  BY <1>4 DEF OtherBinds
<1>5. CASE LeaseEnds
  BY <1>5 DEF LeaseEnds
<1>6. ASSUME NEW c \in Clients, ClientBegins(c) PROVE ProcessInv'
  <2>1. c \in Actors /\ Begins(c) /\ TypeOK
    BY <1>6 DEF Begins
  <2>2. /\ act' \in [Actors -> Records]
        /\ \A b \in Actors \ {c} : act'[b] = act[b]
        /\ act'[c].lost = act[c].lost /\ act'[c].reminder = act[c].reminder
        /\ act'[c].ok = act[c].ok /\ act'[c].delivered = act[c].delivered
        /\ StartsNone(c) \/ StartsOne(c)
    <3> HIDE DEF TypeOK, Actors, Records, Phases, ProcessInv,
             ProcessHasOwner, OwnServiceStopped, Pids, Alive
    <3> QED
      BY <2>1, BeginsIs
  <2>3. act[c].at = "idle" /\ act[c] \in Records /\ UNCHANGED pidFile
    BY <1>6 DEF ClientBegins
  <2>4. CASE StartsNone(c)
    <3> HIDE DEF Records, Phases
    <3> QED
      BY <2>2, <2>3, <2>4 DEF StartsNone
  <2>5. CASE StartsOne(c)
    <3> HIDE DEF Records, Phases
    <3>1. PICK p \in Pids :
            /\ proc[p] = "none" /\ proc' = [proc EXCEPT ![p] = "launching"]
            /\ act'[c].pid = p
            /\ \/ act'[c].at = "naming" /\ act'[c].kind = "bg"
               \/ act'[c].at = "waiting" /\ act'[c].kind = "fg" /\ c # Ui
      BY <2>5 DEF StartsOne
    <3>2. \A b \in Actors \ {c} : act[b].pid # None =>
            act[b].pid # p /\ proc'[act[b].pid] = proc[act[b].pid]
      BY <3>1
    <3>3. ProcessHasOwner'
      BY <2>2, <3>1, <3>2
    <3>4. OwnServiceStopped'
      BY <2>2, <2>3, <3>1, <3>2
    <3> QED
      BY <3>3, <3>4
  <2> QED
    BY <2>2, <2>4, <2>5
<1>7. ASSUME NEW a \in Actors, NEW next \in {"waiting", "confirming"}, WritePidFile(a, next)
      PROVE ProcessInv'
  BY <1>7 DEF WritePidFile, Goto
<1>8. ASSUME NEW c \in Clients, RelayReady(c) PROVE ProcessInv'
  BY <1>8 DEF RelayReady, Goto
<1>9. ASSUME NEW c \in Clients, RelayNotReady(c) PROVE ProcessInv'
  BY <1>9 DEF RelayNotReady, Goto
<1>33. ASSUME NEW c \in Clients, Resolve(c), UNCHANGED <<proc, pidFile>>,
              act[c].at \in {"routing", "choosing"}
       PROVE  ProcessInv'
  <2>1. ASSUME NEW next \in {"finishing", "stopping", "ended"}, Goto(c, next),
               next = "stopping" => act[c].kind = "bg", next = "ended" => act[c].kind # "bg"
        PROVE ProcessInv'
    BY <1>33, <2>1 DEF Goto
  <2>2. ASSUME NEW again \in BOOLEAN,
               act' = [act EXCEPT ![c].at = "binding", ![c].reminder = again]
        PROVE ProcessInv'
    BY <1>33, <2>2
  <2> QED
    BY <1>33, <2>1, <2>2 DEF Resolve, Finally
<1>10. ASSUME NEW c \in Clients, ResolveContext(c) PROVE ProcessInv'
  <2>1. ASSUME NEW next \in {"finishing", "choosing"}, Goto(c, next), UNCHANGED <<proc, pidFile>>
        PROVE ProcessInv'
    BY <2>1 DEF Goto
  <2>2. CASE Resolve(c)
    <3> HIDE DEF ProcessInv, TypeOK, Actors
    <3> QED
      BY <1>10, <1>33, <2>2 DEF ResolveContext
  <2> QED
    BY <1>10, <2>1, <2>2 DEF ResolveContext
<1>11. ASSUME NEW c \in Clients, ClientBinds(c) PROVE ProcessInv'
  <2>1. PICK at \in {"delivering", "completing", "finishing"}, lost \in BOOLEAN :
          act' = [act EXCEPT ![c].at = at, ![c].lost = lost]
    BY <1>11 DEF ClientBinds
  <2>2. UNCHANGED <<proc, pidFile>> /\ act[c].at = "binding"
    BY <1>11 DEF ClientBinds
  <2> QED
    BY <2>1, <2>2
<1>12. ASSUME NEW c \in Clients, ClientReportsCompletion(c) PROVE ProcessInv'
  BY <1>12 DEF ClientReportsCompletion, Accepts, Goto
<1>13. ASSUME NEW c \in Clients, ClientDelivers(c) PROVE ProcessInv'
  BY SMTT(30), <1>13 DEF ClientDelivers, Accepts
<1>14. ASSUME NEW c \in Clients, ClientRevokes(c) PROVE ProcessInv'
  BY <1>14 DEF ClientRevokes, Outcomes
<1>15. ASSUME NEW c \in Clients, ClientFinishes(c) PROVE ProcessInv'
  BY <1>15 DEF ClientFinishes, Finally, Goto
<1>16. ASSUME NEW c \in Clients, ForegroundExits(c) PROVE ProcessInv'
  BY <1>16 DEF ForegroundExits, Goto
<1>17. ASSUME NEW c \in Clients, StopForegroundChild(c) PROVE ProcessInv'
  <2>1. act[c].at = "stoppingChild" /\ act[c].kind = "fg" /\ act[c].pid \in Pids /\ UNCHANGED pidFile
    BY <1>17 DEF StopForegroundChild
  <2>2. CASE Signal(act[c].pid) /\ UNCHANGED act
    <3>1. /\ \A q \in Pids : proc[q] # "none" => proc'[q] # "none"
          /\ \A q \in Pids : q \notin Alive => q \notin Alive'
      <4> HIDE DEF TypeOK, Actors, Records, Phases, Pids, Alive, ProcessInv, ProcessHasOwner,
             OwnServiceStopped
      <4> QED
        BY <2>1, <2>2, LeaveIs
    <3> HIDE DEF Phases, Alive
    <3> QED
      BY <2>1, <2>2, <3>1
  <2>3. CASE Goto(c, "ended") /\ UNCHANGED proc
    BY <2>1, <2>3 DEF Goto
  <2> QED
    BY <1>17, <2>2, <2>3 DEF StopForegroundChild
<1>18. ASSUME NEW a \in Actors, StopOwned(a) PROVE ProcessInv'
  <2>1. act[a].at = "stopping" /\ act[a].kind = "bg" /\ act[a].pid \in Pids /\ UNCHANGED pidFile
    BY <1>18 DEF StopOwned
  <2>2. ASSUME Signal(act[a].pid) \/ (act[a].pid \in Alive /\ Leave(act[a].pid, "gone"))
        PROVE  /\ \A q \in Pids : proc[q] # "none" => proc'[q] # "none"
               /\ \A q \in Pids : q \notin Alive => q \notin Alive'
    <3> HIDE DEF TypeOK, Actors, Records, Phases, Pids, Alive, ProcessInv, ProcessHasOwner,
             OwnServiceStopped
    <3> QED
      BY <2>1, <2>2, LeaveIs
  <2>3. CASE Signal(act[a].pid) /\ UNCHANGED act
    <3> HIDE DEF Phases, Alive
    <3> QED
      BY <2>1, <2>2, <2>3
  <2>4. CASE proc[act[a].pid] = "stopping" /\ Leave(act[a].pid, "gone") /\ Goto(a, "checkingPidFile")
    <3>1. act[a].pid \in Alive /\ act[a].pid \notin Alive'
      BY <2>1, <2>4 DEF Leave
    <3> HIDE DEF Phases, Alive
    <3> QED
      BY <2>1, <2>2, <2>4, <3>1 DEF Goto
  <2>5. CASE act[a].pid \notin Alive /\ Goto(a, "checkingPidFile") /\ UNCHANGED proc
    BY <2>1, <2>5 DEF Goto
  <2> QED
    BY <1>18, <2>3, <2>4, <2>5 DEF StopOwned
<1>19. ASSUME NEW a \in Actors, ReadPidFile(a) PROVE ProcessInv'
  BY <1>19 DEF ReadPidFile, Goto
<1>20. ASSUME NEW a \in Actors, UnlinkPidFile(a) PROVE ProcessInv'
  BY <1>20 DEF UnlinkPidFile, Goto
<1>21. CASE UiBegins
  <2>1. Ui \in Actors /\ Begins(Ui) /\ TypeOK
    BY <1>21 DEF Begins
  <2>2. /\ act' \in [Actors -> Records]
        /\ \A b \in Actors \ {Ui} : act'[b] = act[b]
        /\ act'[Ui].lost = act[Ui].lost /\ act'[Ui].reminder = act[Ui].reminder
        /\ act'[Ui].ok = act[Ui].ok /\ act'[Ui].delivered = act[Ui].delivered
        /\ StartsNone(Ui) \/ StartsOne(Ui)
    <3> HIDE DEF TypeOK, Actors, Records, Phases, ProcessInv,
             ProcessHasOwner, OwnServiceStopped, Pids, Alive
    <3> QED
      BY <2>1, BeginsIs
  <2>3. act[Ui].at = "idle" /\ act[Ui] \in Records /\ UNCHANGED pidFile
    BY <1>21 DEF UiBegins
  <2>4. CASE StartsNone(Ui)
    <3> HIDE DEF Records, Phases
    <3> QED
      BY <2>2, <2>3, <2>4 DEF StartsNone
  <2>5. CASE StartsOne(Ui)
    <3> HIDE DEF Records, Phases
    <3>1. PICK p \in Pids :
            /\ proc[p] = "none" /\ proc' = [proc EXCEPT ![p] = "launching"]
            /\ act'[Ui].pid = p
            /\ \/ act'[Ui].at = "naming" /\ act'[Ui].kind = "bg"
               \/ act'[Ui].at = "waiting" /\ act'[Ui].kind = "fg" /\ Ui # Ui
      BY <2>5 DEF StartsOne
    <3>2. \A b \in Actors \ {Ui} : act[b].pid # None =>
            act[b].pid # p /\ proc'[act[b].pid] = proc[act[b].pid]
      BY <3>1
    <3>3. ProcessHasOwner'
      BY <2>2, <3>1, <3>2
    <3>4. OwnServiceStopped'
      BY <2>2, <2>3, <3>1, <3>2
    <3> QED
      BY <3>3, <3>4
  <2> QED
    BY <2>2, <2>4, <2>5
<1>22. CASE UiConfirms
  BY <1>22 DEF UiConfirms, Goto, Quit, Idle
<1>23. CASE UiWatches
  BY <1>23 DEF UiWatches, Quit, Idle
<1>24. ASSUME NEW c \in Clients, ChooseRoute(c) PROVE ProcessInv'
  <2> HIDE DEF ProcessInv, TypeOK, Actors
  <2> QED
    BY <1>24, <1>33 DEF ChooseRoute
<1>25. CASE UiCloses
  <2>1. UNCHANGED <<proc, pidFile>> /\ act[Ui].at = "open" /\ Ui \in Actors
    BY <1>25 DEF UiCloses
  <2>2. CASE Quit(Ui)
    <3> HIDE DEF Phases, Alive
    <3>1. Alive' = Alive
      BY <2>1 DEF Alive
    <3> QED
      BY <2>1, <2>2, <3>1 DEF Quit, Idle
  <2>3. CASE act[Ui].pid # None /\ Goto(Ui, "stopping")
    BY <2>1, <2>3 DEF Goto
  <2> QED
    BY <1>25, <2>2, <2>3 DEF UiCloses
<1>26. ASSUME NEW a \in Actors, Interrupted(a) PROVE ProcessInv'
  <2>1. /\ \A q \in Pids : proc[q] # "none" => proc'[q] # "none"
        /\ \A q \in Pids : q \notin Alive => q \notin Alive'
    <3>1. Signal(act[a].pid) \/ UNCHANGED proc
      BY <1>26 DEF Interrupted
    <3>2. CASE act[a].pid \in Alive /\ Signal(act[a].pid)
      <4>1. act[a].pid \in Pids
        BY <3>2
      <4> HIDE DEF TypeOK, Actors, Records, Phases, Pids, Alive, ProcessInv,
               ProcessHasOwner, OwnServiceStopped
      <4> QED
        BY <3>2, <4>1, LeaveIs
    <3>3. CASE act[a].pid \notin Alive /\ Signal(act[a].pid)
      BY <3>3 DEF Signal
    <3>4. CASE UNCHANGED proc
      BY <3>4
    <3> QED
      BY <3>1, <3>2, <3>3, <3>4
  <2>2. UNCHANGED pidFile /\ (UNCHANGED act \/ Quit(a))
    BY <1>26 DEF Interrupted
  <2>3. CASE UNCHANGED act
    <3> HIDE DEF Phases, Alive
    <3> QED
      BY <2>1, <2>2, <2>3
  <2>4. CASE Quit(a)
    <3> HIDE DEF Phases, Alive
    <3> QED
      BY <2>1, <2>2, <2>4 DEF Quit, Idle
  <2> QED
    BY <2>2, <2>3, <2>4
<1>27. CASE StopperBegins
  BY <1>27 DEF StopperBegins, ScanFound, NoStop, Scanned
<1>28. CASE StopperDropsStale
  BY <1>28 DEF StopperDropsStale, ScanFound, NoStop, Scanned
<1>29. CASE StopperStops
  BY <1>29 DEF StopperStops, StopOne, DoneWith, NoStop, Signal, Leave
<1>30. CASE StopperRemoves
  BY <1>30 DEF StopperRemoves, NoStop
<1>31. CASE UNCHANGED vars
  BY <1>31 DEF vars, relay
<1>32. ASSUME NEW p \in Pids, LauncherDies(p) PROVE ProcessInv'
  BY <1>32 DEF LauncherDies
<1> QED
  BY <1>1, <1>2, <1>3, <1>4, <1>5, <1>6, <1>7, <1>8, <1>9, <1>10, <1>11, <1>12, <1>13, <1>14,
     <1>15, <1>16, <1>17, <1>18, <1>19, <1>20, <1>21, <1>22, <1>23, <1>24, <1>25, <1>26, <1>27,
     <1>28, <1>29, <1>30, <1>31, <1>32
  DEF Next, Process, ClientStep, UiStep, Stopper, Stops, Actors

-----------------------------------------------------------------------------
(* The inductive invariant holds in every reachable state.                 *)
THEOREM Invariant == Spec => []IInv
<1>1. IInv /\ [Next]_vars => IInv'
  BY TypeStep, LeaseStep, ProcessStep DEF IInv
<1> QED
  BY InitInv, <1>1, PTL DEF Spec

(* Every variable keeps its type; in particular the pid file never names   *)
(* anything but a process some client or the UI spawned.                   *)
THEOREM TypeCorrect == Spec => []TypeOK
  BY Invariant, PTL DEF IInv

(* The finally block of runLocalHandoff and the shutdown of ui.ts after a  *)
(* signal stop what the client or the UI started, for any number of them   *)
(* at once.  Of a UI that saw its launcher gone it says nothing: that one  *)
(* quits and leaves the pid file, and what lives of the group, behind.     *)
THEOREM OwnedIsStopped == Spec => []OwnServiceStopped
  BY Invariant, PTL DEF IInv, ProcessInv

(* runLocalHandoff reports success only of a bundle that was relayed after *)
(* its completion, whatever crashed or got lost meanwhile.                 *)
THEOREM SubmittedIsFinished == Spec => []SubmittedAsFinished
  BY Invariant, PTL DEF IInv, LeaseInv

(* A client that ended holds the session's lease only if an answer or the  *)
(* revocation was lost (bestEffortRevokeLease).                            *)
THEOREM LeaseIsReleased == Spec => []LeaseReleased
<1>1. IInv => LeaseReleased
  BY DEF IInv, LeaseInv, LeaseHasOwner, Bound, LeaseReleased
<1> QED
  BY <1>1, Invariant, PTL
=============================================================================
