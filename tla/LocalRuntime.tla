---------------------------- MODULE LocalRuntime ----------------------------
(***************************************************************************)
(* Who starts and who stops the service on the developer's machine: the    *)
(* one-shot handoff client (local-cli.ts, runLocalHandoff), the browser    *)
(* UI (ui.ts) and dev:stop (local-cli.ts, stopCodeFoxProcess), with the    *)
(* processes they spawn (dev-runtime.ts) and what they share: the relay's  *)
(* port, the lease of the session and the pid file.                        *)
(*                                                                         *)
(* A pid stands for the process group `npm run dev` makes: the launcher    *)
(* npm, whose pid it is, and the service below it, which may outlive npm.  *)
(* All clients hand off the same session, so the relay holds at most one   *)
(* live lease; it is named by its client.  Linux: a process is found by    *)
(* its command line, which the launcher npm does not have                  *)
(* (isLikelyCodeFoxProcess and findCodeFoxPidsByConfig agree on that, so   *)
(* the pid file never makes a process count as running).  What an accepted *)
(* handoff does to the chat is Handoff, what leases do in the relay        *)
(* ExternalRelay.                                                          *)
(***************************************************************************)
EXTENDS Integers, FiniteSets

CONSTANTS
  Clients,   \* runs of handoff:cli
  Others,    \* other relay clients that bind for the same session
  Ui,        \* the run of the browser UI
  MaxPids,   \* bound: processes spawned
  None       \* undefined

ASSUME LocalRuntimeConstants ==
  /\ MaxPids \in Nat \ {0}
  /\ Ui \notin Clients
  /\ Others \cap Clients = {}
  /\ None \notin Clients \cup Others \cup {Ui} \cup 1..MaxPids

Actors == Clients \cup {Ui}
Pids   == 1..MaxPids

VARIABLES
  proc,       \* life of each process group
  pidFile,    \* what codefox.dev.pid names
  lease,      \* client whose lease is live in the serving process
  noted,      \* the completion of that lease's work was relayed
  act,        \* where each client and the UI is, and what it has in hand
  stopper     \* where dev:stop is, the processes it has still to stop, stoppedAny

relay == <<lease, noted>>
vars == <<proc, pidFile, relay, act, stopper>>

Phases ==
  {"idle", "naming", "waiting",              \* started a process, if need be
   "routing", "choosing",                    \* the prompt for a route
   "binding", "completing", "delivering", "revoking",      \* one request each
   "finishing", "stoppingChild", "attached",               \* a foreground process
   "stopping", "checkingPidFile", "unlinking",             \* a process of its own
   "confirming", "open",                     \* the UI
   "ended",
   "quit"}                                   \* over, whatever it started left as it is
Records == [at: Phases, pid: Pids \cup {None}, kind: {"none", "fg", "bg"}, ok: BOOLEAN,
            lost: BOOLEAN, reminder: BOOLEAN, delivered: {"no", "alone", "complete"}]

Idle == [at |-> "idle", pid |-> None, kind |-> "none", ok |-> FALSE,
         lost |-> FALSE, reminder |-> FALSE, delivered |-> "no"]

NoStop == [at |-> "idle", left |-> {}, any |-> FALSE]

Init ==
  /\ proc = [p \in Pids |-> "none"]
  /\ pidFile = None
  /\ lease = None
  /\ noted = FALSE
  /\ act = [a \in Actors |-> Idle]
  /\ stopper = NoStop

-----------------------------------------------------------------------------
(* Processes. *)

Serving == {"serving", "orphaned"}   \* orphaned: npm is gone, the service is not
Alive   == {p \in Pids : proc[p] \notin {"none", "gone"}}
Scanned == {p \in Pids : proc[p] \in Serving \cup {"starting", "stopping"}}
Reachable == \E p \in Pids : proc[p] \in Serving

\* What isProcessAlive may find of npm: it is not followed while the service comes up
\* or goes down, and may be gone by then.
MayLive(p) == proc[p] \in {"launching", "starting", "serving", "stopping"}
MayLack(p) == proc[p] \in {"none", "starting", "stopping", "orphaned", "gone"}

\* p leaves the state it is in; what the relay knows dies with its server.
Leave(p, to) ==
  /\ proc' = [proc EXCEPT ![p] = to]
  /\ IF proc[p] \in Serving THEN lease' = None /\ noted' = FALSE
                             ELSE UNCHANGED relay

\* A signal to p, if it is there to receive one.
Signal(p) == IF p \in Alive THEN Leave(p, "stopping") ELSE UNCHANGED <<proc, relay>>

Appears(p) ==
  /\ proc[p] = "launching"
  /\ proc' = [proc EXCEPT ![p] = "starting"]
  /\ UNCHANGED <<pidFile, relay, act, stopper>>

\* The relay listens, or the port is taken: start() throws, nothing is running yet.
Listens(p) ==
  /\ proc[p] = "starting"
  /\ IF Reachable THEN proc' = [proc EXCEPT ![p] = "gone"]
                  ELSE \E s \in Serving : proc' = [proc EXCEPT ![p] = s]
  /\ UNCHANGED <<pidFile, relay, act, stopper>>

\* npm is killed and does not take the service along.
LauncherDies(p) ==
  /\ proc[p] = "serving"
  /\ proc' = [proc EXCEPT ![p] = "orphaned"]
  /\ UNCHANGED <<pidFile, relay, act, stopper>>

\* Crash, /stop, or the end of a stop.
Dies(p) ==
  /\ p \in Alive
  /\ Leave(p, "gone")
  /\ UNCHANGED <<pidFile, act, stopper>>

\* Another client takes the session; it gives it back by LeaseEnds at the latest.
OtherBinds ==
  /\ Reachable
  /\ lease = None
  /\ lease' \in Others
  /\ UNCHANGED <<proc, pidFile, noted, act, stopper>>

\* A lease expires, or another client revokes its own.
LeaseEnds ==
  /\ lease # None
  /\ lease' = None
  /\ noted' = FALSE
  /\ UNCHANGED <<proc, pidFile, act, stopper>>

\* startCodeFoxProcess: a with a new process of this kind, at its next step.
Spawn(a, kind, next) ==
  \E p \in Pids :
    /\ proc[p] = "none"
    /\ \A q \in 1..(p - 1) : proc[q] # "none"
    /\ proc' = [proc EXCEPT ![p] = "launching"]
    /\ act' = [act EXCEPT ![a].at = next, ![a].pid = p, ![a].kind = kind]

-----------------------------------------------------------------------------
(* The handoff client. *)

Goto(a, next) == act' = [act EXCEPT ![a].at = next]
Quit(a) == act' = [act EXCEPT ![a] = [Idle EXCEPT !.at = "quit"]]

\* What becomes of an HTTP request: one that is lost and one whose answer is lost look
\* the same to the client (status 0).
Outcomes == {"lost", "unanswered", "answered"} \ (IF Reachable THEN {} ELSE {"unanswered", "answered"})

\* A first request without an answer: start nothing, or one of the two start modes,
\* which a person may be asked for.
ClientBegins(c) ==
  /\ act[c].at = "idle"
  /\ \/ Reachable /\ Goto(c, "routing") /\ UNCHANGED proc
     \/ Goto(c, "finishing") /\ UNCHANGED proc
     \/ Spawn(c, "fg", "waiting")
     \/ Spawn(c, "bg", "naming")
  /\ UNCHANGED <<pidFile, relay, stopper>>

(* Mutant: the launcher's own name goes into the pid file, not its child's. *)
WritesOwnPid(a, next) ==
  /\ act[a].at = "naming"
  /\ pidFile' = a
  /\ Goto(a, next)
  /\ UNCHANGED <<proc, relay, stopper>>

WritePidFile(a, next) ==
  /\ act[a].at = "naming"
  /\ pidFile' = act[a].pid
  /\ Goto(a, next)
  /\ UNCHANGED <<proc, relay, stopper>>

RelayReady(c) ==
  /\ act[c].at = "waiting"
  /\ Reachable
  /\ Goto(c, "routing")
  /\ UNCHANGED <<proc, pidFile, relay, stopper>>

(* Mutant: the wait for the relay has no deadline. *)
WaitsForEver(c) == FALSE

RelayNotReady(c) ==
  /\ act[c].at = "waiting"
  /\ Goto(c, "finishing")
  /\ UNCHANGED <<proc, pidFile, relay, stopper>>

(* Mutant: the background process is stopped after a submitted handoff only. *)
StopsWhenSubmitted(c) == IF act[c].kind = "bg" /\ act[c].ok THEN "stopping" ELSE "ended"

\* The finally block of runLocalHandoff.
Finally(c) == IF act[c].kind = "bg" THEN "stopping" ELSE "ended"

\* The target among the routes, the specification and the equivalence of the handoff
\* the file holds; saving a bootstrapped specification may throw.
Resolve(c) ==
  \/ Goto(c, "finishing")
  \/ \E again \in BOOLEAN : act' = [act EXCEPT ![c].at = "binding", ![c].reminder = again]
  \/ Goto(c, Finally(c))

\* The routes may not come; with several of them, at a terminal, a person is asked.
ResolveContext(c) ==
  /\ act[c].at = "routing"
  /\ \/ Goto(c, "finishing")
     \/ Reachable /\ (Goto(c, "choosing") \/ Resolve(c))
  /\ UNCHANGED <<proc, pidFile, relay, stopper>>

\* prompt.question has no deadline; Ctrl-C at it throws.
ChooseRoute(c) ==
  /\ act[c].at = "choosing"
  /\ Resolve(c)
  /\ UNCHANGED <<proc, pidFile, relay, stopper>>

ClientBinds(c) ==
  /\ act[c].at = "binding"
  /\ \E o \in Outcomes :
       LET bound == o # "lost" /\ lease = None
           next  == IF act[c].reminder THEN "delivering" ELSE "completing"
       IN  /\ IF bound THEN lease' = c /\ noted' = FALSE ELSE UNCHANGED relay
           /\ act' = [act EXCEPT
                ![c].at = IF bound /\ o = "answered" THEN next ELSE "finishing",
                ![c].lost = bound /\ o = "unanswered"]
  /\ UNCHANGED <<proc, pidFile, stopper>>

(* Mutant: a report is accepted under a lease the relay does not know. *)
AcceptsUnknownLease(c) == TRUE

\* The relay accepts a report under a lease it knows and relays it to a routed chat.
Accepts(c) == lease = c

ClientReportsCompletion(c) ==
  /\ act[c].at = "completing"
  /\ \E o \in Outcomes, routed \in BOOLEAN :
       LET relayed == o # "lost" /\ Accepts(c) /\ routed
       IN  /\ noted' = (noted \/ relayed)
           /\ Goto(c, IF relayed /\ o = "answered" THEN "delivering" ELSE "revoking")
  /\ UNCHANGED <<proc, pidFile, lease, stopper>>

ClientDelivers(c) ==
  /\ act[c].at = "delivering"
  /\ \E o \in Outcomes, routed \in BOOLEAN :
       LET relayed == o # "lost" /\ Accepts(c) /\ routed
       IN  act' = [act EXCEPT
             ![c].at = "revoking",
             ![c].ok = relayed /\ o = "answered",
             ![c].delivered = IF relayed /\ o = "answered"
                                THEN IF noted THEN "complete" ELSE "alone" ELSE "no"]
  /\ UNCHANGED <<proc, pidFile, relay, stopper>>

(* Mutant: the lease is revoked after a submitted handoff only. *)
RevokesWhenSubmitted(c) ==
  /\ act[c].at = "revoking"
  /\ IF lease = c /\ act[c].ok THEN lease' = None /\ noted' = FALSE ELSE UNCHANGED relay
  /\ Goto(c, "finishing")
  /\ UNCHANGED <<proc, pidFile, stopper>>

\* bestEffortRevokeLease: its answer is not looked at.
ClientRevokes(c) ==
  /\ act[c].at = "revoking"
  /\ \E o \in Outcomes :
       /\ IF o # "lost" /\ lease = c THEN lease' = None /\ noted' = FALSE ELSE UNCHANGED relay
       /\ act' = [act EXCEPT ![c].at = "finishing", ![c].lost = (o = "lost")]
  /\ UNCHANGED <<proc, pidFile, stopper>>

\* finalizeForegroundRelayStart, then the finally block.
ClientFinishes(c) ==
  /\ act[c].at = "finishing"
  /\ IF act[c].kind # "fg" THEN Goto(c, Finally(c))
     ELSE Goto(c, IF act[c].ok THEN "attached" ELSE "stoppingChild")
  /\ UNCHANGED <<proc, pidFile, relay, stopper>>

\* The child is npm.
ForegroundExits(c) ==
  /\ act[c].at \in {"stoppingChild", "attached"}
  /\ MayLack(act[c].pid)
  /\ Goto(c, "ended")
  /\ UNCHANGED <<proc, pidFile, relay, stopper>>

\* SIGINT, 3 s, SIGTERM, 2 s: the signals go to npm alone, which may not pass them
\* on, and the client does not wait longer.
StopForegroundChild(c) ==
  /\ act[c].at = "stoppingChild"
  /\ \/ MayLive(act[c].pid) /\ Signal(act[c].pid) /\ UNCHANGED act
     \/ Goto(c, "ended") /\ UNCHANGED <<proc, relay>>
  /\ UNCHANGED <<pidFile, stopper>>

-----------------------------------------------------------------------------
(* stopOwnedCodeFoxProcess, for a client's background process and the UI's. *)

\* SIGTERM to the group, 5 s to be gone, SIGKILL.
StopOwned(a) ==
  /\ act[a].at = "stopping"
  /\ \/ /\ act[a].pid \in Alive
        /\ Signal(act[a].pid)
        /\ UNCHANGED act
     \/ /\ proc[act[a].pid] = "stopping"
        /\ Leave(act[a].pid, "gone")
        /\ Goto(a, "checkingPidFile")
     \/ /\ act[a].pid \notin Alive
        /\ Goto(a, "checkingPidFile")
        /\ UNCHANGED <<proc, relay>>
  /\ UNCHANGED <<pidFile, stopper>>

ReadPidFile(a) ==
  /\ act[a].at = "checkingPidFile"
  /\ Goto(a, IF pidFile = act[a].pid THEN "unlinking" ELSE "ended")
  /\ UNCHANGED <<proc, pidFile, relay, stopper>>

UnlinkPidFile(a) ==
  /\ act[a].at = "unlinking"
  /\ pidFile' = None
  /\ Goto(a, "ended")
  /\ UNCHANGED <<proc, relay, stopper>>

-----------------------------------------------------------------------------
(* The browser UI. *)

UiBegins ==
  /\ act[Ui].at = "idle"
  /\ IF Scanned # {} THEN Goto(Ui, "open") /\ UNCHANGED proc ELSE Spawn(Ui, "bg", "naming")
  /\ UNCHANGED <<pidFile, relay, stopper>>

\* waitForRunningProcess is content with any process of this configuration; without
\* one ensureCodeFoxRunning throws and the UI exits, whatever became of its process.
UiConfirms ==
  /\ act[Ui].at = "confirming"
  /\ \/ Scanned # {} /\ Goto(Ui, "open")
     \/ Quit(Ui)
  /\ UNCHANGED <<proc, pidFile, relay, stopper>>

(* Mutant: no timer watches the UI's process. *)
NobodyWatches == FALSE

\* The timer sees that the launcher is gone: the UI gives up its process, with what
\* lives of the group and with the pid file that names it, and exits within 1.5 s.
UiWatches ==
  /\ act[Ui].at = "open"
  /\ act[Ui].pid # None
  /\ MayLack(act[Ui].pid)
  /\ Quit(Ui)
  /\ UNCHANGED <<proc, pidFile, relay, stopper>>

\* A signal: the sockets are closed, after 1.5 s at the latest destroyed.
UiCloses ==
  /\ act[Ui].at = "open"
  /\ IF act[Ui].pid # None THEN Goto(Ui, "stopping") ELSE Quit(Ui)
  /\ UNCHANGED <<proc, pidFile, relay, stopper>>

-----------------------------------------------------------------------------
(* Ctrl-C: at a client its finally block does not run; a foreground process *)
(* in the same terminal gets the signal too.  The UI has no handler until  *)
(* it serves.                                                              *)

Interrupted(a) ==
  /\ act[a].at \notin {"idle", "ended", "quit"}
  /\ a = Ui => act[a].at \in {"naming", "confirming"}
  /\ IF act[a].at = "attached" THEN UNCHANGED act ELSE Quit(a)
  /\ IF act[a].kind = "fg" THEN Signal(act[a].pid) ELSE UNCHANGED <<proc, relay>>
  /\ UNCHANGED <<pidFile, stopper>>

-----------------------------------------------------------------------------
(* dev:stop. *)

ScanFound ==
  [at |-> IF Scanned = {} THEN "idle" ELSE "stopping", left |-> Scanned, any |-> FALSE]

StopperBegins ==
  /\ stopper.at = "idle"
  /\ \/ pidFile # None /\ MayLack(pidFile) /\ stopper' = [stopper EXCEPT !.at = "stale"]
     \/ (pidFile # None => MayLive(pidFile)) /\ stopper' = ScanFound
  /\ UNCHANGED <<proc, pidFile, relay, act>>

StopperDropsStale ==
  /\ stopper.at = "stale"
  /\ pidFile' = None
  /\ stopper' = ScanFound
  /\ UNCHANGED <<proc, relay, act>>

\* The last process is dealt with: without a stopped one the command fails at once.
DoneWith(p, ok) ==
  LET left == stopper.left \ {p}
      any  == stopper.any \/ ok
  IN  stopper' = IF left # {} THEN [at |-> "stopping", left |-> left, any |-> any]
                 ELSE IF any THEN [NoStop EXCEPT !.at = "removing"] ELSE NoStop

\* stopProcessByPid: SIGTERM, 5 s to be gone, SIGKILL, 2 s; it fails if the signal is
\* refused or the process is there still.
StopOne(p) ==
  \/ p \in Alive /\ Signal(p) /\ UNCHANGED stopper
  \/ proc[p] = "stopping" /\ Leave(p, "gone") /\ DoneWith(p, TRUE)
  \/ p \notin Alive /\ UNCHANGED <<proc, relay>> /\ DoneWith(p, TRUE)
  \/ p \in Alive /\ UNCHANGED <<proc, relay>> /\ DoneWith(p, FALSE)

\* In the order of the pids.
StopperStops ==
  /\ stopper.at = "stopping"
  /\ \E p \in stopper.left : (\A q \in stopper.left : p <= q) /\ StopOne(p)
  /\ UNCHANGED <<pidFile, act>>

StopperRemoves ==
  /\ stopper.at = "removing"
  /\ pidFile' = None
  /\ stopper' = NoStop
  /\ UNCHANGED <<proc, relay, act>>

-----------------------------------------------------------------------------
Stops(a) == StopOwned(a) \/ ReadPidFile(a) \/ UnlinkPidFile(a)

ClientStep(c) ==
  \/ WritePidFile(c, "waiting") \/ RelayReady(c) \/ RelayNotReady(c)
  \/ ResolveContext(c) \/ ClientBinds(c) \/ ClientReportsCompletion(c)
  \/ ClientDelivers(c) \/ ClientRevokes(c) \/ ClientFinishes(c)
  \/ ForegroundExits(c) \/ StopForegroundChild(c) \/ Stops(c)

UiStep == WritePidFile(Ui, "confirming") \/ UiConfirms \/ UiWatches \/ Stops(Ui)

Process(p) == Appears(p) \/ Listens(p) \/ Dies(p) \/ LauncherDies(p)

Stopper ==
  StopperBegins \/ StopperDropsStale \/ StopperStops \/ StopperRemoves

Next ==
  \/ \E p \in Pids : Process(p)
  \/ OtherBinds \/ LeaseEnds
  \/ \E c \in Clients : ClientBegins(c) \/ ChooseRoute(c) \/ ClientStep(c)
  \/ UiBegins \/ UiCloses \/ UiStep
  \/ \E a \in Actors : Interrupted(a)
  \/ Stopper

Spec == Init /\ [][Next]_vars

\* A request, a timer and a wait for a process come to an end in a running program;
\* nothing is assumed of the services, of dev:stop or of the people at the terminals,
\* who may leave the prompts of ClientBegins and ChooseRoute unanswered.
FairSpec ==
  /\ Spec
  /\ \A c \in Clients : WF_vars(ClientStep(c))
  /\ WF_vars(UiStep)

-----------------------------------------------------------------------------
(* Properties. *)

TypeOK ==
  /\ proc \in [Pids -> {"none", "launching", "starting", "serving", "orphaned", "stopping",
                      "gone"}]
  /\ pidFile \in Pids \cup {None}
  /\ lease \in Clients \cup Others \cup {None}
  /\ noted \in BOOLEAN
  /\ act \in [Actors -> Records]
  /\ stopper \in [at: {"idle", "stale", "stopping", "removing"}, left: SUBSET Pids,
                 any: BOOLEAN]

\* A client that ends by itself, on whichever path (unreachable relay, refused bind,
\* undelivered report, an error thrown, a submitted handoff too), leaves no background
\* service of its own behind and no pid file that names it; nor does a UI closed by a
\* signal, its launcher alive or not.  Not so the UI that saw its launcher gone, which
\* quits.
OwnServiceStopped ==
  \A a \in Actors :
    act[a].at = "ended" /\ act[a].kind = "bg" /\ act[a].pid # None =>
      act[a].pid \notin Alive /\ pidFile # act[a].pid

\* "Handoff submitted successfully" is only said of a bundle that reached the chat
\* and, unless it is the reminder of an earlier one, after the completion it
\* continues was relayed under the same lease: restarts of the service and lost
\* answers in between included.
SubmittedAsFinished ==
  \A c \in Clients :
    act[c].ok => act[c].delivered \in (IF act[c].reminder THEN {"alone", "complete"} ELSE {"complete"})

\* The session is free for the next handoff when a client has ended, except when the
\* answer to the bind or the request to revoke was lost (or the client was interrupted).
LeaseReleased ==
  \A c \in Clients : act[c].at = "ended" /\ lease = c => act[c].lost

\* Every client that began ends, is interrupted, stays attached to the service it started,
\* or asks a person; once answered it ends as well.
ClientsEnd ==
  \A c \in Clients :
    act[c].at # "idle" ~> act[c].at \in {"choosing", "ended", "quit", "attached"}

\* A UI whose launcher is gone does not go on without it.
UiFollowsItsService ==
  (act[Ui].at = "open" /\ act[Ui].pid # None /\ proc[act[Ui].pid] \in {"orphaned", "gone"})
    ~> act[Ui].at \in {"ended", "quit"}

\* Contradicted by the code.  "Started CodeFox in background (pid ...). Stop it with:
\* npm run dev:stop" (local-cli.ts); "Use --start-in-background only when you explicitly
\* want a detached process" (README.md): after a submitted handoff the service in the
\* background is told to stop by dev:stop, not by the client that started it.
BackgroundOutlivesClient ==
  [][\A c \in Clients :
       act[c].ok /\ act[c].kind = "bg" /\ act[c].pid # None /\ proc[act[c].pid] \in Serving
         /\ proc'[act[c].pid] = "stopping" => stopper.at = "stopping"]_vars
=============================================================================
