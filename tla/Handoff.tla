------------------------------ MODULE Handoff ------------------------------
(***************************************************************************)
(* A task changes hands: an external Codex client delivers a handoff       *)
(* bundle to ONE chat, the user accepts it, the client reports completion, *)
(* and CodeFox continues the work that is left                             *)
(* (src/core/controller.ts, with the relay and the idempotency check).     *)
(*                                                                         *)
(* As in RunControl an action is the code from one await to the next.  The *)
(* operations that may be in the middle of such a stretch are the command  *)
(* channels and the HTTP posts of the clients; each has the record op[o].  *)
(* Leases are those of ExternalRelay: one is live at a time for the chat's *)
(* session, and events need a live one (SessionLease).  The selected repo, its            *)
(* registration and the active request are RunControl's: a check of them   *)
(* goes either way here.                                                   *)
(***************************************************************************)
EXTENDS SpecWorkflow, FiniteSets

CONSTANTS
  Channels,    \* sources of commands: Telegram, local command queue
  Posts,       \* POST /handoff and /event requests of the clients (bound)
  Bundles,     \* bundles, source session included, no two of them equivalent
  WorkItems,   \* the remainingWork of a bundle is 1..WorkItems (bound)
  SpecRef,     \* the version that the bundles' specRevisionRef names
  MaxOpen,     \* bound: requests of the clients under way at a time
  MaxLeases,   \* bound: binds
  MaxVersion,  \* bound: clarifications
  None         \* undefined

ASSUME BoundsAreCounts ==
  {WorkItems, SpecRef, MaxOpen, MaxLeases, MaxVersion} \subseteq Nat \ {0}
ASSUME ActorsAreDistinct ==
  Channels \cap Posts = {} /\ IsFiniteSet(Posts) /\ None \notin Bundles

Leases   == 1..MaxLeases
Items    == 1..WorkItems
Actors   == Channels \cup Posts
(* A post is ingested once at most; the states that come of it are numbered. *)
Receipts == 1..Cardinality(Posts)

VARIABLES
  workflow,     \* specDrafts.get(chatId), NoWorkflow without one
  handoff,      \* externalHandoffs.get(chatId), or None
  lease,        \* the live lease of the chat's session, 0 without one
  lapsed,       \* the lease that expired and is still in the lease table, or 0
  granted,      \* leases handed out so far
  completions,  \* keys of relay.completions
  op,           \* what each channel and post is in the middle of
  \* History, read by properties only:
  receipts,     \* handoff states that ingests have written so far
  accepted,     \* bundles the user accepted
  delivered,    \* <<lease, bundle>>: what ingests took in
  finished,     \* bundles whose client reported completion, or sent them again
                \* after all their work was continued
  reports,      \* completions noted for each receipt
  begun,        \* automatic continuations begun for each receipt
  started       \* <<bundle, item>>: work handed to executeOrEnqueue

relayVars == <<lease, lapsed, granted, completions>>
counters  == <<receipts, reports, begun>>
history   == <<counters, accepted, delivered, finished, started>>
vars == <<workflow, handoff, relayVars, op, history>>

HandoffStates == [lease: Leases, bundle: Bundles, confirm: BOOLEAN, waiting: BOOLEAN,
                  continued: SUBSET Items, receipt: Receipts]

Phases ==
  {"idle", "done",
   "reporting", "delivering",    \* relayEvent, relayHandoff: audit and message
   "bootstrapping",              \* ingest: audit of the spec it made
   "duplicate",                  \* ingest: audit of the duplicate
   "noting",                     \* noteExternalCompletion: audit and message
   "accepting",                  \* acceptPendingHandoff: audit and message
   "registering",                \* continueHandoff: tryRegisterSourceRepoFromHandoff
   "aligning",                   \* continueHandoff: messages and audit of the repo
   "offering",                   \* continueHandoff: the choice it made is shown
   "continuing"}                 \* continueHandoff: audit of the request

(* state is the handoff state the operation captured; item 0: none chosen. *)
Ops == [at: Phases, lease: Leases \cup {0}, bundle: Bundles \cup {None},
        latest: BOOLEAN, state: HandoffStates \cup {None}, auto: BOOLEAN,
        item: Items \cup {0}]
Idle == [at |-> "idle", lease |-> 0, bundle |-> None, latest |-> FALSE,
         state |-> None, auto |-> FALSE, item |-> 0]

TypeOK ==
  /\ workflow \in Seq(Revisions)
  /\ handoff \in HandoffStates \cup {None}
  /\ lease \in Leases \cup {0} /\ lapsed \in Leases \cup {0}
  /\ granted \in 0..MaxLeases
  /\ completions \subseteq Leases
  /\ op \in [Actors -> Ops]
  /\ receipts \in 0..Cardinality(Posts)
  /\ accepted \subseteq Bundles
  /\ delivered \subseteq Leases \X Bundles
  /\ finished \subseteq Bundles
  /\ reports \in [Receipts -> Nat]
  /\ begun \in [Receipts -> Nat]
  /\ started \subseteq Bundles \X Items

(* A chat without a spec and without a handoff.                            *)
Init ==
  /\ workflow = NoWorkflow /\ handoff = None
  /\ lease = 0 /\ lapsed = 0 /\ granted = 0 /\ completions = {}
  /\ op = [o \in Actors |-> Idle]
  /\ receipts = 0
  /\ accepted = {} /\ delivered = {} /\ finished = {} /\ started = {}
  /\ reports = [r \in Receipts |-> 0] /\ begun = [r \in Receipts |-> 0]

Outstanding(st) == Items \ st.continued
(* isActionableHandoffState                                                *)
Actionable(st)  == st.confirm \/ st.waiting \/ Outstanding(st) # {}

Goes(o, next) == op' = [op EXCEPT ![o] = next]
Ends(o)       == Goes(o, IF o \in Posts THEN [Idle EXCEPT !.at = "done"] ELSE Idle)
At(o, p)      == op[o].at = p

-----------------------------------------------------------------------------
(* The spec commands of the user: handleSpecCommand.                       *)

SpecUnchanged == UNCHANGED <<handoff, relayVars, op, history>>

SpecDraft == workflow' = CreateInitialWorkflow /\ SpecUnchanged

SpecClarify ==
  /\ workflow # NoWorkflow /\ GetCurrentRevision(workflow).version < MaxVersion
  /\ workflow' = AddClarification(workflow)
  /\ SpecUnchanged

SpecApprove(force) ==
  /\ workflow # NoWorkflow /\ MayApprove(workflow, force)
  /\ workflow' = ApproveCurrentRevision(workflow)
  /\ SpecUnchanged

SpecClear ==
  /\ workflow # NoWorkflow
  /\ workflow' = NoWorkflow
  /\ SpecUnchanged

-----------------------------------------------------------------------------
(* The clients.                                                            *)

Underway == Cardinality({q \in Posts : op[q].at \notin {"idle", "done"}})

(* bind drops the expired lease from the table.                            *)
Bind ==
  /\ Underway < MaxOpen
  /\ lease = 0 /\ granted < MaxLeases
  /\ granted' = granted + 1 /\ lease' = granted + 1 /\ lapsed' = 0
  /\ UNCHANGED <<workflow, handoff, completions, op, history>>

(* A client may revoke a lease that has expired, too.                      *)
RevokeLease ==
  /\ Underway < MaxOpen
  /\ \/ /\ lease # 0 /\ lease' = 0 /\ UNCHANGED lapsed
        /\ completions' = completions \ {lease}
     \/ /\ lapsed # 0 /\ lapsed' = 0 /\ UNCHANGED lease
        /\ completions' = completions \ {lapsed}
  /\ UNCHANGED <<workflow, handoff, granted, op, history>>

(* The relay keeps the completion of a lease that expires ...              *)
LeaseExpires ==
  /\ lease # 0 /\ lease' = 0 /\ lapsed' = lease
  /\ UNCHANGED <<workflow, handoff, granted, completions, op, history>>

(* ... and when an event or bundle under it, or a bind, drops it.          *)
DropLapsed ==
  /\ Underway < MaxOpen
  /\ lapsed # 0 /\ lapsed' = 0
  /\ UNCHANGED <<workflow, handoff, lease, granted, completions, op, history>>

Open(p) == At(p, "idle") /\ lease # 0 /\ Underway < MaxOpen

(* acceptEvent and acceptHandoff; the relay then awaits audit and message. *)
PostCompletion(p) ==
  /\ Open(p)
  /\ Goes(p, [Idle EXCEPT !.at = "reporting", !.lease = lease])
  /\ UNCHANGED <<workflow, handoff, relayVars, history>>

PostHandoff(p, b) ==
  /\ Open(p)
  /\ Goes(p, [Idle EXCEPT !.at = "delivering", !.lease = lease, !.bundle = b])
  /\ UNCHANGED <<workflow, handoff, relayVars, history>>

-----------------------------------------------------------------------------
(* continueHandoff.  st is the captured state, item the item the user named *)
(* (0: none, the first one), auto whether no user asked.                   *)

Captured(st, auto, item, phase) ==
  [Idle EXCEPT !.at = phase, !.state = st, !.auto = auto, !.item = item]

(* validateHandoffSpecRef, once the repo is settled.                       *)
TrustsIngest(auto)    == auto \/ MatchesApproved(workflow, SpecRef)
SpecStillHolds(auto)  == MatchesApproved(workflow, SpecRef)

(* resolveOutstandingHandoffWork, and its default.                         *)
CountsFromZero(st)   == (CHOOSE i \in Outstanding(st) : \A j \in Outstanding(st) : i <= j) - 1
FirstOutstanding(st) == CHOOSE i \in Outstanding(st) : \A j \in Outstanding(st) : i <= j

(* The captured state is written back, with the item that is continued.    *)
RequestWork(o, st, auto, item) ==
  /\ handoff' = [st EXCEPT !.continued = @ \cup {item}]
  /\ Goes(o, Captured(st, auto, item, "continuing"))

(* From the repo check to the next await, by the spec of now.  It ends when *)
(* no repo is selected, a request is active, or the item is not left.  A   *)
(* default choice among several items is shown first.                      *)
Settle(o, st, auto, item) ==
  /\ \/ Ends(o) /\ UNCHANGED handoff
     \/ /\ SpecStillHolds(auto) /\ item \in Outstanding(st)
        /\ RequestWork(o, st, auto, item)
     \/ /\ SpecStillHolds(auto) /\ item = 0 /\ Outstanding(st) # {}
        /\ IF auto \/ Cardinality(Outstanding(st)) = 1
             THEN RequestWork(o, st, auto, FirstOutstanding(st))
             ELSE /\ Goes(o, Captured(st, auto, FirstOutstanding(st), "offering"))
                  /\ UNCHANGED handoff
  /\ UNCHANGED <<workflow, relayVars>>

(* continueHandoff up to its first await.  When another repo is selected,  *)
(* the handoff's is selected instead; one that is not registered is looked *)
(* for at the path the bundle names, if it names one.                      *)
ContinueHandoff(o, st, auto, item) ==
  IF st.confirm \/ st.waiting
    THEN Ends(o) /\ UNCHANGED <<handoff, workflow, relayVars>>
    ELSE \/ Settle(o, st, auto, item)
         \/ /\ \E phase \in {"registering", "aligning"} :
                 Goes(o, Captured(st, auto, item, phase))
            /\ UNCHANGED <<handoff, workflow, relayVars>>

(* tryRegisterSourceRepoFromHandoff returns: with the registered path, and *)
(* the captured state is written back, or without.                         *)
RepoRegistered(o) ==
  /\ At(o, "registering")
  /\ \/ Ends(o) /\ UNCHANGED handoff
     \/ /\ handoff' = op[o].state
        /\ Goes(o, [op[o] EXCEPT !.at = "aligning"])
  /\ UNCHANGED <<workflow, relayVars, history>>

RepoAligned(o) ==
  /\ At(o, "aligning")
  /\ Settle(o, op[o].state, op[o].auto, op[o].item)
  /\ UNCHANGED history

(* The message about the default choice was sent: nothing is looked at again. *)
ChoiceShown(o) ==
  /\ At(o, "offering")
  /\ RequestWork(o, op[o].state, op[o].auto, op[o].item)
  /\ UNCHANGED <<workflow, relayVars, history>>

(* executeOrEnqueue, detached: RunControl tells what becomes of it.        *)
WorkRequested(o) ==
  /\ At(o, "continuing")
  /\ started' = started \cup {<<op[o].state.bundle, op[o].item>>}
  /\ Ends(o)
  /\ UNCHANGED <<handoff, workflow, relayVars, counters, accepted, delivered,
                 finished>>

-----------------------------------------------------------------------------
(* noteExternalCompletion and ingestExternalHandoff.                       *)

Noted(st)     == [st EXCEPT !.waiting = FALSE]
Report(r)     == reports' = [reports EXCEPT ![r] = @ + 1]
Begin(r)      == begun' = [begun EXCEPT ![r] = @ + 1]

(* noteExternalCompletion up to its audit entry, for the state that is there. *)
NoteCompletion(o) ==
  /\ handoff' = Noted(handoff)
  /\ Goes(o, Captured(Noted(handoff), TRUE, 0, "noting"))
  /\ Report(handoff.receipt)

(* relayEvent after its awaits: a completion is stored, and noted if the   *)
(* chat's handoff came under the same lease.                               *)
CompletionApplied(p) ==
  LET l == op[p].lease IN
  /\ At(p, "reporting")
  /\ completions' = completions \cup {l}
  /\ finished' = finished \cup {b \in Bundles : <<l, b>> \in delivered}
  /\ IF handoff # None /\ handoff.lease = l
       THEN NoteCompletion(p)
       ELSE Ends(p) /\ UNCHANGED <<handoff, reports>>
  /\ UNCHANGED <<workflow, lease, lapsed, granted, receipts, begun, accepted,
                 delivered, started>>

(* After the audit entry it goes by the state it captured.                 *)
NoteByNow(o)      == handoff = None \/ handoff.confirm
NotedTooEarly(o)  == op[o].state.confirm

CompletionLogged(o) ==
  LET st == op[o].state IN
  /\ At(o, "noting")
  /\ IF NotedTooEarly(o)
       THEN Ends(o) /\ UNCHANGED <<handoff, workflow, relayVars, begun>>
       ELSE Begin(st.receipt) /\ ContinueHandoff(o, st, TRUE, 0)
  /\ UNCHANGED <<receipts, reports, accepted, delivered, finished, started>>

(* The state an ingest writes: every bundle is asked about.                *)
AsksOnce(l)  == IF handoff = None THEN TRUE ELSE handoff.confirm
AsksUser(l)  == TRUE

NewState(l, b, waiting) ==
  [lease |-> l, bundle |-> b, confirm |-> AsksUser(l), waiting |-> waiting,
   continued |-> {}, receipt |-> receipts + 1]

Receive(l, b, waiting) ==
  /\ handoff' = NewState(l, b, waiting)
  /\ receipts' = receipts + 1
  /\ IF waiting THEN UNCHANGED reports ELSE Report(receipts + 1)

(* areSemanticallyEquivalentExternalHandoffs, against the state of now.    *)
Duplicate(b) == IF handoff = None THEN FALSE ELSE handoff.bundle = b

(* ingestExternalHandoff from validateHandoffSpecRef to the next await.    *)
(* It is refused for the spec, or for a capability the mode rules out.     *)
Ingest(p, l, b, latest) ==
  \/ /\ Ends(p)
     /\ UNCHANGED <<handoff, receipts, reports, delivered, finished>>
  \/ /\ MatchesApproved(workflow, SpecRef)
     /\ delivered' = delivered \cup {<<l, b>>}
     /\ finished' = IF latest \/ l \in completions THEN finished \cup {b} ELSE finished
     /\ \/ /\ Duplicate(b) /\ latest
           /\ NoteCompletion(p)
           /\ UNCHANGED receipts
        \/ /\ Duplicate(b) /\ ~latest
           /\ Goes(p, [Idle EXCEPT !.at = "duplicate", !.lease = l, !.bundle = b])
           /\ UNCHANGED <<handoff, receipts, reports>>
        \/ /\ ~Duplicate(b)
           /\ Receive(l, b, ~latest)
           /\ Ends(p)

(* relayHandoff after its awaits: the completion stored so far is read, and *)
(* a chat without a spec gets one.                                         *)
HandoffApplied(p) ==
  LET l == op[p].lease  latest == op[p].lease \in completions IN
  /\ At(p, "delivering")
  /\ IF workflow = NoWorkflow
       THEN /\ workflow' = BootstrappedWorkflow(SpecRef)
            /\ Goes(p, [op[p] EXCEPT !.at = "bootstrapping", !.latest = latest])
            /\ UNCHANGED <<handoff, receipts, reports, delivered, finished>>
       ELSE Ingest(p, l, op[p].bundle, latest) /\ UNCHANGED workflow
  /\ UNCHANGED <<relayVars, begun, accepted, started>>

SpecBootstrapped(p) ==
  /\ At(p, "bootstrapping")
  /\ Ingest(p, op[p].lease, op[p].bundle, op[p].latest)
  /\ UNCHANGED <<workflow, relayVars, begun, accepted, started>>

(* The duplicate is logged: when nothing is left to do in the state of now *)
(* the bundle is offered again, as finished.                               *)
DuplicateLogged(p) ==
  /\ At(p, "duplicate")
  /\ IF handoff # None /\ ~Actionable(handoff)
       THEN /\ Receive(op[p].lease, op[p].bundle, FALSE)
            /\ finished' = finished \cup {op[p].bundle}
       ELSE UNCHANGED <<handoff, receipts, reports, finished>>
  /\ Ends(p)
  /\ UNCHANGED <<workflow, relayVars, begun, accepted, delivered, started>>

-----------------------------------------------------------------------------
(* The user's answer.                                                      *)

(* acceptPendingHandoff up to its audit entry.                             *)
Accept(c) ==
  LET st == [handoff EXCEPT !.confirm = FALSE] IN
  /\ At(c, "idle") /\ handoff # None /\ handoff.confirm
  /\ handoff' = st
  /\ Goes(c, Captured(st, TRUE, 0, "accepting"))
  /\ accepted' = accepted \cup {handoff.bundle}
  /\ UNCHANGED <<workflow, relayVars, counters, delivered, finished, started>>

LeavesItToCompletion(c) == TRUE
StillWaiting(c)         == op[c].state.waiting

AcceptanceLogged(c) ==
  LET st == op[c].state IN
  /\ At(c, "accepting")
  /\ IF StillWaiting(c)
       THEN Ends(c) /\ UNCHANGED <<handoff, workflow, relayVars, begun>>
       ELSE Begin(st.receipt) /\ ContinueHandoff(c, st, TRUE, 0)
  /\ UNCHANGED <<receipts, reports, accepted, delivered, finished, started>>

(* rejectPendingHandoff, and /handoff clear.                               *)
Dismiss(c) ==
  /\ At(c, "idle") /\ handoff # None
  /\ handoff' = None
  /\ UNCHANGED <<workflow, relayVars, op, history>>

(* /continue [item]                                                        *)
Continue(c, item) ==
  /\ At(c, "idle") /\ handoff # None
  /\ ContinueHandoff(c, handoff, FALSE, item)
  /\ UNCHANGED history

Next ==
  \/ SpecDraft
  \/ SpecClarify
  \/ \E force \in BOOLEAN : SpecApprove(force)
  \/ SpecClear
  \/ Bind
  \/ RevokeLease
  \/ LeaseExpires
  \/ DropLapsed
  \/ \E p \in Posts : PostCompletion(p)
  \/ \E p \in Posts, b \in Bundles : PostHandoff(p, b)
  \/ \E p \in Posts : CompletionApplied(p)
  \/ \E p \in Posts : HandoffApplied(p)
  \/ \E p \in Posts : SpecBootstrapped(p)
  \/ \E p \in Posts : DuplicateLogged(p)
  \/ \E o \in Actors : CompletionLogged(o)
  \/ \E c \in Channels : Accept(c)
  \/ \E c \in Channels : AcceptanceLogged(c)
  \/ \E c \in Channels : Dismiss(c)
  \/ \E c \in Channels, i \in Items \cup {0} : Continue(c, i)
  \/ \E o \in Actors : RepoRegistered(o)
  \/ \E o \in Actors : RepoAligned(o)
  \/ \E o \in Actors : ChoiceShown(o)
  \/ \E o \in Actors : WorkRequested(o)

Spec == Init /\ [][Next]_vars

-----------------------------------------------------------------------------
(* Properties.                                                             *)

Quiet == \A o \in Actors : op[o].at \in {"idle", "done"}

(* Work of a bundle starts only after the user accepted that bundle and    *)
(* after its client was done with it, whichever of the two comes first and *)
(* however handoffs, duplicates and captured states overwrite each other.  *)
WorkFollowsHandshake ==
  \A w \in started : w[1] \in accepted /\ w[1] \in finished

(* A completion and an acceptance that race begin one continuation, never  *)
(* two: each report of completion stands for one automatic continuation.   *)
OneContinuationPerReport == \A r \in Receipts : begun[r] <= reports[r]

(* ... and never none: a handoff that is accepted and not waiting, with no *)
(* operation under way, was continued once.                                *)
ContinuationNotForgotten ==
  Quiet /\ handoff # None /\ ~handoff.confirm /\ ~handoff.waiting
    => begun[handoff.receipt] > 0

(* Work is requested under the approved revision the bundle names, although *)
(* the repo may have been registered and selected, over several awaits,    *)
(* before; only a choice that had to be shown may be overtaken.            *)
WorkRequestedUnderApprovedSpec ==
  [][\A o \in Actors :
       op'[o].at = "continuing" /\ op[o].at \notin {"continuing", "offering"}
         => MatchesApproved(workflow, SpecRef)]_vars

(* What was approved stays as it was approved: a clarification makes a new *)
(* revision, and only /spec draft or /spec clear gives the workflow up.    *)
ApprovedRevisionsAreKept ==
  [][workflow' \in {NoWorkflow, CreateInitialWorkflow} \/
     \A i \in DOMAIN workflow :
       workflow[i].status = "approved" => i \in DOMAIN workflow' /\ workflow'[i] = workflow[i]]_vars

(* The one lease kept here behaves as the leases of a session do.          *)
Held == IF lease = 0 THEN {} ELSE {<<lease, "chat">>}

Binding == INSTANCE SessionLease WITH Sessions <- {"chat"}, held <- Held, given <- granted

ImplementsSessionLease == Binding!LeaseSpec

(* "Accepted handoffs can stay in waiting_for_external_completion until    *)
(* the external client sends a completion event.  When that arrives,       *)
(* CodeFox starts its own continuation" (docs/OPERATIONS.md:85): a bundle  *)
(* whose client reported completion is not left waiting for it.            *)
ReportedCompletionArrives ==
  Quiet /\ handoff # None /\ ~handoff.confirm /\ handoff.waiting
    => handoff.bundle \notin finished
=============================================================================
