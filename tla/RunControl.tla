----------------------------- MODULE RunControl -----------------------------
(***************************************************************************)
(* The life of the requests of ONE chat in CodeFoxController               *)
(* (src/core/controller.ts): from the command that asks for a run, through *)
(* the admission in executeOrEnqueue and the Codex process that            *)
(* executeTask starts, to the follow-up run that applies queued steers.    *)
(*                                                                         *)
(* Node runs one thread, so code interleaves only where it awaits: an      *)
(* action below is the code from one await to the next.  An await of a     *)
(* promise that is already resolved is not a step of its own.  The actors  *)
(* are the command channels (the Telegram poll loop and the local command  *)
(* queue: each handles one update at a time, the two run concurrently),    *)
(* the detached executeOrEnqueue operations, and the Codex processes.      *)
(*                                                                         *)
(* Commands that are refused with a message and change no state are not    *)
(* actions.  Modes, instructions, attachments and users carry no control   *)
(* here and are left out; so is the wording of every message.              *)
(***************************************************************************)
EXTENDS FiniteSets

CONSTANTS
  Reqs,      \* ids makeRequestId can give out (bounds the runs asked for)
  Steers,    \* steer messages (bounds the follow-ups sent)
  Channels,  \* concurrent sources of commands: Telegram, local command queue
  Repos,     \* repo names
  Externals, \* approvals that external Codex clients ask for
  None       \* undefined

ASSUME NamesAreDistinct ==
  /\ Reqs \cap Steers = {}
  /\ None \notin Reqs \cup Steers \cup Repos \cup Externals
  /\ Externals \cap (Reqs \cup Steers) = {}

(* A follow-up run is named after the first steer of the array it consumes. *)
Ids == Reqs \cup Steers

(* What decideCapabilityAdmission tells apart: a run that is allowed (no    *)
(* capability, or an auto-allowed one), one whose capability has an approval *)
(* level, and one that the mode, local presence or a remote prohibition     *)
(* rules out.                                                               *)
Classes == {"free", "approval", "barred"}

VARIABLES
  executionAdmissionLock,  \* executionAdmissionLock.has(chatId)
  activeRequestId,         \* session.activeRequestId
  selectedRepo,            \* session.selectedRepo
  codexThreadId,           \* session.codexThreadId, named by the run that made it
  registered,              \* the repo registry, shared with the other chats
  pendingApproval,         \* the id in approvals.get(chatId)
  pendingSteers,           \* pendingSteers.get(chatId): the array, named by its first steer
  batchOf,                 \* the array each steer was pushed to
  activeAborts,            \* ids with an entry in activeAborts
  steerTriggeredAborts,    \* the set of that name (None: add(undefined))
  pc,                      \* where the operation of each id is
  req,                     \* what that operation carries
  child,                   \* its Codex process
  handler,                 \* the update each channel is in the middle of
  \* History, read by properties only:
  issued,                  \* ids that entered admission once
  granted,                 \* approvals logged as approval_granted
  retired,                 \* threads closed by /close, /repo, idleness, rejection
  settled,                 \* steers applied, thrown away, or answered otherwise
  raced                    \* runs aborted while a steer of theirs was being logged

sessionVars == <<activeRequestId, selectedRepo, codexThreadId>>
steerVars   == <<pendingSteers, batchOf, steerTriggeredAborts>>
opVars      == <<pc, req, executionAdmissionLock, issued>>
history     == <<granted, retired, settled, raced>>
vars == <<sessionVars, steerVars, opVars, history, registered, pendingApproval,
          activeAborts, child, handler>>

-----------------------------------------------------------------------------
(* Where an operation can be.                                              *)

(* executeOrEnqueue before executeTask, with the admission lock held.      *)
Preparing == {"admitting", "refusing", "asking", "expiring", "failing"}
(* executeTask between setActiveRequest(id) and its finally block.         *)
Active    == {"starting", "dispatching", "running", "reporting"}
(* executeTask's finally block has run; the lock is not released yet.      *)
Winding   == {"finishing", "leaving"}
Inside    == Preparing \cup Active \cup Winding
(* "merging": consumePendingSteers awaits its audit entry, with no lock.   *)
Phases    == {"idle", "merging"} \cup Inside

Requests == [class: Classes, repo: Repos \cup {None}, bypass: BOOLEAN,
             resume: Ids \cup {None}]
Children == [life: {"none", "live", "closed"}, aborted: BOOLEAN,
             detected: BOOLEAN, rejected: BOOLEAN]
Handlers == [at: {"ready", "selecting", "steering", "approving", "deciding",
                    "removing"},
             steer: Steers \cup {None}, id: Ids \cup {None},
             repo: Repos \cup {None}]

NoRequest == [class |-> "free", repo |-> None, bypass |-> FALSE, resume |-> None]
NoChild   == [life |-> "none", aborted |-> FALSE, detected |-> FALSE, rejected |-> FALSE]
Ready     == [at |-> "ready", steer |-> None, id |-> None, repo |-> None]

TypeOK ==
  /\ executionAdmissionLock \in BOOLEAN
  /\ activeRequestId \in Ids \cup {None}
  /\ selectedRepo \in Repos \cup {None}
  /\ codexThreadId \in Ids \cup {None}
  /\ registered \subseteq Repos
  /\ pendingApproval \in Reqs \cup Externals \cup {None}
  /\ pendingSteers \in Steers \cup {None}
  /\ batchOf \in [Steers -> Steers \cup {None}]
  /\ activeAborts \subseteq Ids
  /\ steerTriggeredAborts \subseteq Ids \cup {None}
  /\ pc \in [Ids -> Phases]
  /\ req \in [Ids -> Requests]
  /\ child \in [Ids -> Children]
  /\ handler \in [Channels -> Handlers]
  /\ issued \subseteq Ids
  /\ granted \subseteq Reqs
  /\ retired \subseteq Ids
  /\ settled \subseteq Steers
  /\ raced \subseteq Ids

(* app.ts clears activeRequestId on load; repo and thread may be restored,  *)
(* here the chat starts fresh with any registry.                            *)
Init ==
  /\ executionAdmissionLock = FALSE
  /\ activeRequestId = None /\ selectedRepo = None /\ codexThreadId = None
  /\ registered \in SUBSET Repos
  /\ pendingApproval = None
  /\ pendingSteers = None
  /\ batchOf = [s \in Steers |-> None]
  /\ activeAborts = {} /\ steerTriggeredAborts = {}
  /\ pc = [i \in Ids |-> "idle"]
  /\ req = [i \in Ids |-> NoRequest]
  /\ child = [i \in Ids |-> NoChild]
  /\ handler = [c \in Channels |-> Ready]
  /\ issued = {} /\ granted = {} /\ retired = {} /\ settled = {}
  /\ raced = {}


Fresh(r)      == r \in Reqs \ issued
Idle(c)       == handler[c].at = "ready"
Goto(r, p)    == pc' = [pc EXCEPT ![r] = p]
Batch(b)      == {s \in Steers : b # None /\ batchOf[s] = b}
Answer(S)     == settled' = settled \cup S
Done(c)       == handler' = [handler EXCEPT ![c] = Ready]
Interruptible == activeRequestId \in activeAborts
(* The abort function of startTask: it only matters while the process lives. *)
Abort(r)      == child' = [child EXCEPT ![r].aborted = @ \/ child[r].life = "live"]
(* An approval record of r is in the store, or taken out by a handler.       *)
Approving(r) == \/ pendingApproval = r
                \/ \E c \in Channels : handler[c].at = "approving" /\ handler[c].id = r
(* clearCodexSession *)
ClearThread   == codexThreadId' = None
(* A thread that is closed for good. *)
Retire        == retired' = retired \cup ({codexThreadId} \ {None})

-----------------------------------------------------------------------------
(* Admission: the synchronous head of executeOrEnqueue.  The busy message   *)
(* changes nothing; the operation that called is over.                      *)

AdmissionNeverBusy == FALSE
AdmissionBusy      == executionAdmissionLock

ExecuteOrEnqueue(r, q) ==
  \/ /\ AdmissionBusy
     /\ Goto(r, IF pc[r] = "merging" THEN "idle" ELSE pc[r])
     /\ UNCHANGED <<executionAdmissionLock, issued, req>>
  \/ /\ ~AdmissionBusy
     /\ executionAdmissionLock' = TRUE
     /\ issued' = issued \cup {r}
     /\ req' = [req EXCEPT ![r] = q]
     /\ Goto(r, IF activeRequestId = None THEN "admitting" ELSE "refusing")

-----------------------------------------------------------------------------
(* Commands: the cases of handleUpdate that reach the state above.          *)

RunRequest(cl, repo, approved) ==
  [class |-> cl, repo |-> repo, bypass |-> approved, resume |-> None]

(* /run, /act, /continue, or plain text with nothing active or in admission. *)
HandleRun(c, r, cl) ==
  /\ Idle(c) /\ Fresh(r) /\ selectedRepo # None
  /\ ExecuteOrEnqueue(r, RunRequest(cl, selectedRepo, FALSE))
  /\ UNCHANGED <<sessionVars, steerVars, history, registered, pendingApproval,
                 activeAborts, child, handler>>

(* ensureRepoSelectedForExecution picks a repo, and awaits before the run.  *)
HandleRunWithoutRepo(c, repo) ==
  /\ Idle(c) /\ selectedRepo = None /\ repo \in registered
  /\ selectedRepo' = repo
  /\ handler' = [handler EXCEPT ![c] = [Ready EXCEPT !.at = "selecting", !.repo = repo]]
  /\ UNCHANGED <<activeRequestId, codexThreadId, steerVars, opVars, history,
                 registered, pendingApproval, activeAborts, child>>

RepoSelectedForRun(c, r, cl) ==
  /\ handler[c].at = "selecting" /\ Fresh(r)
  /\ ExecuteOrEnqueue(r, RunRequest(cl, handler[c].repo, FALSE))
  /\ Done(c)
  /\ UNCHANGED <<sessionVars, steerVars, history, registered, pendingApproval,
                 activeAborts, child>>

(* The handler may also stop here: the capability is unknown, or no id is left. *)
RunNotStarted(c) ==
  /\ handler[c].at = "selecting"
  /\ Done(c)
  /\ UNCHANGED <<sessionVars, steerVars, opVars, history, registered,
                 pendingApproval, activeAborts, child>>

Push(s) ==
  LET b == IF pendingSteers = None THEN s ELSE pendingSteers
  IN  pendingSteers' = b /\ batchOf' = [batchOf EXCEPT ![s] = b]

(* /steer, and plain text that is taken for a steer: interrupt the run      *)
(* (first await: the audit entry), queue it for a run that has no abort     *)
(* function yet, or queue it for the run in admission.                      *)
HandleSteer(c, s) ==
  /\ Idle(c) /\ batchOf[s] = None
  /\ \/ /\ Interruptible /\ selectedRepo # None
        /\ handler' = [handler EXCEPT ![c] = [Ready EXCEPT !.at = "steering",
                                              !.steer = s, !.id = activeRequestId]]
     \/ /\ activeRequestId # None /\ ~Interruptible /\ selectedRepo # None
        /\ UNCHANGED handler
     \/ /\ activeRequestId = None /\ executionAdmissionLock
        /\ UNCHANGED handler
  /\ Push(s)
  /\ UNCHANGED <<steerTriggeredAborts, sessionVars, opVars, history, registered,
                 pendingApproval, activeAborts, child>>

(* After the audit entry: only a steer alone in its array aborts the run.   *)
(* The mark goes to the request active NOW, the abort to the one captured.  *)
SteerLogged(c) ==
  LET h == handler[c]
      alone == \A t \in Batch(batchOf[h.steer]) : t = h.steer
  IN  /\ h.at = "steering"
      /\ \/ /\ alone
            /\ steerTriggeredAborts' = steerTriggeredAborts \cup {activeRequestId}
            /\ Abort(h.id)
         \/ /\ ~alone
            /\ UNCHANGED <<steerTriggeredAborts, child>>
      /\ Done(c)
      /\ UNCHANGED <<pendingSteers, batchOf, sessionVars, opVars, history,
                     registered, pendingApproval, activeAborts>>

SteerBeingLogged == \/ \E r \in Ids : pc[r] = "dispatching"
                    \/ \E c \in Channels : handler[c].at = "steering"

QueueSurvivesAbort == pendingSteers
QueueAfterAbort    == None
MarkSurvivesAbort  == steerTriggeredAborts
MarksAfterAbort    == steerTriggeredAborts \ {activeRequestId}

(* /abort: throws the queued steers away and takes back the steer mark.     *)
HandleAbort(c) ==
  /\ Idle(c) /\ Interruptible
  /\ pendingSteers' = QueueAfterAbort
  /\ steerTriggeredAborts' = MarksAfterAbort
  /\ Abort(activeRequestId)
  /\ Answer(Batch(pendingSteers))
  /\ raced' = IF SteerBeingLogged THEN raced \cup {activeRequestId} ELSE raced
  /\ UNCHANGED <<batchOf, sessionVars, opVars, granted, retired, registered,
                 pendingApproval, activeAborts, handler>>

(* /mode with another mode: closes the Codex session, whatever is running.  *)
HandleMode(c) ==
  /\ Idle(c)
  /\ ClearThread
  /\ UNCHANGED <<activeRequestId, selectedRepo, steerVars, opVars, history,
                 registered, pendingApproval, activeAborts, child, handler>>

ClosesAnyTime == TRUE
MayClose      == activeRequestId = None

(* /close *)
HandleCloseSession(c) ==
  /\ Idle(c) /\ MayClose /\ codexThreadId # None
  /\ ClearThread /\ Retire
  /\ UNCHANGED <<activeRequestId, selectedRepo, steerVars, opVars, granted, settled,
                 raced, registered, pendingApproval, activeAborts, child,
                 handler>>

(* /repo <name>: another repo closes the Codex session. *)
HandleRepoSelect(c, repo) ==
  /\ Idle(c) /\ ~executionAdmissionLock /\ activeRequestId = None
  /\ repo \in registered /\ repo # selectedRepo
  /\ selectedRepo' = repo
  /\ \/ selectedRepo # None /\ ClearThread /\ Retire
     \/ selectedRepo = None /\ UNCHANGED <<codexThreadId, retired>>
  /\ UNCHANGED <<activeRequestId, steerVars, opVars, granted, settled, raced,
                 registered, pendingApproval, activeAborts, child, handler>>

(* The end of /repo init: select the repo and close the thread, without a   *)
(* look at the active request.  (continueHandoff aligns the chat with the   *)
(* source repo of a handoff by the same two calls.)                         *)
HandleRepoInit(c, repo) ==
  /\ Idle(c) /\ repo \in registered
  /\ selectedRepo' = repo
  /\ ClearThread
  /\ UNCHANGED <<activeRequestId, steerVars, opVars, history, registered,
                 pendingApproval, activeAborts, child, handler>>

(* /repo remove: refused only for the selected repo of an active request.   *)
(* A repo that is not selected here is RegistryChanges.                     *)
HandleRepoRemove(c, repo) ==
  /\ Idle(c) /\ repo \in registered /\ selectedRepo = repo
  /\ activeRequestId = None
  /\ registered' = registered \ {repo}
  /\ selectedRepo' = None
  /\ ClearThread /\ Retire
  /\ handler' = [handler EXCEPT ![c] = [Ready EXCEPT !.at = "removing", !.repo = repo]]
  /\ UNCHANGED <<activeRequestId, steerVars, opVars, granted, settled, raced,
                 pendingApproval, activeAborts, child>>

RepoRemovalSaved(c) ==
  /\ handler[c].at = "removing"
  /\ Done(c)
  /\ UNCHANGED <<sessionVars, steerVars, opVars, history, registered,
                 pendingApproval, activeAborts, child>>

(* persistRepos failed: the repo comes back, and with it the selection,     *)
(* unless the name was registered again meanwhile and repos.add throws.     *)
(* (Root paths are left out: the repos of a model do not overlap.)          *)
RepoRemovalFailed(c) ==
  /\ handler[c].at = "removing"
  /\ \/ /\ handler[c].repo \notin registered
        /\ registered' = registered \cup {handler[c].repo}
        /\ selectedRepo' = handler[c].repo
     \/ /\ handler[c].repo \in registered
        /\ UNCHANGED <<registered, selectedRepo>>
  /\ Done(c)
  /\ UNCHANGED <<activeRequestId, codexThreadId, steerVars, opVars, history,
                 pendingApproval, activeAborts, child>>

(* The registry is shared: /repo add, the registering half of /repo init,   *)
(* the commands of other chats, and the rollbacks of saves that failed.     *)
RegistryChanges(repo) ==
  /\ registered' = IF repo \in registered THEN registered \ {repo}
                   ELSE registered \cup {repo}
  /\ UNCHANGED <<sessionVars, steerVars, opVars, history, pendingApproval,
                 activeAborts, child, handler>>

ApprovalStays      == pendingApproval
ApprovalAfterGrant == None

(* onApprovalRequested of app.ts: an external client asks; its record takes *)
(* the place of whatever the chat has.  (The leases are another component.)  *)
ExternalApprovalRequested(x) ==
  /\ selectedRepo # None
  /\ pendingApproval' = x
  /\ UNCHANGED <<sessionVars, steerVars, opVars, history, registered, activeAborts,
                 child, handler>>

(* /approve by the requester: the record is deleted before the first await. *)
(* The capability may have become unknown: then nothing is granted.         *)
HandleApprove(c) ==
  /\ Idle(c) /\ pendingApproval \in Reqs /\ activeRequestId = None
  /\ pendingApproval' = ApprovalAfterGrant
  /\ \/ /\ granted' = granted \cup {pendingApproval}
        /\ handler' = [handler EXCEPT ![c] = [Ready EXCEPT !.at = "approving",
                                              !.id = pendingApproval]]
     \/ UNCHANGED <<granted, handler>>
  /\ UNCHANGED <<sessionVars, steerVars, opVars, retired, settled, raced,
                 registered, activeAborts, child>>

ApprovalLogged(c) ==
  LET r == handler[c].id
  IN  /\ handler[c].at = "approving"
      /\ ExecuteOrEnqueue(r, [req[r] EXCEPT !.bypass = TRUE])
      /\ Done(c)
      /\ UNCHANGED <<sessionVars, steerVars, history, registered, pendingApproval,
                     activeAborts, child>>

(* /approve or /deny of an external request that the relay knows.  Only     *)
(* after the await (the relay's audit entry) is the record deleted: whatever *)
(* record the chat has then.                                                *)
DecideExternal(c) ==
  /\ Idle(c) /\ pendingApproval \in Externals
  /\ handler' = [handler EXCEPT ![c] = [Ready EXCEPT !.at = "deciding"]]
  /\ UNCHANGED <<sessionVars, steerVars, opVars, history, registered,
                 pendingApproval, activeAborts, child>>

ExternalDecided(c) ==
  /\ handler[c].at = "deciding"
  /\ pendingApproval' = None
  /\ Done(c)
  /\ UNCHANGED <<sessionVars, steerVars, opVars, history, registered, activeAborts,
                 child>>

(* /deny by the requester. *)
HandleDeny(c) ==
  /\ Idle(c) /\ pendingApproval \in Reqs
  /\ pendingApproval' = None
  /\ UNCHANGED <<sessionVars, steerVars, opVars, history, registered, activeAborts,
                 child, handler>>

-----------------------------------------------------------------------------
(* executeOrEnqueue with the lock held.  A steer skips capability admission. *)

IsRun(r)         == r \in Reqs
NobodyAsks(r)    == FALSE
NeedsApproval(r) == IsRun(r) /\ req[r].class = "approval" /\ ~req[r].bypass
Barred(r)        == IsRun(r) /\ req[r].class = "barred"

(* Refused: capability policy, instruction policy, AGENTS.md guard, or an   *)
(* approval that is still pending; the user is told why.                    *)
Refuse(r) ==
  /\ pc[r] = "admitting"
  /\ Goto(r, "refusing")
  /\ Answer(Batch(r))
  /\ UNCHANGED <<sessionVars, steerVars, req, executionAdmissionLock, issued, granted,
                 retired, raced, registered, pendingApproval, activeAborts,
                 child, handler>>

MayAskAnyTime == TRUE
MayAsk        == pendingApproval = None

AskApproval(r) ==
  /\ pc[r] = "admitting" /\ NeedsApproval(r) /\ MayAsk
  /\ pendingApproval' = r
  /\ Goto(r, "asking")
  /\ UNCHANGED <<sessionVars, steerVars, req, executionAdmissionLock, issued, history,
                 registered, activeAborts, child, handler>>

(* executeTask up to its first await.  The thread to resume is read and     *)
(* activeRequestId set in one go, unless the thread has idled out.          *)
SetActive(r, thread) ==
  /\ req' = [req EXCEPT ![r].resume = thread]
  /\ activeRequestId' = r
  /\ Goto(r, "starting")

ExecuteTask(r) ==
  /\ pc[r] = "admitting" /\ ~NeedsApproval(r) /\ ~Barred(r)
  /\ req[r].repo \in registered
  /\ SetActive(r, codexThreadId)
  /\ UNCHANGED <<selectedRepo, codexThreadId, steerVars, executionAdmissionLock, issued,
                 history, registered, pendingApproval, activeAborts, child, handler>>

(* repos.get throws. *)
ExecuteTaskWithoutRepo(r) ==
  /\ pc[r] = "admitting" /\ ~NeedsApproval(r) /\ ~Barred(r)
  /\ req[r].repo \notin registered
  /\ Goto(r, "failing")
  /\ Answer(Batch(r))
  /\ UNCHANGED <<sessionVars, steerVars, req, executionAdmissionLock, issued, granted,
                 retired, raced, registered, pendingApproval, activeAborts,
                 child, handler>>

ExpireThread(r) ==
  /\ pc[r] = "admitting" /\ ~NeedsApproval(r) /\ ~Barred(r)
  /\ req[r].repo \in registered /\ codexThreadId # None
  /\ ClearThread /\ Retire
  /\ Goto(r, "expiring")
  /\ UNCHANGED <<activeRequestId, selectedRepo, steerVars, req, executionAdmissionLock,
                 issued, granted, settled, raced, registered, pendingApproval,
                 activeAborts, child, handler>>

(* The idle notice is sent; or sending it throws. *)
ExpiryAnnounced(r) ==
  /\ pc[r] = "expiring"
  /\ SetActive(r, None)
  /\ UNCHANGED <<selectedRepo, codexThreadId, steerVars, executionAdmissionLock, issued,
                 history, registered, pendingApproval, activeAborts, child, handler>>

ExpiryNoticeFails(r) ==
  /\ pc[r] = "expiring"
  /\ Goto(r, "failing")
  /\ Answer(Batch(r))
  /\ UNCHANGED <<sessionVars, steerVars, req, executionAdmissionLock, issued, granted,
                 retired, raced, registered, pendingApproval, activeAborts,
                 child, handler>>

AbortsForgottenAt(r) == activeAborts
AbortsAfterStart(r)  == activeAborts \cup {r}

(* startTask and activeAborts.set; steers that wait are dispatched (await). *)
StartTask(r) ==
  /\ pc[r] = "starting"
  /\ child' = [child EXCEPT ![r] = [NoChild EXCEPT !.life = "live"]]
  /\ activeAborts' = AbortsAfterStart(r)
  /\ Goto(r, IF pendingSteers = None THEN "running" ELSE "dispatching")
  /\ Answer(Batch(r))
  /\ UNCHANGED <<sessionVars, steerVars, req, executionAdmissionLock, issued, granted,
                 retired, raced, registered, pendingApproval, handler>>

(* spawn throws. *)
StartTaskThrows(r) ==
  /\ pc[r] = "starting"
  /\ Goto(r, "reporting")
  /\ Answer(Batch(r))
  /\ UNCHANGED <<sessionVars, steerVars, req, executionAdmissionLock, issued, granted,
                 retired, raced, registered, pendingApproval, activeAborts,
                 child, handler>>

DispatchForgets(r) == UNCHANGED child
DispatchAborts(r)  == Abort(r)

(* dispatchQueuedSteersOnRunStart after its audit entry. *)
DispatchQueuedSteers(r) ==
  /\ pc[r] = "dispatching"
  /\ steerTriggeredAborts' = steerTriggeredAborts \cup {r}
  /\ DispatchAborts(r)
  /\ Goto(r, "running")
  /\ UNCHANGED <<pendingSteers, batchOf, sessionVars, req, executionAdmissionLock, issued,
                 history, registered, pendingApproval, activeAborts, handler>>

(* The child closes by itself, by its timeout or by kill().  An error event *)
(* settles the result without the aborted flag.                             *)
ChildCloses(r, found, refused, byError) ==
  /\ child[r].life = "live"
  /\ refused => req[r].resume # None
  /\ child' = [child EXCEPT ![r] = [life |-> "closed", detected |-> found,
                                    rejected |-> refused,
                                    aborted |-> child[r].aborted /\ ~byError]]
  /\ UNCHANGED <<sessionVars, steerVars, opVars, history, registered, pendingApproval,
                 activeAborts, handler>>

StoresRepoName(r) == IF child[r].rejected THEN None ELSE req[r].repo
ThreadAfter(r) ==
  IF child[r].rejected THEN None
  ELSE IF child[r].detected THEN r
  ELSE IF req[r].resume # None THEN req[r].resume
  ELSE codexThreadId

(* The result of a run that a steer aborted is not shown to the user. *)
Suppressed(r) == child[r].aborted /\ r \in steerTriggeredAborts

(* await running.result returns: the thread is stored, or closed if Codex   *)
(* refused to resume it.                                                    *)
TakeResult(r) ==
  /\ pc[r] = "running" /\ child[r].life = "closed"
  /\ codexThreadId' = ThreadAfter(r)
  /\ retired' = IF child[r].rejected THEN retired \cup {req[r].resume} ELSE retired
  /\ Goto(r, "reporting")
  /\ UNCHANGED <<activeRequestId, selectedRepo, steerVars, req, executionAdmissionLock,
                 issued, granted, settled, raced, registered, pendingApproval,
                 activeAborts, child, handler>>

QueueSurvivesRejection(r) == pendingSteers
QueueAfterRun(r)          == IF child[r].rejected THEN None ELSE pendingSteers

ActiveStays(r)    == activeRequestId
ActiveAfterRun(r) == IF activeRequestId = r THEN None ELSE activeRequestId

(* The finally block of executeTask; its locals (the result) are gone.     *)
Finish(r) ==
  /\ pc[r] \in {"reporting", "failing"}
  /\ activeAborts' = activeAborts \ {r}
  /\ steerTriggeredAborts' = steerTriggeredAborts \ {r}
  /\ activeRequestId' = ActiveAfterRun(r)
  /\ pendingSteers' = QueueAfterRun(r)
  /\ Answer(IF child[r].rejected THEN Batch(pendingSteers) ELSE {})
  /\ Goto(r, IF child[r].rejected THEN "leaving" ELSE "finishing")
  /\ child' = [child EXCEPT ![r] = [NoChild EXCEPT !.life = child[r].life]]
  /\ req' = [req EXCEPT ![r].resume = None]
  /\ raced' = raced \ {r}
  /\ UNCHANGED <<batchOf, selectedRepo, codexThreadId, executionAdmissionLock, issued,
                 granted, retired, registered, pendingApproval, handler>>

QueueKept          == pendingSteers
QueueAfterConsume  == None

(* The microtask of the finally block: consumePendingSteers takes the array *)
(* and awaits its audit entry, or drops it when no repo is selected.        *)
ConsumePendingSteers(r) ==
  /\ pc[r] = "finishing"
  /\ \/ /\ pendingSteers = None \/ activeRequestId # None
        /\ Goto(r, "leaving")
        /\ UNCHANGED <<pendingSteers, settled>>
     \/ /\ pendingSteers # None /\ activeRequestId = None /\ selectedRepo = None
        /\ Goto(r, "leaving")
        /\ pendingSteers' = None
        /\ Answer(Batch(pendingSteers))
     \/ /\ pendingSteers # None /\ activeRequestId = None /\ selectedRepo # None
        /\ pc' = [pc EXCEPT ![r] = "leaving", ![pendingSteers] = "merging"]
        /\ pendingSteers' = QueueAfterConsume
        /\ UNCHANGED settled
  /\ UNCHANGED <<batchOf, steerTriggeredAborts, sessionVars, req, executionAdmissionLock,
                 issued, granted, retired, raced, registered, pendingApproval,
                 activeAborts, child, handler>>

(* consumePendingSteers goes on: repo and mode are read from the session    *)
(* now.  Its audit entry is file I/O, so the microtasks that release the    *)
(* lock of the run before have run by now.                                  *)
MergedSteersExecute(b) ==
  /\ pc[b] = "merging" /\ \A r \in Ids : pc[r] # "leaving"
  /\ ExecuteOrEnqueue(b, RunRequest("free", selectedRepo, TRUE))
  /\ UNCHANGED <<sessionVars, steerVars, history, registered, pendingApproval,
                 activeAborts, child, handler>>

LeavesSilence == {"asking", "leaving"}
LeavesAt      == {"refusing", "asking", "leaving"}

(* The finally block of executeOrEnqueue, after the last message is sent.   *)
(* What the operation carried is gone, except in an approval record.        *)
LeaveAdmission(r) ==
  /\ pc[r] \in LeavesAt
  /\ executionAdmissionLock' = FALSE
  /\ Goto(r, "idle")
  /\ req' = IF Approving(r) THEN req ELSE [req EXCEPT ![r] = NoRequest]
  /\ UNCHANGED <<sessionVars, steerVars, issued, history, registered,
                 pendingApproval, activeAborts, child, handler>>

-----------------------------------------------------------------------------
Command(c) ==
  \/ \E r \in Reqs, cl \in Classes : HandleRun(c, r, cl)
  \/ \E repo \in Repos : HandleRunWithoutRepo(c, repo)
  \/ \E s \in Steers : HandleSteer(c, s)
  \/ HandleAbort(c)
  \/ HandleMode(c)
  \/ HandleCloseSession(c)
  \/ \E repo \in Repos : HandleRepoSelect(c, repo)
  \/ \E repo \in Repos : HandleRepoInit(c, repo)
  \/ \E repo \in Repos : HandleRepoRemove(c, repo)
  \/ HandleApprove(c)
  \/ HandleDeny(c)
  \/ DecideExternal(c)

(* What a channel's handler does after its await. *)
Continue(c) ==
  \/ \E r \in Reqs, cl \in Classes : RepoSelectedForRun(c, r, cl)
  \/ RunNotStarted(c)
  \/ SteerLogged(c)
  \/ RepoRemovalSaved(c) \/ RepoRemovalFailed(c)
  \/ ApprovalLogged(c)
  \/ ExternalDecided(c)

(* What the operation of an id does by itself. *)
Progress(r) ==
  \/ Refuse(r) \/ AskApproval(r)
  \/ ExecuteTask(r) \/ ExecuteTaskWithoutRepo(r) \/ ExpireThread(r)
  \/ ExpiryAnnounced(r) \/ ExpiryNoticeFails(r)
  \/ StartTask(r) \/ StartTaskThrows(r) \/ DispatchQueuedSteers(r)
  \/ TakeResult(r) \/ Finish(r) \/ ConsumePendingSteers(r)
  \/ MergedSteersExecute(r) \/ LeaveAdmission(r)

Closes(r) == \E found, refused, byError \in BOOLEAN : ChildCloses(r, found, refused, byError)

Next ==
  \/ \E c \in Channels : Command(c) \/ Continue(c)
  \/ \E r \in Ids : Progress(r) \/ Closes(r)
  \/ \E repo \in Repos : RegistryChanges(repo)
  \/ \E x \in Externals : ExternalApprovalRequested(x)

Spec == Init /\ [][Next]_vars

(* Audit entries and messages are written or fail, and codex.timeoutMs      *)
(* kills a child that does not close: what has begun goes on.  No fairness  *)
(* for the commands of users.                                               *)
Fairness ==
  /\ \A r \in Ids : WF_vars(Progress(r)) /\ WF_vars(Closes(r))
  /\ \A c \in Channels : WF_vars(Continue(c))

FairSpec == Spec /\ Fairness

-----------------------------------------------------------------------------
(* Safety.                                                                  *)

(* The admission lock is held exactly while one operation is between the    *)
(* head and the finally block of executeOrEnqueue, and never by two.  The   *)
(* lock is a bare Set entry without an owner: every path through two nested *)
(* finally blocks and a microtask has to keep it so.                        *)
AdmissionExclusive ==
  /\ executionAdmissionLock <=> \E r \in Ids : pc[r] \in Inside
  /\ \A r, q \in Ids : pc[r] \in Inside /\ pc[q] \in Inside => r = q

(* activeRequestId names the operation inside executeTask, from             *)
(* setActiveRequest to its finally block: /abort, /repo, /close and         *)
(* /approve, which look at activeRequestId and not at the lock, are right   *)
(* about whether a request runs.                                            *)
ActiveRequestIsCurrent == \A r \in Ids : activeRequestId = r <=> pc[r] \in Active

(* A living Codex process is the one /abort and shutdown reach: it belongs  *)
(* to the active request and its abort function is registered.              *)
LiveChildIsAbortable ==
  \A r \in Ids : child[r].life = "live" => activeRequestId = r /\ r \in activeAborts

(* Of the requests whose capability needs approval, only those run that     *)
(* the user approved; a barred capability never runs.                       *)
NoUnapprovedRun ==
  \A r \in Reqs : child[r].life # "none" =>
    /\ req[r].class = "approval" => r \in granted
    /\ req[r].class # "barred"

(* A request, or an array of steers, starts one Codex process at most, even *)
(* if /approve arrives twice or a finished run is consumed again.           *)
StartsOnce == [][\A r \in Ids : child[r].life = "closed" => child'[r].life = "closed"]_vars

(* A steer array is in one place: still queued, or taken by the follow-up   *)
(* run named after it, not both.  No instruction is given to Codex twice.   *)
SteersInOnePlace == pendingSteers # None => pc[pendingSteers] = "idle" /\ pendingSteers \notin issued

(* A steer that was applied, thrown away by /abort, dropped or refused does *)
(* not reach Codex (again) in a later run.                                  *)
SettledNotApplied ==
  \A s \in settled : /\ pendingSteers # batchOf[s]
                     /\ pc[batchOf[s]] \notin {"merging", "admitting", "expiring", "starting"}

(* A thread that the user closed, or that idled out or could not be         *)
(* resumed, is not stored again by a run that ends later.                   *)
RetiredThreadStaysClosed == codexThreadId \notin retired

(* A request that waits for its approval is not displaced by another        *)
(* request of the chat: the id the user was asked about stays the id that   *)
(* /approve acts on.  (An external client can displace it: see              *)
(* ApprovalNotReplaced.)                                                    *)
ApprovalKeptByRequests ==
  [][(pendingApproval \in Reqs) => pendingApproval' \in {pendingApproval, None} \cup Externals]_vars

(* A run whose result is suppressed, because a steer aborted it, has a      *)
(* follow-up waiting that reports in its place; else the user hears nothing *)
(* of the run.  An /abort that falls into the audit await of a steer is the *)
(* exception the code has (see the README).                                 *)
NoSilentRun ==
  [][\A r \in Ids : pc[r] = "running" /\ pc'[r] = "reporting" /\ Suppressed(r)
        => pendingSteers # None \/ r \in raced]_vars

(* With one command channel: once no handler is busy, a run with a steer    *)
(* waiting has been told to stop.                                           *)
SteeredRunIsInterrupted ==
  \A r \in Ids :
    /\ pendingSteers # None /\ pc[r] = "running" /\ child[r].life = "live"
    /\ \A c \in Channels : handler[c].at # "steering"
    => child[r].aborted

(* One slot per chat: the detailed specification implements ExecutionSlot.  *)
Holder  == IF \E r \in Ids : pc[r] \in Inside
           THEN CHOOSE r \in Ids : pc[r] \in Inside ELSE None
Process == IF \E r \in Ids : child[r].life = "live"
           THEN CHOOSE r \in Ids : child[r].life = "live" ELSE None
Ended   == {r \in Ids : child[r].life = "closed"}

Slot == INSTANCE ExecutionSlot WITH holder <- Holder, process <- Process, ended <- Ended

ImplementsSlot == Slot!SlotSpec

(* Contradicted by the code.  "CodeFox will apply it automatically"         *)
(* (controller.ts, queueSteerForUninterruptibleRun): a queued steer stays   *)
(* queued or travels with its follow-up run until it is applied or answered. *)
FollowUpKept ==
  \A s \in Steers : batchOf[s] # None /\ s \notin settled =>
    batchOf[s] = pendingSteers \/ pc[batchOf[s]] # "idle"

(* Contradicted by the code.  "Approval already pending for request ...     *)
(* Use /approve or /deny first." (controller.ts, executeOrEnqueue): a       *)
(* pending record is answered before another one takes its place.           *)
ApprovalNotReplaced == [][pendingApproval # None => pendingApproval' \in {pendingApproval, None}]_vars

(* Contradicted by the code.  "blocks repo switching while a request is     *)
(* running" (controller.test.ts): the selected repo of a chat does not      *)
(* change while its request runs.                                           *)
RepoFixedWhileActive == [][activeRequestId # None => selectedRepo' = selectedRepo]_vars

(* Liveness.                                                                *)

(* Every admission ends: no path leaves the chat locked.                    *)
AdmissionEnds == executionAdmissionLock ~> ~executionAdmissionLock

(* Steers queued for an active request leave the queue: applied or answered. *)
QueueDrains == pendingSteers # None /\ activeRequestId # None ~> pendingSteers = None
=============================================================================
