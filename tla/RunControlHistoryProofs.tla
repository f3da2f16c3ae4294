----------------------- MODULE RunControlHistoryProofs -----------------------
(***************************************************************************)
(* More theorems about RunControl, for every value of its constants: what   *)
(* becomes of steers that were answered, of threads that were closed, and  *)
(* of runs that a steer interrupts.  RunControlProofs has the invariant    *)
(* they build on, IInv.                                                    *)
(***************************************************************************)
EXTENDS RunControlProofs

USE DEF sessionVars, steerVars, opVars, history

-----------------------------------------------------------------------------
(* The inductive invariants.                                               *)

(* An array is named after a steer of its own.                             *)
ArraysNamed ==
  /\ pendingSteers # None => batchOf[pendingSteers] = pendingSteers
  /\ \A s \in Steers : batchOf[s] # None => batchOf[batchOf[s]] = batchOf[s]

(* An array of steers that will not be given to Codex any more.            *)
Spent(b) == /\ pendingSteers # b
            /\ pc[b] \notin {"merging", "admitting", "expiring", "starting"}

SettledSpent == \A s \in settled : batchOf[s] \in Steers /\ Spent(batchOf[s])

SteersInv == ArraysNamed /\ SettledSpent

(* A thread that anything remembers was made by a run that is over: the id *)
(* of a run that is still to start, or running, is no thread yet.          *)
Remembered(i) == \/ i \in retired \/ codexThreadId = i
                 \/ \E q \in Ids : req[q].resume = i

ThreadsMade ==
  \A i \in Ids : Remembered(i) =>
    child[i].life = "closed" /\ pc[i] \notin {"dispatching", "running"}

(* Nobody closes the thread that a run has resumed while the run lasts.    *)
ResumedIsOpen ==
  \A r \in Ids : pc[r] \in {"starting", "dispatching", "running"} => req[r].resume \notin retired

ThreadsInv == ThreadsMade /\ ResumedIsOpen /\ RetiredThreadStaysClosed

(* An abort function is that of a process; so is the target of a steer.    *)
AbortsHaveChild ==
  /\ \A r \in activeAborts : child[r].life # "none"
  /\ \A c \in Channels : handler[c].at = "steering" => child[handler[c].id].life # "none"

(* When the queue of a run is empty and no /abort raced with a steer, no   *)
(* steer is being logged for it, and one that is logged for an earlier run *)
(* finds a process that nobody aborted.                                    *)
NoStrayAbort ==
  \A r \in Ids :
    /\ pc[r] \in {"dispatching", "running"}
    /\ pendingSteers = None /\ r \notin raced
    => /\ pc[r] = "running"
       /\ \A c \in Channels : handler[c].at = "steering" => handler[c].id # r
       /\ child[r].aborted => /\ r \notin steerTriggeredAborts
                              /\ \A c \in Channels : handler[c].at # "steering"

AbortsInv == AbortsHaveChild /\ NoStrayAbort

HInv == SteersInv /\ ThreadsInv /\ AbortsInv

(* With one channel: a run that is not told to stop yet, although a steer  *)
(* waits, is the target of the steer being logged, the only one waiting.   *)
SteerOnItsWay ==
  \A r \in Ids :
    /\ pendingSteers # None /\ pc[r] = "running"
    /\ child[r].life = "live" /\ ~child[r].aborted
    => \E c \in Channels :
         /\ handler[c].at = "steering" /\ handler[c].id = r
         /\ Batch(batchOf[handler[c].steer]) = {handler[c].steer}

-----------------------------------------------------------------------------
(* What the steps do to the variables these invariants are about.          *)

(* Steers, their handlers and the processes stay as they are.              *)
SteersRest ==
  /\ UNCHANGED <<steerVars, settled, raced, child>>
  /\ \A c \in Channels : handler[c].at = "steering" \/ handler'[c].at = "steering"
                         => handler'[c] = handler[c]

(* A steer is sent, logged or thrown away by a command.                    *)
SteerCommand(c) == \/ \E s \in Steers : HandleSteer(c, s)
                   \/ SteerLogged(c) \/ HandleAbort(c)

(* An operation gives its steers to Codex, or answers them.                *)
Answers(r) == \/ Refuse(r) \/ ExecuteTaskWithoutRepo(r) \/ ExpiryNoticeFails(r)
              \/ StartTask(r) \/ StartTaskThrows(r)

(* A handler that takes up, or ends, something else than a steer.          *)
LEMMA SteeringStays ==
  ASSUME TypeOK, NEW c \in Channels, NEW h, h.at # "steering", handler[c].at # "steering",
         handler' = [handler EXCEPT ![c] = h]
  PROVE  \A d \in Channels : handler[d].at = "steering" \/ handler'[d].at = "steering"
                             => handler'[d] = handler[d]
BY DEF TypeOK

(* Every step is one of these, or leaves the steers alone.                 *)
LEMMA SteerChanges ==
  ASSUME TypeOK, [Next]_vars
  PROVE  \/ SteersRest
         \/ \E c \in Channels : SteerCommand(c)
         \/ \E r \in Ids : \/ Answers(r) \/ DispatchQueuedSteers(r) \/ Finish(r)
                           \/ ConsumePendingSteers(r) \/ Closes(r)
<1> USE DEF SteersRest, Ready, Done, Idle
<1>1. ASSUME NEW c \in Channels, NEW r \in Reqs, NEW cl \in Classes,
             HandleRun(c, r, cl) \/ RepoSelectedForRun(c, r, cl)
      PROVE  SteersRest
  BY <1>1, SteeringStays DEF HandleRun, RepoSelectedForRun
<1>2. ASSUME NEW c \in Channels, NEW repo \in Repos,
             \/ HandleRunWithoutRepo(c, repo) \/ HandleRepoSelect(c, repo)
             \/ HandleRepoInit(c, repo) \/ HandleRepoRemove(c, repo)
      PROVE  SteersRest
  BY <1>2, SteeringStays DEF HandleRunWithoutRepo, HandleRepoSelect, HandleRepoInit,
     HandleRepoRemove
<1>3. ASSUME NEW c \in Channels,
             \/ HandleMode(c) \/ HandleCloseSession(c) \/ HandleDeny(c) \/ DecideExternal(c)
             \/ HandleApprove(c) \/ RunNotStarted(c)
      PROVE  SteersRest
  BY <1>3, SteeringStays DEF HandleMode, HandleCloseSession, HandleDeny, DecideExternal,
     HandleApprove, RunNotStarted
<1>4. ASSUME NEW c \in Channels,
             RepoRemovalSaved(c) \/ RepoRemovalFailed(c) \/ ApprovalLogged(c) \/ ExternalDecided(c)
      PROVE  SteersRest
  BY <1>4, SteeringStays DEF RepoRemovalSaved, RepoRemovalFailed, ApprovalLogged, ExternalDecided
<1>5. ASSUME NEW r \in Ids,
             \/ AskApproval(r) \/ ExecuteTask(r) \/ ExpireThread(r) \/ ExpiryAnnounced(r)
             \/ TakeResult(r) \/ MergedSteersExecute(r) \/ LeaveAdmission(r)
      PROVE  SteersRest
  BY <1>5 DEF AskApproval, ExecuteTask, ExpireThread, ExpiryAnnounced, TakeResult,
     MergedSteersExecute, LeaveAdmission
<1>6. ASSUME NEW repo \in Repos, RegistryChanges(repo)
      PROVE  SteersRest
  BY <1>6 DEF RegistryChanges
<1>7. ASSUME NEW x \in Externals, ExternalApprovalRequested(x)
      PROVE  SteersRest
  BY <1>7 DEF ExternalApprovalRequested
<1>8. CASE UNCHANGED vars
  BY <1>8 DEF vars
<1> HIDE DEF SteersRest, Ready, Done, Idle
<1>9. ASSUME NEW c \in Channels, Command(c) \/ Continue(c), ~SteerCommand(c)
      PROVE  SteersRest
  BY <1>1, <1>2, <1>3, <1>4, <1>9 DEF Command, Continue, SteerCommand
<1>10. ASSUME NEW r \in Ids, Progress(r)
       PROVE  \/ SteersRest \/ Answers(r) \/ DispatchQueuedSteers(r) \/ Finish(r)
              \/ ConsumePendingSteers(r)
  BY <1>5, <1>10 DEF Progress, Answers
<1> QED
  BY <1>6, <1>7, <1>8, <1>9, <1>10 DEF Next

(* The threads that the chat, an operation or the history remembers stay,  *)
(* or are forgotten.                                                       *)
ThreadsRest ==
  /\ UNCHANGED retired
  /\ codexThreadId' \in {codexThreadId, None}
  /\ \A q \in Ids : req'[q].resume \in {req[q].resume, None}

(* The thread is closed for good, while no request is active.              *)
ThreadCloses ==
  /\ retired' = retired \cup ({codexThreadId} \ {None})
  /\ codexThreadId' = None
  /\ UNCHANGED req
  /\ \A r \in Ids : pc[r] \notin Active /\ pc'[r] \notin Active

(* Entering admission resumes nothing yet.                                 *)
LEMMA EnteringResumesNothing ==
  ASSUME TypeOK, NEW r \in Ids, NEW q \in Requests, q.resume \in {req[r].resume, None},
         ExecuteOrEnqueue(r, q)
  PROVE  \A i \in Ids : req'[i].resume \in {req[i].resume, None}
BY DEF ExecuteOrEnqueue, TypeOK

(* Every step is one of these; only three kinds store, or close, a thread. *)
LEMMA ThreadChanges ==
  ASSUME IInv, [Next]_vars
  PROVE  \/ ThreadsRest
         \/ ThreadCloses
         \/ \E r \in Ids : ExecuteTask(r) \/ TakeResult(r)
<1> USE DEF ThreadsRest, ClearThread, IInv
<1>1. ASSUME NEW c \in Channels, NEW r \in Reqs, NEW cl \in Classes,
             HandleRun(c, r, cl) \/ RepoSelectedForRun(c, r, cl)
      PROVE  ThreadsRest
  <2>1. PICK repo \in Repos \cup {None} : ExecuteOrEnqueue(r, RunRequest(cl, repo, FALSE))
    BY <1>1 DEF HandleRun, RepoSelectedForRun, TypeOK, Handlers
  <2>2. RunRequest(cl, repo, FALSE) \in Requests /\ RunRequest(cl, repo, FALSE).resume = None
    BY RunRequestType DEF RunRequest
  <2> QED
    BY <1>1, <2>1, <2>2, EnteringResumesNothing DEF HandleRun, RepoSelectedForRun, Ids
<1>2. ASSUME NEW c \in Channels, ApprovalLogged(c)
      PROVE  ThreadsRest
  <2>1. PICK r \in Ids : r = handler[c].id /\ ApprovalLogged(c)
    BY <1>2 DEF ApprovalLogged, HandlersCarry, Ids
  <2> DEFINE q == [req[r] EXCEPT !.bypass = TRUE]
  <2>2. q \in Requests /\ q.resume = req[r].resume
    <3>1. req[r] \in Requests
      BY DEF TypeOK
    <3> QED
      BY <3>1 DEF Requests
  <2>3. ExecuteOrEnqueue(r, q)
    BY <2>1 DEF ApprovalLogged
  <2> HIDE DEF q
  <2> QED
    BY <2>1, <2>2, <2>3, EnteringResumesNothing DEF ApprovalLogged
<1>3. ASSUME NEW r \in Ids, MergedSteersExecute(r)
      PROVE  ThreadsRest
  <2>1. /\ RunRequest("free", selectedRepo, TRUE) \in Requests
        /\ RunRequest("free", selectedRepo, TRUE).resume = None
    BY RunRequestType DEF TypeOK, Classes, RunRequest
  <2> QED
    BY <1>3, <2>1, EnteringResumesNothing DEF MergedSteersExecute
<1>4. ASSUME NEW c \in Channels, NEW repo \in Repos,
             HandleRunWithoutRepo(c, repo) \/ HandleRepoInit(c, repo)
      PROVE  ThreadsRest
  BY <1>4 DEF HandleRunWithoutRepo, HandleRepoInit
<1>5. ASSUME NEW c \in Channels,
             \/ HandleMode(c) \/ HandleDeny(c) \/ DecideExternal(c) \/ HandleApprove(c)
             \/ HandleAbort(c) \/ (\E s \in Steers : HandleSteer(c, s))
      PROVE  ThreadsRest
  BY <1>5 DEF HandleMode, HandleDeny, DecideExternal, HandleApprove, HandleAbort, HandleSteer
<1>6. ASSUME NEW c \in Channels,
             \/ RunNotStarted(c) \/ SteerLogged(c) \/ RepoRemovalSaved(c) \/ RepoRemovalFailed(c)
             \/ ExternalDecided(c)
      PROVE  ThreadsRest
  BY <1>6 DEF RunNotStarted, SteerLogged, RepoRemovalSaved, RepoRemovalFailed, ExternalDecided
<1>7. ASSUME NEW c \in Channels,
             \/ HandleCloseSession(c)
             \/ \E repo \in Repos : HandleRepoSelect(c, repo) \/ HandleRepoRemove(c, repo)
      PROVE  ThreadsRest \/ ThreadCloses
  <2>1. activeRequestId = None /\ UNCHANGED <<pc, req>>
    BY <1>7 DEF HandleCloseSession, HandleRepoSelect, HandleRepoRemove, MayClose
  <2>2. \A r \in Ids : pc[r] \notin Active /\ pc'[r] \notin Active
    BY <2>1, NamesAreDistinct DEF ActiveRequestIsCurrent, Ids
  <2> QED
    BY <1>7, <2>1, <2>2
       DEF HandleCloseSession, HandleRepoSelect, HandleRepoRemove, Retire, ThreadCloses
<1>8. ASSUME NEW r \in Ids, ExpireThread(r)
      PROVE  ThreadCloses
  <2>1. pc[r] = "admitting" /\ pc' = [pc EXCEPT ![r] = "expiring"] /\ UNCHANGED req
    BY <1>8 DEF ExpireThread, Goto
  <2>2. \A i \in Ids : pc[i] \notin Active /\ pc'[i] \notin Active
    BY <2>1 DEF AdmissionExclusive, Inside, Preparing, Active, TypeOK
  <2> QED
    BY <1>8, <2>1, <2>2 DEF ExpireThread, Retire, ThreadCloses
<1>9. ASSUME NEW r \in Ids, ExpiryAnnounced(r) \/ Finish(r) \/ LeaveAdmission(r)
      PROVE  ThreadsRest
  BY <1>9 DEF ExpiryAnnounced, SetActive, Finish, LeaveAdmission, NoRequest, TypeOK, Requests
<1>10. ASSUME NEW r \in Ids,
              \/ Answers(r) \/ AskApproval(r) \/ DispatchQueuedSteers(r)
              \/ ConsumePendingSteers(r) \/ Closes(r)
       PROVE  ThreadsRest
  BY <1>10 DEF Answers, Refuse, ExecuteTaskWithoutRepo, ExpiryNoticeFails, StartTask,
     StartTaskThrows, AskApproval, DispatchQueuedSteers, ConsumePendingSteers, Closes, ChildCloses
<1>11. ASSUME NEW repo \in Repos, RegistryChanges(repo)
       PROVE  ThreadsRest
  BY <1>11 DEF RegistryChanges
<1>12. ASSUME NEW x \in Externals, ExternalApprovalRequested(x)
       PROVE  ThreadsRest
  BY <1>12 DEF ExternalApprovalRequested
<1>13. CASE UNCHANGED vars
  BY <1>13 DEF vars
<1> HIDE DEF ThreadsRest, ClearThread, IInv
<1>14. ASSUME NEW c \in Channels, Command(c)
       PROVE  ThreadsRest \/ ThreadCloses
  BY <1>1, <1>4, <1>5, <1>7, <1>14 DEF Command
<1>15. ASSUME NEW c \in Channels, Continue(c)
       PROVE  ThreadsRest
  BY <1>1, <1>2, <1>6, <1>15 DEF Continue
<1>16. ASSUME NEW r \in Ids, Progress(r)
       PROVE  ThreadsRest \/ ThreadCloses \/ ExecuteTask(r) \/ TakeResult(r)
  BY <1>3, <1>8, <1>9, <1>10, <1>16 DEF Progress, Answers
<1> QED
  BY <1>10, <1>11, <1>12, <1>13, <1>14, <1>15, <1>16 DEF Next

(* How an operation comes to a phase in which its process runs, in which   *)
(* it is to start, or in which steers wait for it to start.                *)
LEMMA PhaseSteps ==
  ASSUME IInv, [Next]_vars, NEW i \in Ids
  PROVE  /\ pc'[i] \in {"dispatching", "running"} =>
              pc'[i] = pc[i] \/ StartTask(i) \/ DispatchQueuedSteers(i)
         /\ pc'[i] = "starting" => pc[i] = "starting" \/ ExecuteTask(i) \/ ExpiryAnnounced(i)
         /\ i \in Steers /\ pc'[i] \in {"merging", "admitting", "expiring", "starting"} =>
              \/ pc[i] \in {"merging", "admitting", "expiring", "starting"}
              \/ i = pendingSteers
<1> USE DEF IInv
<1> DEFINE Goal == /\ pc'[i] \in {"dispatching", "running"} =>
                        pc'[i] = pc[i] \/ StartTask(i) \/ DispatchQueuedSteers(i)
                   /\ pc'[i] = "starting" =>
                        pc[i] = "starting" \/ ExecuteTask(i) \/ ExpiryAnnounced(i)
                   /\ /\ i \in Steers
                      /\ pc'[i] \in {"merging", "admitting", "expiring", "starting"}
                      => \/ pc[i] \in {"merging", "admitting", "expiring", "starting"}
                         \/ i = pendingSteers
<1>1. CASE pc'[i] = pc[i]
  BY <1>1
<1>2. ASSUME NEW r \in Ids, NEW q \in Requests, Enters(r, q), pc'[i] # pc[i]
      PROVE  Goal
  <2>1. i = r /\ pc'[i] \in {"idle", "admitting", "refusing"}
    BY <1>2 DEF Enters, ExecuteOrEnqueue, Goto, TypeOK
  <2>2. i \in Steers => pc[i] = "merging"
    BY <1>2, <2>1, NamesAreDistinct DEF Enters, ApprovalInOnePlace
  <2> QED
    BY <2>1, <2>2
<1>3. ASSUME NEW r \in Ids, OwnStep(r), i # r, pc'[i] # pc[i]
      PROVE  Goal
  <2>1. i = pendingSteers /\ pc'[i] = "merging"
    BY <1>3, OwnStepMoves
  <2> QED
    BY <2>1
<1>4. ASSUME OwnStep(i)
      PROVE  Goal
  <2> USE DEF Goto, TypeOK
  <2>1. CASE StartTask(i) \/ DispatchQueuedSteers(i)
    BY <2>1 DEF StartTask, DispatchQueuedSteers
  <2>2. CASE ExecuteTask(i) \/ ExpiryAnnounced(i) \/ ExpireThread(i)
    BY <2>2 DEF ExecuteTask, ExpiryAnnounced, ExpireThread, SetActive
  <2>3. CASE ConsumePendingSteers(i)
    BY <2>3 DEF ConsumePendingSteers, SteersInOnePlace
  <2>4. CASE LeaveAdmission(i) \/ AskApproval(i) \/ TakeResult(i) \/ Finish(i)
    BY <2>4 DEF LeaveAdmission, AskApproval, TakeResult, Finish
  <2>5. CASE Answers(i)
    BY <2>5 DEF Answers, Refuse, ExecuteTaskWithoutRepo, ExpiryNoticeFails, StartTaskThrows,
       StartTask
  <2> QED
    BY <1>4, <2>1, <2>2, <2>3, <2>4, <2>5 DEF OwnStep, Progress, Answers
<1>5. OperationsRest \/ (\E r \in Ids : Closes(r)) => pc'[i] = pc[i]
  BY DEF OperationsRest, Closes, ChildCloses
<1> QED
  BY <1>1, <1>2, <1>3, <1>4, <1>5, StepKinds

(* A process starts once, and ends once.                                   *)
LEMMA LivesGoOn ==
  ASSUME IInv, [Next]_vars, NEW i \in Ids
  PROVE  /\ child'[i].life = "none" => child[i].life = "none"
         /\ child'[i].life = "live" => child[i].life = "live" \/ StartTask(i)
         /\ child[i].life = "closed" => child'[i].life = "closed"
<1> USE DEF IInv
<1>1. ASSUME NEW r \in Ids, StartTask(r)
      PROVE  /\ child[r].life = "none" /\ child'[r].life = "live"
             /\ \A j \in Ids \ {r} : child'[j] = child[j]
  BY <1>1 DEF StartTask, Unstarted, MayStart, TypeOK
<1>2. ASSUME NEW r \in Ids, Closes(r)
      PROVE  /\ child[r].life = "live" /\ child'[r].life = "closed"
             /\ \A j \in Ids \ {r} : child'[j] = child[j]
  BY <1>2 DEF Closes, ChildCloses, TypeOK
<1>3. ASSUME NEW r \in Ids, StartTask(r) \/ Closes(r)
      PROVE  /\ child'[i].life = "none" => child[i].life = "none"
             /\ child'[i].life = "live" => child[i].life = "live" \/ StartTask(i)
             /\ child[i].life = "closed" => child'[i].life = "closed"
  BY <1>1, <1>2, <1>3
<1> QED
  BY <1>3, LivesKept, StepKinds DEF OperationsRest, Enters

-----------------------------------------------------------------------------
(* Steers that were answered.                                              *)

(* A step keeps the names of the arrays, and who is in which array.        *)
LEMMA ArraysStep ==
  ASSUME IInv, ArraysNamed, [Next]_vars
  PROVE  /\ ArraysNamed'
         /\ \A s \in Steers : batchOf[s] # None => batchOf'[s] = batchOf[s]
<1> USE DEF IInv
<1>1. CASE pendingSteers' \in {pendingSteers, None} /\ UNCHANGED batchOf
  BY <1>1 DEF ArraysNamed
<1>2. ASSUME NEW c \in Channels, NEW s \in Steers, HandleSteer(c, s)
      PROVE  /\ ArraysNamed'
             /\ \A t \in Steers : batchOf[t] # None => batchOf'[t] = batchOf[t]
  <2> DEFINE b == IF pendingSteers = None THEN s ELSE pendingSteers
  <2>1. batchOf[s] = None /\ pendingSteers' = b /\ batchOf' = [batchOf EXCEPT ![s] = b]
    BY <1>2 DEF HandleSteer, Push
  <2>2. /\ b \in Steers /\ b # None /\ batchOf'[s] = b
        /\ \A t \in Steers \ {s} : batchOf'[t] = batchOf[t]
    BY <2>1, NamesAreDistinct DEF TypeOK
  <2>3. batchOf'[b] = b
    BY <2>1, <2>2 DEF ArraysNamed
  <2>4. ASSUME NEW t \in Steers, batchOf'[t] # None
        PROVE  batchOf'[batchOf'[t]] = batchOf'[t]
    <3>1. CASE t = s
      BY <2>2, <2>3, <3>1
    <3>2. CASE t # s
      <4>1. batchOf'[t] = batchOf[t] /\ batchOf[t] \in Steers /\ batchOf[batchOf[t]] = batchOf[t]
        BY <2>2, <2>4, <3>2 DEF TypeOK, ArraysNamed
      <4>2. batchOf[t] # s
        BY <2>1, <2>2, <2>4, <4>1
      <4> QED
        BY <2>2, <4>1, <4>2
    <3> QED
      BY <3>1, <3>2
  <2> QED
    BY <2>1, <2>2, <2>3, <2>4 DEF ArraysNamed
<1> QED
  BY <1>1, <1>2, SteerKinds

(* An array that is spent stays so.                                        *)
LEMMA SpentStays ==
  ASSUME IInv, ArraysNamed, [Next]_vars, NEW b \in Steers, batchOf[b] = b, Spent(b)
  PROVE  Spent(b)'
<1> USE DEF IInv
<1>1. pendingSteers' # b
  <2>1. ASSUME NEW c \in Channels, NEW s \in Steers, HandleSteer(c, s)
        PROVE  pendingSteers' # b
    BY <2>1, NamesAreDistinct DEF HandleSteer, Push, Spent
  <2> QED
    BY <2>1, SteerKinds, NamesAreDistinct DEF Spent
<1>2. pc'[b] \notin {"merging", "admitting", "expiring", "starting"}
  BY PhaseSteps DEF Spent, Ids
<1> QED
  BY <1>1, <1>2 DEF Spent

(* What a step answers is spent after it.                                  *)
LEMMA AnsweredIsSpent ==
  ASSUME IInv, [Next]_vars, NEW s \in settled', s \notin settled
  PROVE  batchOf[s] \in Steers /\ batchOf'[s] = batchOf[s] /\ Spent(batchOf[s])'
<1> USE DEF IInv
<1> DEFINE Goal == batchOf[s] \in Steers /\ batchOf'[s] = batchOf[s] /\ Spent(batchOf[s])'
(* The queue is thrown away.                                               *)
<1>1. ASSUME s \in Batch(pendingSteers), pendingSteers' = None, UNCHANGED batchOf,
             NEW r \in Ids, pc[r] # "idle",
             \A i \in Ids \ {r} : pc'[i] = pc[i]
      PROVE  Goal
  BY <1>1, NamesAreDistinct DEF Batch, SteersInOnePlace, Spent, TypeOK, Ids
(* The operation named after the array has come past startTask, or failed. *)
<1>2. ASSUME NEW r \in Ids, s \in Batch(r), UNCHANGED <<pendingSteers, batchOf>>,
             pc[r] # "idle", pc'[r] \notin {"merging", "admitting", "expiring", "starting"}
      PROVE  Goal
  BY <1>2 DEF Batch, SteersInOnePlace, Spent, TypeOK
<1>3. ASSUME NEW c \in Channels, SteerCommand(c)
      PROVE  Goal
  <2>1. HandleAbort(c)
    BY <1>3 DEF SteerCommand, HandleSteer, SteerLogged
  <2>2. /\ s \in Batch(pendingSteers) /\ pendingSteers' = None
        /\ UNCHANGED <<batchOf, pc>>
    BY <2>1 DEF HandleAbort, Answer, QueueAfterAbort
  <2>3. activeRequestId \in Ids /\ pc[activeRequestId] # "idle"
    BY <2>1 DEF HandleAbort, Interruptible, AbortsRegistered, TypeOK
  <2> QED
    BY <1>1, <2>2, <2>3
<1>4. ASSUME NEW r \in Ids, Answers(r)
      PROVE  Goal
  <2>1. /\ s \in Batch(r) /\ UNCHANGED <<pendingSteers, batchOf>>
        /\ pc[r] # "idle" /\ pc'[r] \notin {"merging", "admitting", "expiring", "starting"}
    BY <1>4 DEF Answers, Refuse, ExecuteTaskWithoutRepo, ExpiryNoticeFails, StartTask,
       StartTaskThrows, Answer, Goto, TypeOK
  <2> QED
    BY <1>2, <2>1
<1>5. ASSUME NEW r \in Ids, Finish(r)
      PROVE  Goal
  <2>1. s \in Batch(pendingSteers) /\ child[r].rejected
    BY <1>5 DEF Finish, Answer
  <2>2. /\ pendingSteers' = None /\ UNCHANGED batchOf /\ pc[r] # "idle"
        /\ \A i \in Ids \ {r} : pc'[i] = pc[i]
    BY <1>5, <2>1 DEF Finish, QueueAfterRun, Goto, TypeOK
  <2> QED
    BY <1>1, <2>1, <2>2
<1>6. ASSUME NEW r \in Ids, ConsumePendingSteers(r)
      PROVE  Goal
  <2>1. /\ s \in Batch(pendingSteers) /\ pendingSteers' = None /\ UNCHANGED batchOf
        /\ pc[r] # "idle" /\ pc' = [pc EXCEPT ![r] = "leaving"]
    BY <1>6 DEF ConsumePendingSteers, Answer, Goto
  <2> QED
    BY <1>1, <2>1 DEF TypeOK
<1>7. ASSUME NEW r \in Ids, DispatchQueuedSteers(r) \/ Closes(r)
      PROVE  Goal
  BY <1>7 DEF DispatchQueuedSteers, Closes, ChildCloses
<1> QED
  BY <1>3, <1>4, <1>5, <1>6, <1>7, SteerChanges DEF SteersRest

(* A step keeps SteersInv.                                                 *)
LEMMA SteersInvStep ==
  ASSUME IInv, TypeOK', SteersInv, [Next]_vars
  PROVE  SteersInv'
<1> USE DEF SteersInv
<1>1. ASSUME NEW s \in settled'
      PROVE  (batchOf[s] \in Steers /\ Spent(batchOf[s]))'
  <2>1. CASE s \notin settled
    BY <2>1, AnsweredIsSpent
  <2>2. CASE s \in settled
    <3>1. s \in Steers /\ batchOf[s] \in Steers /\ Spent(batchOf[s])
      BY <2>2 DEF SettledSpent, IInv, TypeOK
    <3>2. batchOf[batchOf[s]] = batchOf[s] /\ batchOf'[s] = batchOf[s]
      BY <3>1, ArraysStep, NamesAreDistinct DEF ArraysNamed
    <3>3. PICK b \in Steers : b = batchOf[s]
      BY <3>1
    <3>4. Spent(b)'
      BY <3>1, <3>2, <3>3, SpentStays
    <3> QED
      BY <3>2, <3>3, <3>4 DEF Spent
  <2> QED
    BY <2>1, <2>2
<1>2. SettledSpent'
  BY <1>1 DEF SettledSpent
<1> QED
  BY <1>2, ArraysStep

-----------------------------------------------------------------------------
(* Threads that were closed.                                               *)

(* A step keeps ThreadsMade: what is newly remembered is the thread of a    *)
(* run that has just ended.                                                *)
LEMMA ThreadsMadeStep ==
  ASSUME IInv, ThreadsMade, [Next]_vars
  PROVE  ThreadsMade'
<1> USE DEF IInv
<1> SUFFICES ASSUME NEW i \in Ids, Remembered(i)'
             PROVE  child'[i].life = "closed" /\ pc'[i] \notin {"dispatching", "running"}
  BY DEF ThreadsMade
<1>1. CASE Remembered(i)
  <2>1. child[i].life = "closed" /\ pc[i] \notin {"dispatching", "running"}
    BY <1>1 DEF ThreadsMade
  <2>2. ~StartTask(i) /\ ~DispatchQueuedSteers(i)
    BY <2>1 DEF StartTask, DispatchQueuedSteers, Unstarted, MayStart
  <2> QED
    BY <2>1, <2>2, LivesGoOn, PhaseSteps
<1>2. CASE ~Remembered(i)
  <2>1. i # None
    BY NamesAreDistinct DEF Ids
  <2>2. ~ThreadsRest /\ ~ThreadCloses
    BY <1>2, <2>1 DEF ThreadsRest, ThreadCloses, Remembered
  <2>3. ASSUME NEW r \in Ids, ExecuteTask(r)
        PROVE  FALSE
    <3>1. /\ UNCHANGED <<retired, codexThreadId>>
          /\ \A q \in Ids : req'[q].resume \in {req[q].resume, codexThreadId}
      BY <2>3 DEF ExecuteTask, SetActive, TypeOK, Requests
    <3> QED
      BY <1>2, <3>1 DEF Remembered
  <2>4. ASSUME NEW r \in Ids, TakeResult(r)
        PROVE  /\ i = r /\ pc'[i] = "reporting" /\ child'[i].life = "closed"
    <3>1. /\ retired' \subseteq retired \cup {req[r].resume}
          /\ codexThreadId' \in {None, r, req[r].resume, codexThreadId}
          /\ UNCHANGED <<req, child>> /\ child[r].life = "closed" /\ pc'[r] = "reporting"
      BY <2>4 DEF TakeResult, ThreadAfter, Goto, TypeOK
    <3> QED
      BY <1>2, <2>1, <3>1 DEF Remembered
  <2> QED
    BY <2>2, <2>3, <2>4, ThreadChanges
<1> QED
  BY <1>1, <1>2

(* A step keeps ThreadsInv.                                                *)
LEMMA ThreadsInvStep ==
  ASSUME IInv, ThreadsInv, [Next]_vars
  PROVE  ThreadsInv'
<1> USE DEF IInv, ThreadsInv
<1> DEFINE Begun(i) == pc[i] \in {"starting", "dispatching", "running"}
<1>1. None \notin retired
  BY NamesAreDistinct DEF TypeOK, Ids
(* Who is to start, or runs, did so before, or has just read the thread.   *)
<1>2. ASSUME NEW i \in Ids, Begun(i)'
      PROVE  Begun(i) \/ ExecuteTask(i) \/ ExpiryAnnounced(i)
  BY <1>2, PhaseSteps DEF StartTask, DispatchQueuedSteers
<1>3. CASE ThreadsRest
  <2>1. RetiredThreadStaysClosed'
    BY <1>1, <1>3 DEF ThreadsRest, RetiredThreadStaysClosed
  <2>2. ASSUME NEW i \in Ids, Begun(i)'
        PROVE  req'[i].resume \notin retired
    <3>1. CASE Begun(i)
      BY <1>1, <1>3, <3>1 DEF ThreadsRest, ResumedIsOpen
    <3>2. CASE ExecuteTask(i)
      BY <3>2 DEF ExecuteTask, SetActive, RetiredThreadStaysClosed, TypeOK, Requests
    <3>3. CASE ExpiryAnnounced(i)
      BY <1>1, <3>3 DEF ExpiryAnnounced, SetActive, TypeOK, Requests
    <3> QED
      BY <1>2, <2>2, <3>1, <3>2, <3>3
  <2>3. ResumedIsOpen'
    BY <1>3, <2>2 DEF ThreadsRest, ResumedIsOpen
  <2> QED
    BY <2>1, <2>3, ThreadsMadeStep
<1>4. CASE ThreadCloses
  <2>1. RetiredThreadStaysClosed'
    BY <1>1, <1>4 DEF ThreadCloses, RetiredThreadStaysClosed
  <2>2. ResumedIsOpen'
    BY <1>4 DEF ThreadCloses, ResumedIsOpen, Active
  <2> QED
    BY <2>1, <2>2, ThreadsMadeStep
<1>5. ASSUME NEW r \in Ids, ExecuteTask(r)
      PROVE  ThreadsInv'
  <2>1. RetiredThreadStaysClosed'
    BY <1>5 DEF ExecuteTask, RetiredThreadStaysClosed
  <2>2. /\ UNCHANGED retired /\ pc' = [pc EXCEPT ![r] = "starting"]
        /\ req'[r].resume = codexThreadId
        /\ \A i \in Ids \ {r} : req'[i] = req[i]
    BY <1>5 DEF ExecuteTask, SetActive, Goto, TypeOK, Requests
  <2>3. ResumedIsOpen'
    BY <2>2 DEF ResumedIsOpen, RetiredThreadStaysClosed, TypeOK
  <2> QED
    BY <2>1, <2>3, ThreadsMadeStep
<1>6. ASSUME NEW r \in Ids, TakeResult(r)
      PROVE  ThreadsInv'
  <2>1. /\ pc[r] = "running" /\ pc' = [pc EXCEPT ![r] = "reporting"] /\ UNCHANGED req
        /\ codexThreadId' = ThreadAfter(r)
        /\ retired' = IF child[r].rejected THEN retired \cup {req[r].resume} ELSE retired
    BY <1>6 DEF TakeResult, Goto
  <2>2. req[r].resume \notin retired /\ r \notin retired
    BY <2>1 DEF ResumedIsOpen, ThreadsMade, Remembered
  <2>3. child[r].rejected => req[r].resume # None
    BY DEF RejectedResumed
  <2>4. RetiredThreadStaysClosed'
    BY <1>1, <2>1, <2>2, <2>3 DEF ThreadAfter, RetiredThreadStaysClosed
  <2>5. \A i \in Ids \ {r} : pc'[i] = pc[i] /\ pc[i] \notin Inside
    BY <2>1 DEF AdmissionExclusive, Inside, Active, TypeOK
  <2>6. pc'[r] = "reporting"
    BY <2>1 DEF TypeOK
  <2>7. ResumedIsOpen'
    BY <2>5, <2>6 DEF ResumedIsOpen, Inside, Active
  <2> QED
    BY <2>4, <2>7, ThreadsMadeStep
<1> HIDE DEF ThreadsInv
<1> QED
  BY <1>3, <1>4, <1>5, <1>6, ThreadChanges

-----------------------------------------------------------------------------
(* Runs that a steer interrupts.                                           *)

(* Only startTask registers an abort function.                             *)
LEMMA AbortsComeFromStarts ==
  ASSUME IInv, [Next]_vars, NEW r \in activeAborts'
  PROVE  r \in activeAborts \/ \E i \in Ids : r = i /\ StartTask(i)
<1>1. ASSUME NEW i \in Ids, OwnStep(i), ~StartTask(i)
      PROVE  activeAborts' \subseteq activeAborts
  BY <1>1 DEF OwnStep, Progress, Refuse, AskApproval, ExecuteTask, ExecuteTaskWithoutRepo,
     ExpireThread, ExpiryAnnounced, ExpiryNoticeFails, StartTaskThrows, DispatchQueuedSteers,
     TakeResult, Finish, ConsumePendingSteers, LeaveAdmission
<1>2. ASSUME NEW i \in Ids, StartTask(i)
      PROVE  activeAborts' = activeAborts \cup {i}
  BY <1>2 DEF StartTask, AbortsAfterStart
<1> QED
  BY <1>1, <1>2, StepKinds DEF IInv, OperationsRest, Enters, Closes, ChildCloses

(* A handler that logs a steer after a step did so before it, or has just  *)
(* found the abort function of the active request.                         *)
LEMMA SteeringComesFromSteer ==
  ASSUME TypeOK, [Next]_vars, NEW c \in Channels, handler'[c].at = "steering"
  PROVE  \/ handler'[c] = handler[c]
         \/ \E s \in Steers : HandleSteer(c, s) /\ Interruptible /\ handler'[c].id = activeRequestId
<1>1. ASSUME NEW d \in Channels, SteerCommand(d)
      PROVE  \/ handler'[c] = handler[c]
             \/ \E s \in Steers :
                  HandleSteer(c, s) /\ Interruptible /\ handler'[c].id = activeRequestId
  <2>1. CASE SteerLogged(d) \/ HandleAbort(d)
    BY <2>1 DEF SteerLogged, HandleAbort, Done, Ready, TypeOK
  <2>2. ASSUME NEW s \in Steers, HandleSteer(d, s), handler'[c] # handler[c]
        PROVE  /\ d = c /\ Interruptible /\ handler'[c].id = activeRequestId
    <3>1. /\ Interruptible
          /\ handler' = [handler EXCEPT ![d] = [Ready EXCEPT !.at = "steering", !.steer = s,
                                               !.id = activeRequestId]]
      BY <2>2 DEF HandleSteer
    <3>2. d = c
      BY <2>2, <3>1 DEF TypeOK
    <3>3. handler'[c] = [Ready EXCEPT !.at = "steering", !.steer = s, !.id = activeRequestId]
      BY <3>1, <3>2 DEF TypeOK
    <3> QED
      BY <3>1, <3>2, <3>3 DEF Ready
  <2> QED
    BY <1>1, <2>1, <2>2 DEF SteerCommand
<1>2. ASSUME NEW r \in Ids,
             \/ Answers(r) \/ DispatchQueuedSteers(r) \/ Finish(r)
             \/ ConsumePendingSteers(r) \/ Closes(r)
      PROVE  UNCHANGED handler
  BY <1>2 DEF Answers, Refuse, ExecuteTaskWithoutRepo, ExpiryNoticeFails, StartTask,
     StartTaskThrows, DispatchQueuedSteers, Finish, ConsumePendingSteers, Closes, ChildCloses
<1> QED
  BY <1>1, <1>2, SteerChanges DEF SteersRest

(* A step keeps AbortsHaveChild.                                           *)
LEMMA AbortsHaveChildStep ==
  ASSUME IInv, AbortsHaveChild, [Next]_vars
  PROVE  AbortsHaveChild'
<1> USE DEF IInv
<1>1. ASSUME NEW i \in Ids, StartTask(i)
      PROVE  child'[i].life = "live"
  BY <1>1 DEF StartTask, TypeOK
<1>2. ASSUME NEW r \in activeAborts'
      PROVE  child'[r].life # "none"
  <2>1. CASE r \in activeAborts
    BY <2>1, LivesGoOn DEF AbortsHaveChild, TypeOK
  <2>2. ASSUME NEW i \in Ids, r = i, StartTask(i)
        PROVE  child'[r].life # "none"
    BY <1>1, <2>2
  <2> QED
    BY <2>1, <2>2, AbortsComeFromStarts
<1>3. ASSUME NEW c \in Channels, handler'[c].at = "steering"
      PROVE  child'[handler'[c].id].life # "none"
  <2>1. CASE handler'[c] = handler[c]
    <3>1. handler[c].id \in Ids /\ child[handler[c].id].life # "none"
      BY <1>3, <2>1 DEF HandlersCarry, AbortsHaveChild
    <3> QED
      BY <2>1, <3>1, LivesGoOn
  <2>2. ASSUME Interruptible, handler'[c].id = activeRequestId
        PROVE  child'[handler'[c].id].life # "none"
    <3>1. activeRequestId \in Ids /\ child[activeRequestId].life # "none"
      BY <2>2 DEF Interruptible, AbortsHaveChild, TypeOK
    <3> QED
      BY <2>2, <3>1, LivesGoOn
  <2> QED
    BY <1>3, <2>1, <2>2, SteeringComesFromSteer
<1> QED
  BY <1>2, <1>3 DEF AbortsHaveChild

(* The conclusion of NoStrayAbort for one run.                             *)
Unsteered(r) ==
  /\ pc[r] = "running"
  /\ \A c \in Channels : handler[c].at = "steering" => handler[c].id # r
  /\ child[r].aborted => /\ r \notin steerTriggeredAborts
                         /\ \A c \in Channels : handler[c].at # "steering"

(* A run that may be unsteered after the step has its process already, or  *)
(* it is just starting.                                                    *)
LEMMA NoStrayAbortStep ==
  ASSUME IInv, IInv', AbortsInv, [Next]_vars
  PROVE  NoStrayAbort'
<1> USE DEF IInv, AbortsInv
<1> SUFFICES ASSUME NEW r \in Ids, pc'[r] \in {"dispatching", "running"},
                    pendingSteers' = None, r \notin raced'
             PROVE  Unsteered(r)'
  BY DEF NoStrayAbort, Unsteered
<1>1. (pc[r] \in {"dispatching", "running"} /\ pendingSteers = None /\ r \notin raced)
        => Unsteered(r)
  BY DEF NoStrayAbort, Unsteered
<1>2. \A i \in Ids \ {r} : pc'[i] \notin Inside
  BY DEF AdmissionExclusive, Inside, Active
<1>3. CASE SteersRest /\ ~StartTask(r) /\ ~DispatchQueuedSteers(r)
  <2>1. pc'[r] = pc[r]
    BY <1>3, PhaseSteps
  <2> QED
    BY <1>1, <1>3, <2>1 DEF SteersRest, Unsteered
<1>4. ASSUME NEW c \in Channels, NEW s \in Steers, HandleSteer(c, s)
      PROVE  Unsteered(r)'
  BY <1>4, NamesAreDistinct DEF HandleSteer, Push, TypeOK
<1>5. ASSUME NEW c \in Channels, SteerLogged(c)
      PROVE  Unsteered(r)'
  <2>1. /\ UNCHANGED <<pc, pendingSteers, raced>>
        /\ handler[c].at = "steering" /\ handler[c].id \in Ids
        /\ handler' = [handler EXCEPT ![c] = Ready]
    BY <1>5 DEF SteerLogged, Done, HandlersCarry
  <2>2. Unsteered(r)
    BY <1>1, <2>1
  <2>3. handler[c].id # r /\ ~child[r].aborted
    BY <2>1, <2>2 DEF Unsteered
  <2>4. child'[r] = child[r]
    BY <1>5, <2>1, <2>3 DEF SteerLogged, Abort, TypeOK
  <2>5. \A d \in Channels : handler'[d].at = "steering" => handler'[d] = handler[d]
    BY <2>1 DEF Ready, TypeOK
  <2> QED
    BY <2>1, <2>2, <2>3, <2>4, <2>5 DEF Unsteered
<1>6. ASSUME NEW c \in Channels, HandleAbort(c)
      PROVE  Unsteered(r)'
  <2>1. /\ UNCHANGED <<pc, handler>> /\ activeRequestId = r
        /\ steerTriggeredAborts' = steerTriggeredAborts \ {r}
        /\ raced' = IF SteerBeingLogged THEN raced \cup {r} ELSE raced
    BY <1>6 DEF HandleAbort, MarksAfterAbort, ActiveRequestIsCurrent, Active
  <2>2. ~SteerBeingLogged
    BY <2>1
  <2> QED
    BY <2>1, <2>2 DEF SteerBeingLogged, Unsteered
<1>7. ASSUME NEW i \in Ids, StartTask(i)
      PROVE  Unsteered(r)'
  <2>1. i = r
    BY <1>2, <1>7 DEF StartTask, Goto, TypeOK, Inside, Active
  <2>2. /\ pc'[r] = "running" /\ child'[r].aborted = FALSE /\ UNCHANGED handler
        /\ child[r].life = "none"
    BY <1>7, <2>1 DEF StartTask, Goto, NoChild, Unstarted, MayStart, TypeOK
  <2> QED
    BY <2>2 DEF AbortsHaveChild, Unsteered
<1>8. ASSUME NEW i \in Ids, Answers(i), ~StartTask(i)
      PROVE  Unsteered(r)'
  <2>1. /\ i # r /\ pc'[i] \in Inside
    BY <1>8 DEF Answers, Refuse, ExecuteTaskWithoutRepo, ExpiryNoticeFails, StartTaskThrows,
       Goto, TypeOK, Inside, Preparing, Active
  <2> QED
    BY <1>2, <2>1
<1>9. ASSUME NEW i \in Ids, DispatchQueuedSteers(i)
      PROVE  Unsteered(r)'
  <2>1. i = r
    BY <1>2, <1>9 DEF DispatchQueuedSteers, Goto, TypeOK, Inside, Active
  <2>2. pc[r] = "dispatching" /\ UNCHANGED <<pendingSteers, raced>>
    BY <1>9, <2>1 DEF DispatchQueuedSteers
  <2> QED
    BY <1>1, <2>2 DEF Unsteered
<1>10. ASSUME NEW i \in Ids, Finish(i) \/ ConsumePendingSteers(i)
       PROVE  Unsteered(r)'
  <2>1. i # r /\ pc'[i] \in Inside
    BY <1>10 DEF Finish, ConsumePendingSteers, SteersInOnePlace, Goto, TypeOK, Inside, Active,
       Winding
  <2> QED
    BY <1>2, <2>1
<1>11. ASSUME NEW i \in Ids, Closes(i)
       PROVE  Unsteered(r)'
  <2>1. UNCHANGED <<pc, pendingSteers, raced, handler, steerTriggeredAborts>>
    BY <1>11 DEF Closes, ChildCloses
  <2>2. child'[r].aborted => child[r].aborted
    <3>1. PICK found \in BOOLEAN, refused \in BOOLEAN, byError \in BOOLEAN :
            child' = [child EXCEPT ![i] = [life |-> "closed", detected |-> found,
                                           rejected |-> refused,
                                           aborted |-> child[i].aborted /\ ~byError]]
      BY <1>11, Zenon DEF Closes, ChildCloses
    <3>2. child'[i].aborted = (child[i].aborted /\ ~byError)
      BY <3>1 DEF TypeOK
    <3>3. CASE i = r
      BY <3>2, <3>3, Zenon
    <3>4. CASE i # r
      BY <3>1, <3>4 DEF TypeOK
    <3> QED
      BY <3>3, <3>4
  <2> QED
    BY <1>1, <2>1, <2>2 DEF Unsteered
<1> QED
  BY <1>3, <1>4, <1>5, <1>6, <1>7, <1>8, <1>9, <1>10, <1>11, SteerChanges DEF SteerCommand

-----------------------------------------------------------------------------
(* One channel.                                                            *)

OneChannel == \E c : Channels = {c}

(* A step keeps SteerOnItsWay when there is one channel.                   *)
LEMMA SteerOnItsWayStep ==
  ASSUME OneChannel, IInv, IInv', SteersInv, SteerOnItsWay, [Next]_vars
  PROVE  SteerOnItsWay'
<1> USE DEF IInv, SteersInv
<1> PICK c : Channels = {c}
  BY DEF OneChannel
<1> DEFINE OnItsWay(r) == /\ handler[c].at = "steering" /\ handler[c].id = r
                          /\ Batch(batchOf[handler[c].steer]) = {handler[c].steer}
<1> SUFFICES ASSUME NEW r \in Ids, pendingSteers' # None, pc'[r] = "running",
                    child'[r].life = "live", ~child'[r].aborted
             PROVE  OnItsWay(r)'
  BY DEF SteerOnItsWay
<1>1. pendingSteers # None /\ pc[r] = "running" /\ child[r].life = "live" /\ ~child[r].aborted
        => OnItsWay(r)
  BY DEF SteerOnItsWay
<1> HIDE DEF SteersInv
<1>2. \A i \in Ids \ {r} : pc'[i] \notin Inside
  BY DEF AdmissionExclusive, Inside, Active
<1>3. CASE SteersRest /\ ~StartTask(r) /\ ~DispatchQueuedSteers(r)
  <2>1. pc[r] = "running"
    BY <1>3, PhaseSteps
  <2>2. OnItsWay(r) /\ handler'[c] = handler[c] /\ UNCHANGED batchOf
    BY <1>1, <1>3, <2>1 DEF SteersRest
  <2> QED
    BY <2>2 DEF Batch
<1>4. ASSUME NEW s \in Steers, HandleSteer(c, s)
      PROVE  OnItsWay(r)'
  <2>1. /\ UNCHANGED <<pc, child>> /\ handler[c].at = "ready" /\ batchOf[s] = None
    BY <1>4 DEF HandleSteer, Idle
  <2>2. pendingSteers = None
    BY <1>1, <2>1
  <2>3. activeRequestId = r /\ Interruptible
    BY <2>1 DEF ActiveRequestIsCurrent, Active, AbortsRegistered, Interruptible
  <2>4. /\ handler'[c].at = "steering" /\ handler'[c].id = r /\ handler'[c].steer = s
    <3>1. handler' = [handler EXCEPT ![c] = [Ready EXCEPT !.at = "steering", !.steer = s,
                                             !.id = activeRequestId]]
      BY <1>4, <2>3, NamesAreDistinct DEF HandleSteer, Ids
    <3>2. handler'[c] = [Ready EXCEPT !.at = "steering", !.steer = s, !.id = activeRequestId]
      BY <3>1 DEF TypeOK
    <3> QED
      BY <2>3, <3>2 DEF Ready
  <2>5. batchOf' = [batchOf EXCEPT ![s] = s]
    BY <1>4, <2>2 DEF HandleSteer, Push
  <2>6. \A t \in Steers : batchOf[t] # s
    BY <2>1, NamesAreDistinct DEF SteersInv, ArraysNamed
  <2>7. batchOf'[s] = s /\ \A t \in Steers \ {s} : batchOf'[t] # s
    BY <2>5, <2>6 DEF TypeOK
  <2>8. s # None
    BY NamesAreDistinct
  <2> QED
    BY <2>4, <2>7, <2>8 DEF Batch
<1>5. ASSUME SteerLogged(c)
      PROVE  FALSE
  <2>1. /\ UNCHANGED <<pc, pendingSteers>> /\ handler[c].id \in Ids
    BY <1>5 DEF SteerLogged, HandlersCarry
  <2>2. ~child[r].aborted /\ child[r].life = "live"
    BY <1>5, <2>1 DEF SteerLogged, Abort, TypeOK, Children
  <2>3. OnItsWay(r)
    BY <1>1, <2>1, <2>2
  <2>4. Abort(r)
    BY <1>5, <2>3 DEF SteerLogged
  <2> QED
    BY <2>2, <2>4 DEF Abort, TypeOK, Children
<1>6. ~HandleAbort(c)
  BY DEF HandleAbort, QueueAfterAbort
<1>7. ASSUME NEW i \in Ids, StartTask(i)
      PROVE  FALSE
  <2>1. i = r
    BY <1>2, <1>7 DEF StartTask, Goto, TypeOK, Inside, Active
  <2> QED
    BY <1>7, <2>1 DEF StartTask, Goto, TypeOK
<1>8. ASSUME NEW i \in Ids, Answers(i), ~StartTask(i)
      PROVE  FALSE
  <2>1. /\ i # r /\ pc'[i] \in Inside
    BY <1>8 DEF Answers, Refuse, ExecuteTaskWithoutRepo, ExpiryNoticeFails, StartTaskThrows,
       Goto, TypeOK, Inside, Preparing, Active
  <2> QED
    BY <1>2, <2>1
<1>9. ASSUME NEW i \in Ids, DispatchQueuedSteers(i)
      PROVE  FALSE
  <2>1. i = r
    BY <1>2, <1>9 DEF DispatchQueuedSteers, Goto, TypeOK, Inside, Active
  <2>2. Abort(r)
    BY <1>9, <2>1 DEF DispatchQueuedSteers, DispatchAborts
  <2> QED
    BY <2>2 DEF Abort, TypeOK, Children
<1>10. ASSUME NEW i \in Ids, Finish(i) \/ ConsumePendingSteers(i)
       PROVE  FALSE
  <2>1. i # r /\ pc'[i] \in Inside
    BY <1>10 DEF Finish, ConsumePendingSteers, SteersInOnePlace, Goto, TypeOK, Inside, Active,
       Winding
  <2> QED
    BY <1>2, <2>1
<1>11. ASSUME NEW i \in Ids, Closes(i)
       PROVE  OnItsWay(r)'
  <2>1. /\ UNCHANGED <<pc, pendingSteers, batchOf, handler>>
        /\ child'[r] = child[r]
    BY <1>11 DEF Closes, ChildCloses, TypeOK, Children
  <2> QED
    BY <1>1, <2>1 DEF Batch
<1> QED
  BY <1>3, <1>4, <1>5, <1>6, <1>7, <1>8, <1>9, <1>10, <1>11, SteerChanges DEF SteerCommand

-----------------------------------------------------------------------------
(* The theorems.                                                           *)

(* The initial states satisfy HInv.                                        *)
LEMMA HistoryInit == Init => HInv /\ SteerOnItsWay
<1> SUFFICES ASSUME Init PROVE HInv /\ SteerOnItsWay
  OBVIOUS
<1> USE DEF Init, NoRequest, NoChild, Ready
<1>1. SteersInv
  BY DEF SteersInv, ArraysNamed, SettledSpent
<1>2. ThreadsInv
  BY NamesAreDistinct DEF ThreadsInv, ThreadsMade, Remembered, ResumedIsOpen,
     RetiredThreadStaysClosed, Ids
<1>3. AbortsInv
  BY DEF AbortsInv, AbortsHaveChild, NoStrayAbort
<1> QED
  BY <1>1, <1>2, <1>3 DEF HInv, SteerOnItsWay

(* Every step keeps HInv.                                                  *)
LEMMA HistoryStep == IInv /\ HInv /\ [Next]_vars => HInv'
<1> SUFFICES ASSUME IInv, HInv, [Next]_vars PROVE HInv'
  OBVIOUS
<1>1. IInv'
  BY InvariantStep
<1> QED
  BY <1>1, SteersInvStep, ThreadsInvStep, AbortsHaveChildStep, NoStrayAbortStep
     DEF HInv, AbortsInv, IInv

(* HInv holds in every reachable state.                                    *)
THEOREM HistoryInvariant == Spec => []HInv
  BY Invariant, HistoryInit, HistoryStep, PTL DEF Spec

(* A steer that was applied, thrown away, dropped or refused does not reach *)
(* Codex (again) in a later run.                                           *)
THEOREM SettledOnce == Spec => []SettledNotApplied
<1>1. HInv => SettledNotApplied
  BY DEF HInv, SteersInv, SettledSpent, Spent, SettledNotApplied
<1> QED
  BY <1>1, HistoryInvariant, PTL

(* A thread that the user closed, that idled out or could not be resumed,  *)
(* is not stored again by a run that ends later.                           *)
THEOREM ClosedThreadStaysClosed == Spec => []RetiredThreadStaysClosed
<1>1. HInv => RetiredThreadStaysClosed
  BY DEF HInv, ThreadsInv
<1> QED
  BY <1>1, HistoryInvariant, PTL

(* A run whose result is suppressed has a follow-up waiting that reports in *)
(* its place, unless an /abort fell into the audit await of a steer.       *)
THEOREM NobodyIsLeftSilent == Spec => NoSilentRun
<1>1. ASSUME HInv, NEW r \in Ids, pc[r] = "running", Suppressed(r)
      PROVE  pendingSteers # None \/ r \in raced
  BY <1>1 DEF HInv, AbortsInv, NoStrayAbort, Suppressed
<1>2. HInv => [\A r \in Ids : pc[r] = "running" /\ pc'[r] = "reporting" /\ Suppressed(r)
                 => pendingSteers # None \/ r \in raced]_vars
  BY <1>1
<1> QED
  BY <1>2, HistoryInvariant, PTL DEF NoSilentRun

(* With one command channel: once no handler is busy, a run with a steer   *)
(* waiting has been told to stop.                                          *)
THEOREM SteerInterrupts ==
  ASSUME OneChannel
  PROVE  Spec => []SteeredRunIsInterrupted
<1>1. IInv /\ HInv /\ SteerOnItsWay /\ [Next]_vars => SteerOnItsWay'
  BY SteerOnItsWayStep, InvariantStep DEF HInv
<1>2. SteerOnItsWay => SteeredRunIsInterrupted
  BY DEF SteerOnItsWay, SteeredRunIsInterrupted
<1> QED
  BY <1>1, <1>2, HistoryInit, Invariant, HistoryInvariant, PTL DEF Spec

==============================================================================
