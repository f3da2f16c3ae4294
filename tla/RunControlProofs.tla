-------------------------- MODULE RunControlProofs --------------------------
(***************************************************************************)
(* Theorems about RunControl for every value of its constants: any number  *)
(* of requests, steers, channels, repos and external approvals.            *)
(*                                                                         *)
(* All of them come from one inductive invariant, IInv.  That a step keeps *)
(* it is proved part by part; StepKinds sorts the actions of Next by what  *)
(* they do to the operations, so that each part needs few cases.           *)
(***************************************************************************)
EXTENDS RunControl, TLAPS

-----------------------------------------------------------------------------
(* The inductive invariant: TypeOK, AdmissionExclusive and                  *)
(* ActiveRequestIsCurrent are kept only together with where abort functions *)
(* and processes can be, and with the fact that an id which may still be    *)
(* started has no process yet.                                              *)

(* What a handler took along is what its continuation expects.             *)
HandlersCarry ==
  \A c \in Channels :
    /\ handler[c].at = "steering"  => handler[c].steer \in Steers /\ handler[c].id \in Ids
    /\ handler[c].at = "approving" => handler[c].id \in Reqs
    /\ handler[c].at = "removing"  => handler[c].repo \in Repos

(* Codex can only refuse to resume a thread that the run asked for.        *)
RejectedResumed ==
  \A r \in Ids : child[r].rejected => /\ req[r].resume # None
                                     /\ pc[r] \in {"dispatching", "running", "reporting"}

(* activeAborts has the ids between activeAborts.set and the finally block. *)
AbortsRegistered ==
  \A r \in Ids :
    /\ pc[r] \in {"dispatching", "running"} => r \in activeAborts
    /\ r \in activeAborts => pc[r] \in {"dispatching", "running", "reporting"}

ChildrenAttended == \A r \in Ids : child[r].life = "live" => pc[r] \in {"dispatching", "running"}

(* Ids whose operation can still come to startTask. *)
MayStart(r) == \/ r \notin issued
               \/ pc[r] \in {"merging", "starting"} \cup Preparing
               \/ Approving(r)

Unstarted == \A r \in Ids : MayStart(r) => child[r].life = "none"

(* An approval belongs to a request that was admitted, asked and left; it   *)
(* is in one place: the store, or one handler that has taken it.            *)
ApprovalInOnePlace ==
  /\ \A r \in Ids : Approving(r) => /\ r \in Reqs /\ r \in issued
                                    /\ pc[r] \in {"asking", "idle"}
  /\ \A c \in Channels : handler[c].at = "approving" => handler[c].id # pendingApproval
  /\ \A c, d \in Channels : /\ handler[c].at = "approving" /\ handler[d].at = "approving"
                            /\ handler[c].id = handler[d].id
                            => c = d

(* A steer that was never sent names no array and no run. *)
UnsentSteers ==
  /\ \A s \in Steers : batchOf[s] = None => pc[s] = "idle" /\ s \notin issued
  /\ pendingSteers # None => batchOf[pendingSteers] # None
  /\ \A r \in Ids : pc[r] = "merging" => r \in Steers /\ r \notin issued
  /\ \A r \in Ids : pc[r] \in Inside => r \in issued

(* Only a granted approval lets a request bypass; only it gets past asking. *)
BypassGranted ==
  /\ \A r \in Reqs : req[r].bypass => r \in granted
  /\ \A c \in Channels : handler[c].at = "approving" => handler[c].id \in granted
  /\ \A r \in Reqs : child[r].life # "none" \/ pc[r] \in {"expiring", "starting"}
                     => ~NeedsApproval(r) /\ ~Barred(r)

IInv ==
  /\ TypeOK /\ HandlersCarry /\ RejectedResumed
  /\ AdmissionExclusive /\ ActiveRequestIsCurrent /\ AbortsRegistered /\ ChildrenAttended
  /\ Unstarted
  /\ SteersInOnePlace /\ UnsentSteers
  /\ ApprovalInOnePlace /\ BypassGranted

USE DEF sessionVars, steerVars, opVars, history

-----------------------------------------------------------------------------
(* Types.                                                                   *)

(* Entering admission, or being told it is busy, keeps the types.           *)
LEMMA ExecuteOrEnqueueType ==
  ASSUME TypeOK, NEW r \in Ids, NEW q \in Requests, ExecuteOrEnqueue(r, q)
  PROVE  /\ executionAdmissionLock' \in BOOLEAN
         /\ pc' \in [Ids -> Phases]
         /\ req' \in [Ids -> Requests]
         /\ issued' \subseteq Ids
<1>1. pc' \in [Ids -> Phases]
  BY DEF TypeOK, ExecuteOrEnqueue, Goto, Phases, Inside, Preparing
<1>2. req' \in [Ids -> Requests]
  BY DEF TypeOK, ExecuteOrEnqueue
<1> QED
  BY <1>1, <1>2 DEF TypeOK, ExecuteOrEnqueue

(* What /run and a follow-up run carry into admission.                      *)
LEMMA RunRequestType ==
  ASSUME NEW cl \in Classes, NEW repo \in Repos \cup {None}, NEW b \in BOOLEAN
  PROVE  RunRequest(cl, repo, b) \in Requests
BY DEF RunRequest, Requests

(* Aborting a request changes the aborted flag of its process at most.      *)
LEMMA AbortType ==
  ASSUME child \in [Ids -> Children], NEW r \in Ids, Abort(r)
  PROVE  child' \in [Ids -> Children]
BY DEF Abort, Children

(* A step keeps the types; TypeOK alone is not inductive.                   *)
LEMMA TypeStep ==
  ASSUME TypeOK, HandlersCarry, RejectedResumed, [Next]_vars
  PROVE  TypeOK'
<1>1. ASSUME NEW c \in Channels, NEW r \in Reqs, NEW cl \in Classes, HandleRun(c, r, cl)
      PROVE  TypeOK'
  <2>1. RunRequest(cl, selectedRepo, FALSE) \in Requests
    BY RunRequestType DEF TypeOK
  <2> QED
    BY <1>1, <2>1, ExecuteOrEnqueueType DEF HandleRun, TypeOK, Ids
<1>2. ASSUME NEW c \in Channels, NEW r \in Reqs, NEW cl \in Classes, RepoSelectedForRun(c, r, cl)
      PROVE  TypeOK'
  <2>1. RunRequest(cl, handler[c].repo, FALSE) \in Requests
    BY RunRequestType DEF TypeOK, Handlers
  <2>2. handler' \in [Channels -> Handlers]
    BY <1>2 DEF RepoSelectedForRun, Done, TypeOK, Handlers, Ready
  <2> QED
    BY <1>2, <2>1, <2>2, ExecuteOrEnqueueType DEF RepoSelectedForRun, TypeOK, Ids
<1>3. ASSUME NEW c \in Channels, ApprovalLogged(c)
      PROVE  TypeOK'
  <2>1. handler[c].id \in Ids
    BY <1>3 DEF ApprovalLogged, HandlersCarry, Ids
  <2>2. [req[handler[c].id] EXCEPT !.bypass = TRUE] \in Requests
    <3>1. req[handler[c].id] \in Requests
      BY <2>1 DEF TypeOK
    <3> QED
      BY <3>1 DEF Requests
  <2>3. handler' \in [Channels -> Handlers]
    BY <1>3 DEF ApprovalLogged, Done, TypeOK, Handlers, Ready
  <2> QED
    BY <1>3, <2>1, <2>2, <2>3, ExecuteOrEnqueueType DEF ApprovalLogged, TypeOK
<1>4. ASSUME NEW r \in Ids, MergedSteersExecute(r)
      PROVE  TypeOK'
  <2>1. RunRequest("free", selectedRepo, TRUE) \in Requests
    BY RunRequestType DEF TypeOK, Classes
  <2> QED
    BY <1>4, <2>1, ExecuteOrEnqueueType DEF MergedSteersExecute, TypeOK
<1>5. ASSUME NEW c \in Channels, NEW s \in Steers, HandleSteer(c, s)
      PROVE  TypeOK'
  <2>1. pendingSteers' \in Steers \cup {None} /\ batchOf' \in [Steers -> Steers \cup {None}]
    BY <1>5 DEF HandleSteer, Push, TypeOK
  <2>2. handler' \in [Channels -> Handlers]
    <3>1. CASE Interruptible
      <4>1. [Ready EXCEPT !.at = "steering", !.steer = s, !.id = activeRequestId] \in Handlers
        BY <3>1 DEF Interruptible, TypeOK, Handlers, Ready
      <4> QED
        BY <1>5, <4>1 DEF HandleSteer, TypeOK
    <3>2. CASE ~Interruptible
      BY <1>5, <3>2 DEF HandleSteer, TypeOK
    <3> QED
      BY <3>1, <3>2
  <2> QED
    BY <1>5, <2>1, <2>2 DEF HandleSteer, TypeOK
<1>6. ASSUME NEW c \in Channels, SteerLogged(c)
      PROVE  TypeOK'
  <2>1. handler[c].id \in Ids
    BY <1>6 DEF SteerLogged, HandlersCarry
  <2>2. child' \in [Ids -> Children]
    BY <1>6, <2>1, AbortType DEF SteerLogged, TypeOK
  <2>3. handler' \in [Channels -> Handlers]
    BY <1>6 DEF SteerLogged, Done, TypeOK, Handlers, Ready
  <2> QED
    BY <1>6, <2>2, <2>3 DEF SteerLogged, TypeOK
<1>7. ASSUME NEW c \in Channels, HandleAbort(c)
      PROVE  TypeOK'
  <2>1. activeRequestId \in Ids /\ Abort(activeRequestId)
    BY <1>7 DEF HandleAbort, Interruptible, TypeOK
  <2>2. child' \in [Ids -> Children]
    BY <2>1, AbortType DEF TypeOK
  <2>3. settled' \subseteq Steers /\ raced' \subseteq Ids
    BY <1>7, <2>1 DEF HandleAbort, Answer, Batch, TypeOK
  <2> QED
    BY <1>7, <2>2, <2>3 DEF HandleAbort, QueueAfterAbort, MarksAfterAbort, TypeOK
<1>8. ASSUME NEW c \in Channels, HandleApprove(c)
      PROVE  TypeOK'
  <2>1. [Ready EXCEPT !.at = "approving", !.id = pendingApproval] \in Handlers
    BY <1>8 DEF HandleApprove, Handlers, Ready, Ids
  <2> QED
    BY <1>8, <2>1 DEF HandleApprove, ApprovalAfterGrant, TypeOK
<1>9. ASSUME NEW c \in Channels, RepoRemovalFailed(c)
      PROVE  TypeOK'
  <2>1. handler' \in [Channels -> Handlers]
    BY <1>9 DEF RepoRemovalFailed, Done, TypeOK, Handlers, Ready
  <2>2. handler[c].repo \in Repos
    BY <1>9 DEF RepoRemovalFailed, HandlersCarry
  <2> QED
    BY <1>9, <2>1, <2>2 DEF RepoRemovalFailed, TypeOK
<1>10. ASSUME NEW r \in Ids, DispatchQueuedSteers(r)
       PROVE  TypeOK'
  <2>1. pc' \in [Ids -> Phases]
    BY <1>10 DEF DispatchQueuedSteers, Goto, TypeOK, Phases, Inside, Active
  <2>2. child' \in [Ids -> Children]
    BY <1>10, AbortType DEF DispatchQueuedSteers, DispatchAborts, TypeOK
  <2> QED
    BY <1>10, <2>1, <2>2 DEF DispatchQueuedSteers, TypeOK
<1>11. ASSUME NEW r \in Ids, TakeResult(r)
       PROVE  TypeOK'
  <2>1. pc' \in [Ids -> Phases]
    BY <1>11 DEF TakeResult, Goto, TypeOK, Phases, Inside, Active
  <2>2. req[r].resume \in Ids \cup {None}
    BY DEF TypeOK, Requests
  <2>3. codexThreadId' \in Ids \cup {None}
    BY <1>11, <2>2 DEF TakeResult, ThreadAfter, TypeOK
  <2>4. retired' \subseteq Ids
    BY <1>11, <2>2 DEF TakeResult, RejectedResumed, TypeOK
  <2> QED
    BY <1>11, <2>1, <2>3, <2>4 DEF TakeResult, TypeOK
<1>12. ASSUME NEW r \in Ids, Finish(r)
       PROVE  TypeOK'
  <2>1. pc' \in [Ids -> Phases]
    BY <1>12 DEF Finish, Goto, TypeOK, Phases, Inside, Winding
  <2>2. child' \in [Ids -> Children]
    BY <1>12 DEF Finish, TypeOK, Children, NoChild
  <2>3. req' \in [Ids -> Requests]
    BY <1>12 DEF Finish, TypeOK, Requests
  <2>4. settled' \subseteq Steers
    BY <1>12 DEF Finish, Answer, Batch, TypeOK
  <2> QED
    BY <1>12, <2>1, <2>2, <2>3, <2>4 DEF Finish, ActiveAfterRun, QueueAfterRun, TypeOK
<1>13. ASSUME NEW r \in Ids, ExpiryAnnounced(r)
       PROVE  TypeOK'
  <2>1. pc' \in [Ids -> Phases]
    BY <1>13 DEF ExpiryAnnounced, SetActive, Goto, TypeOK, Phases, Inside, Active
  <2>2. req' \in [Ids -> Requests]
    BY <1>13 DEF ExpiryAnnounced, SetActive, TypeOK, Requests
  <2> QED
    BY <1>13, <2>1, <2>2 DEF ExpiryAnnounced, SetActive, TypeOK
<1> USE DEF TypeOK, Ids, Requests, Children, Handlers, Phases, Inside, Preparing, Active,
            Winding, Classes, NoRequest, NoChild, Ready, Goto, Done, Answer, Batch,
            ClearThread, Retire
<1>14. ASSUME NEW c \in Channels, NEW repo \in Repos, HandleRunWithoutRepo(c, repo)
       PROVE  TypeOK'
  BY <1>14 DEF HandleRunWithoutRepo
<1>15. ASSUME NEW c \in Channels, HandleMode(c)
       PROVE  TypeOK'
  BY <1>15 DEF HandleMode
<1>16. ASSUME NEW c \in Channels, HandleCloseSession(c)
       PROVE  TypeOK'
  BY <1>16 DEF HandleCloseSession
<1>17. ASSUME NEW c \in Channels, NEW repo \in Repos, HandleRepoSelect(c, repo)
       PROVE  TypeOK'
  BY <1>17 DEF HandleRepoSelect
<1>18. ASSUME NEW c \in Channels, NEW repo \in Repos, HandleRepoInit(c, repo)
       PROVE  TypeOK'
  BY <1>18 DEF HandleRepoInit
<1>19. ASSUME NEW c \in Channels, NEW repo \in Repos, HandleRepoRemove(c, repo)
       PROVE  TypeOK'
  BY <1>19 DEF HandleRepoRemove
<1>20. ASSUME NEW c \in Channels, HandleDeny(c)
       PROVE  TypeOK'
  BY <1>20 DEF HandleDeny
<1>21. ASSUME NEW c \in Channels, DecideExternal(c)
       PROVE  TypeOK'
  BY <1>21 DEF DecideExternal
<1>22. ASSUME NEW c \in Channels, RunNotStarted(c)
       PROVE  TypeOK'
  BY <1>22 DEF RunNotStarted
<1>23. ASSUME NEW c \in Channels, RepoRemovalSaved(c)
       PROVE  TypeOK'
  BY <1>23 DEF RepoRemovalSaved
<1>24. ASSUME NEW c \in Channels, ExternalDecided(c)
       PROVE  TypeOK'
  BY <1>24 DEF ExternalDecided
<1>25. ASSUME NEW r \in Ids, Refuse(r)
       PROVE  TypeOK'
  BY <1>25 DEF Refuse
<1>26. ASSUME NEW r \in Ids, AskApproval(r)
       PROVE  TypeOK'
  BY <1>26 DEF AskApproval, NeedsApproval, IsRun
<1>27. ASSUME NEW r \in Ids, ExecuteTask(r)
       PROVE  TypeOK'
  <2>1. req' \in [Ids -> Requests]
    <3>1. /\ req' = [req EXCEPT ![r].resume = codexThreadId]
          /\ req \in [Ids -> Requests] /\ codexThreadId \in Ids \cup {None}
      BY <1>27 DEF ExecuteTask, SetActive
    <3> QED
      BY ONLY <3>1 DEF Requests
  <2>2. pc' \in [Ids -> Phases]
    BY <1>27 DEF ExecuteTask, SetActive
  <2> QED
    BY <1>27, <2>1, <2>2 DEF ExecuteTask, SetActive
<1>28. ASSUME NEW r \in Ids, ExecuteTaskWithoutRepo(r)
       PROVE  TypeOK'
  BY <1>28 DEF ExecuteTaskWithoutRepo
<1>29. ASSUME NEW r \in Ids, ExpireThread(r)
       PROVE  TypeOK'
  BY <1>29 DEF ExpireThread
<1>30. ASSUME NEW r \in Ids, ExpiryNoticeFails(r)
       PROVE  TypeOK'
  BY <1>30 DEF ExpiryNoticeFails
<1>31. ASSUME NEW r \in Ids, StartTask(r)
       PROVE  TypeOK'
  BY <1>31 DEF StartTask, AbortsAfterStart
<1>32. ASSUME NEW r \in Ids, StartTaskThrows(r)
       PROVE  TypeOK'
  BY <1>32 DEF StartTaskThrows
<1>33. ASSUME NEW r \in Ids, ConsumePendingSteers(r)
       PROVE  TypeOK'
  BY <1>33 DEF ConsumePendingSteers, QueueAfterConsume
<1>34. ASSUME NEW r \in Ids, LeaveAdmission(r)
       PROVE  TypeOK'
  BY <1>34 DEF LeaveAdmission
<1>35. ASSUME NEW r \in Ids, NEW found \in BOOLEAN, NEW refused \in BOOLEAN,
              NEW byError \in BOOLEAN, ChildCloses(r, found, refused, byError)
       PROVE  TypeOK'
  BY <1>35 DEF ChildCloses
<1>36. ASSUME NEW repo \in Repos, RegistryChanges(repo)
       PROVE  TypeOK'
  BY <1>36 DEF RegistryChanges
<1>37. ASSUME NEW x \in Externals, ExternalApprovalRequested(x)
       PROVE  TypeOK'
  BY <1>37 DEF ExternalApprovalRequested
<1>38. CASE UNCHANGED vars
  BY <1>38 DEF vars
<1> HIDE DEF TypeOK
<1>39. ASSUME NEW c \in Channels, Command(c)
       PROVE  TypeOK'
  BY <1>39, <1>1, <1>14, <1>5, <1>7, <1>15, <1>16, <1>17, <1>18, <1>19, <1>8, <1>20, <1>21
     DEF Command
<1>40. ASSUME NEW c \in Channels, Continue(c)
       PROVE  TypeOK'
  BY <1>40, <1>2, <1>22, <1>6, <1>23, <1>9, <1>3, <1>24
     DEF Continue
<1>41. ASSUME NEW r \in Ids, Progress(r)
       PROVE  TypeOK'
  BY <1>41, <1>25, <1>26, <1>27, <1>28, <1>29, <1>13,
     <1>30, <1>31, <1>32, <1>10, <1>11, <1>12, <1>33, <1>4, <1>34
     DEF Progress
<1> QED
  BY <1>38, <1>39, <1>40, <1>41, <1>35, <1>36, <1>37 DEF Next, Closes

-----------------------------------------------------------------------------
(* What the steps do to the variables the invariant is about.               *)

(* An id that has no process yet enters admission, or is told it is busy;   *)
(* its approval, if it had one, is used up.                                 *)
Enters(r, q) ==
  /\ ExecuteOrEnqueue(r, q)
  /\ r \in Reqs \ issued \/ pc[r] = "merging" \/ Approving(r)
  /\ ~Approving(r)'
  /\ r \in Reqs /\ q.bypass => r \in granted
  /\ UNCHANGED <<activeRequestId, activeAborts, child, pendingSteers, batchOf,
                 pendingApproval, granted>>

(* Nothing happens to an operation or its process but a kill.               *)
OperationsRest ==
  /\ UNCHANGED <<opVars, activeRequestId, activeAborts>>
  /\ \A r \in Ids : child'[r].life = child[r].life /\ child'[r].rejected = child[r].rejected

(* An operation goes on by itself, inside admission.                        *)
OwnStep(r) == Progress(r) /\ ~MergedSteersExecute(r)

(* Every step lets an id enter, is a step of one operation, or of one       *)
(* process, or leaves all of them alone.                                    *)
LEMMA StepKinds ==
  ASSUME TypeOK, HandlersCarry, UnsentSteers, ApprovalInOnePlace, BypassGranted, [Next]_vars
  PROVE  \/ OperationsRest
         \/ \E r \in Ids, q \in Requests : Enters(r, q)
         \/ \E r \in Ids : OwnStep(r) \/ Closes(r)
<1> DEFINE Goal == \/ OperationsRest
                   \/ \E r \in Ids, q \in Requests : Enters(r, q)
                   \/ \E r \in Ids : OwnStep(r) \/ Closes(r)
<1>1. ASSUME NEW c \in Channels, NEW r \in Reqs, NEW cl \in Classes, HandleRun(c, r, cl)
      PROVE  Goal
  <2> DEFINE q == RunRequest(cl, selectedRepo, FALSE)
  <2>1. q \in Requests /\ ~q.bypass
    BY RunRequestType DEF TypeOK, RunRequest
  <2>2. ~Approving(r)'
    BY <1>1 DEF HandleRun, Fresh, ApprovalInOnePlace, Approving, Ids
  <2>3. Enters(r, q)
    BY <1>1, <2>1, <2>2 DEF HandleRun, Fresh, Enters
  <2> QED
    BY <2>1, <2>3 DEF Ids
<1>2. ASSUME NEW c \in Channels, NEW r \in Reqs, NEW cl \in Classes, RepoSelectedForRun(c, r, cl)
      PROVE  Goal
  <2> DEFINE q == RunRequest(cl, handler[c].repo, FALSE)
  <2>1. q \in Requests /\ ~q.bypass
    BY RunRequestType DEF TypeOK, Handlers, RunRequest
  <2>2. ~Approving(r)'
    BY <1>2 DEF RepoSelectedForRun, Done, Ready, Fresh, ApprovalInOnePlace, Approving, Ids, TypeOK
  <2>3. Enters(r, q)
    BY <1>2, <2>1, <2>2 DEF RepoSelectedForRun, Fresh, Enters
  <2> QED
    BY <2>1, <2>3 DEF Ids
<1>3. ASSUME NEW c \in Channels, ApprovalLogged(c)
      PROVE  Goal
  <2>1. PICK r \in Reqs : r = handler[c].id
    BY <1>3 DEF ApprovalLogged, HandlersCarry
  <2> DEFINE q == [req[r] EXCEPT !.bypass = TRUE]
  <2>2. r \in granted /\ Approving(r)
    BY <1>3, <2>1 DEF ApprovalLogged, BypassGranted, Approving
  <2>3. q \in Requests
    <3>1. req[r] \in Requests
      BY DEF TypeOK, Ids
    <3> QED
      BY <3>1 DEF Requests
  <2>4. ~Approving(r)'
    <3>1. UNCHANGED pendingApproval /\ handler' = [handler EXCEPT ![c] = Ready]
      BY <1>3 DEF ApprovalLogged, Done
    <3>2. handler'[c].at = "ready" /\ \A d \in Channels \ {c} : handler'[d] = handler[d]
      BY <3>1 DEF Ready, TypeOK
    <3>3. /\ r # pendingApproval
          /\ \A d \in Channels : handler[d].at = "approving" /\ handler[d].id = r => d = c
      BY <1>3, <2>1 DEF ApprovalLogged, ApprovalInOnePlace
    <3> QED
      BY <3>1, <3>2, <3>3 DEF Approving
  <2>5. ExecuteOrEnqueue(r, q)
    BY <1>3, <2>1 DEF ApprovalLogged
  <2>6. Enters(r, q)
    BY <1>3, <2>2, <2>4, <2>5 DEF ApprovalLogged, Enters
  <2> QED
    BY <2>3, <2>6 DEF Ids
<1>4. ASSUME NEW r \in Ids, MergedSteersExecute(r)
      PROVE  Goal
  <2> DEFINE q == RunRequest("free", selectedRepo, TRUE)
  <2>1. q \in Requests
    BY RunRequestType DEF TypeOK, Classes
  <2>2. r \notin Reqs
    BY <1>4, NamesAreDistinct DEF MergedSteersExecute, UnsentSteers
  <2>3. ~Approving(r)'
    BY <1>4, <2>2 DEF MergedSteersExecute, ApprovalInOnePlace, Approving
  <2>4. Enters(r, q)
    BY <1>4, <2>2, <2>3 DEF MergedSteersExecute, Enters
  <2> QED
    BY <2>1, <2>4
<1>5. ASSUME NEW c \in Channels, SteerLogged(c) \/ HandleAbort(c)
      PROVE  OperationsRest
  BY <1>5 DEF SteerLogged, HandleAbort, Abort, OperationsRest, TypeOK, Children
<1>6. ASSUME NEW c \in Channels,
             \/ HandleMode(c) \/ HandleCloseSession(c) \/ HandleApprove(c) \/ HandleDeny(c)
             \/ DecideExternal(c) \/ RunNotStarted(c) \/ RepoRemovalSaved(c)
             \/ RepoRemovalFailed(c) \/ ExternalDecided(c)
      PROVE  OperationsRest
  BY <1>6 DEF HandleMode, HandleCloseSession, HandleApprove, HandleDeny, DecideExternal,
     RunNotStarted, RepoRemovalSaved, RepoRemovalFailed, ExternalDecided, OperationsRest
<1>7. ASSUME NEW c \in Channels, NEW repo \in Repos,
             \/ HandleRunWithoutRepo(c, repo) \/ HandleRepoSelect(c, repo)
             \/ HandleRepoInit(c, repo) \/ HandleRepoRemove(c, repo)
      PROVE  OperationsRest
  BY <1>7 DEF HandleRunWithoutRepo, HandleRepoSelect, HandleRepoInit, HandleRepoRemove,
     OperationsRest
<1>8. ASSUME NEW c \in Channels, NEW s \in Steers, HandleSteer(c, s)
      PROVE  OperationsRest
  BY <1>8 DEF HandleSteer, OperationsRest
<1>9. ASSUME NEW repo \in Repos, RegistryChanges(repo)
      PROVE  OperationsRest
  BY <1>9 DEF RegistryChanges, OperationsRest
<1>10. ASSUME NEW x \in Externals, ExternalApprovalRequested(x)
       PROVE  OperationsRest
  BY <1>10 DEF ExternalApprovalRequested, OperationsRest
<1>11. CASE UNCHANGED vars
  BY <1>11 DEF vars, OperationsRest
<1>12. ASSUME NEW c \in Channels, Command(c) \/ Continue(c)
       PROVE  Goal
  BY <1>1, <1>2, <1>3, <1>5, <1>6, <1>7, <1>8, <1>12 DEF Command, Continue
<1>13. ASSUME NEW r \in Ids, Progress(r) \/ Closes(r)
       PROVE  Goal
  BY <1>4, <1>13 DEF OwnStep
<1> QED
  BY <1>9, <1>10, <1>11, <1>12, <1>13 DEF Next

-----------------------------------------------------------------------------
(* Admission, the active request and its process.                          *)

(* What holds between the lock, activeRequestId, the abort functions and the *)
(* processes.                                                               *)
Operations == /\ AdmissionExclusive /\ ActiveRequestIsCurrent
              /\ AbortsRegistered /\ ChildrenAttended

(* Moving within admission keeps the lock right.                            *)
LEMMA MoveKeepsLock ==
  ASSUME TypeOK, AdmissionExclusive, NEW r \in Ids, NEW p \in Inside,
         pc[r] \in Inside, Goto(r, p), UNCHANGED executionAdmissionLock
  PROVE  AdmissionExclusive'
BY DEF TypeOK, AdmissionExclusive, Goto

(* Entering admission keeps Operations.                                     *)
LEMMA EnterKeepsOperations ==
  ASSUME TypeOK, Operations, ApprovalInOnePlace, UnsentSteers, NEW r \in Ids, NEW q, Enters(r, q)
  PROVE  Operations'
<1>1. CASE executionAdmissionLock
  <2>1. pc' = [pc EXCEPT ![r] = IF pc[r] = "merging" THEN "idle" ELSE pc[r]]
    BY <1>1 DEF Enters, ExecuteOrEnqueue, AdmissionBusy, Goto
  <2>2. \A i \in Ids : pc'[i] # pc[i] => pc[i] = "merging" /\ pc'[i] = "idle"
    BY <2>1 DEF TypeOK
  <2> QED
    BY <1>1, <2>2 DEF Enters, ExecuteOrEnqueue, AdmissionBusy, Operations, AdmissionExclusive,
       ActiveRequestIsCurrent, AbortsRegistered, ChildrenAttended, Inside, Preparing, Active, Winding
<1>2. CASE ~executionAdmissionLock
  <2>1. \A i \in Ids : pc[i] \notin Inside
    BY <1>2 DEF Operations, AdmissionExclusive
  <2>2. /\ pc'[r] \in {"admitting", "refusing"}
        /\ \A i \in Ids \ {r} : pc'[i] = pc[i]
        /\ executionAdmissionLock' = TRUE
    BY <1>2 DEF Enters, ExecuteOrEnqueue, AdmissionBusy, Goto, TypeOK
  <2>3. AdmissionExclusive'
    BY <2>1, <2>2 DEF AdmissionExclusive, Inside, Preparing
  <2>4. ActiveRequestIsCurrent'
    BY <2>1, <2>2 DEF Operations, ActiveRequestIsCurrent, Enters, Inside, Active
  <2>5. AbortsRegistered' /\ ChildrenAttended'
    BY <2>1, <2>2 DEF Operations, AbortsRegistered, ChildrenAttended, Enters, Inside, Active
  <2> QED
    BY <2>3, <2>4, <2>5 DEF Operations
<1> QED
  BY <1>1, <1>2

(* The steps of an operation keep Operations.                               *)
LEMMA OwnStepKeepsOperations ==
  ASSUME TypeOK, Operations, SteersInOnePlace, NEW r \in Ids, OwnStep(r)
  PROVE  Operations'
<1> USE DEF Operations, ActiveRequestIsCurrent, AbortsRegistered, ChildrenAttended, TypeOK,
            Inside, Preparing, Active, Winding, Goto
<1>1. CASE \/ Refuse(r) \/ AskApproval(r) \/ ExecuteTaskWithoutRepo(r)
           \/ ExpireThread(r) \/ ExpiryNoticeFails(r)
  BY <1>1, MoveKeepsLock DEF Refuse, AskApproval, ExecuteTaskWithoutRepo, ExpireThread, ExpiryNoticeFails
<1>2. CASE ExecuteTask(r) \/ ExpiryAnnounced(r)
  BY <1>2, MoveKeepsLock DEF ExecuteTask, ExpiryAnnounced, SetActive, AdmissionExclusive
<1>3. CASE StartTask(r)
  BY <1>3, MoveKeepsLock DEF StartTask, AbortsAfterStart, Children
<1>4. CASE StartTaskThrows(r) \/ TakeResult(r)
  BY <1>4, MoveKeepsLock DEF StartTaskThrows, TakeResult
<1>5. CASE DispatchQueuedSteers(r)
  BY <1>5, MoveKeepsLock DEF DispatchQueuedSteers, DispatchAborts, Abort, Children
<1>6. CASE Finish(r)
  <2>1. AdmissionExclusive'
    BY <1>6, MoveKeepsLock DEF Finish
  <2>2. pc'[r] \in {"leaving", "finishing"} /\ \A i \in Ids \ {r} : pc'[i] = pc[i]
    BY <1>6 DEF Finish
  <2>3. ActiveRequestIsCurrent'
    BY <1>6, <2>2, NamesAreDistinct DEF Finish, ActiveAfterRun, Ids
  <2>4. AbortsRegistered'
    BY <1>6, <2>2 DEF Finish
  <2>5. ChildrenAttended'
    BY <1>6, <2>2 DEF Finish, Children, NoChild
  <2> QED
    BY <2>1, <2>3, <2>4, <2>5
<1>7. CASE ConsumePendingSteers(r)
  BY <1>7 DEF ConsumePendingSteers, AdmissionExclusive, SteersInOnePlace
<1>8. CASE LeaveAdmission(r)
  BY <1>8 DEF LeaveAdmission, LeavesAt, AdmissionExclusive
<1> QED
  BY <1>1, <1>2, <1>3, <1>4, <1>5, <1>6, <1>7, <1>8 DEF OwnStep, Progress

(* The end of a process keeps Operations.                                   *)
LEMMA CloseKeepsOperations ==
  ASSUME TypeOK, Operations, NEW r \in Ids, Closes(r)
  PROVE  Operations'
<1>1. UNCHANGED <<pc, executionAdmissionLock, activeRequestId, activeAborts>>
  BY DEF Closes, ChildCloses
<1>2. \A i \in Ids : child'[i].life = "live" => child[i].life = "live"
  BY DEF Closes, ChildCloses, TypeOK, Children
<1> QED
  BY <1>1, <1>2 DEF Operations, AdmissionExclusive, ActiveRequestIsCurrent, AbortsRegistered,
     ChildrenAttended

(* A step keeps Operations.                                                 *)
LEMMA OperationsStep ==
  ASSUME IInv, [Next]_vars
  PROVE  Operations'
<1> USE DEF IInv
<1>1. CASE OperationsRest
  BY <1>1 DEF OperationsRest, Operations, AdmissionExclusive, ActiveRequestIsCurrent,
     AbortsRegistered, ChildrenAttended
<1>2. Operations
  BY DEF Operations
<1> QED
  BY <1>1, <1>2, StepKinds, EnterKeepsOperations, OwnStepKeepsOperations, CloseKeepsOperations

-----------------------------------------------------------------------------
(* Approvals, and who may still be started.                                 *)

NothingNewAsked ==
  /\ pendingApproval' \in {pendingApproval, None} \cup Externals
  /\ \A c \in Channels : handler'[c].at = "approving" => handler'[c] = handler[c]
  /\ UNCHANGED granted

(* A handler that takes up something else than an approval.                 *)
LEMMA OtherHandlersStay ==
  ASSUME TypeOK, NEW c \in Channels, NEW h, h.at # "approving",
         handler' = [handler EXCEPT ![c] = h]
  PROVE  \A d \in Channels : handler'[d].at = "approving" => handler'[d] = handler[d]
BY DEF TypeOK

(* Only AskApproval puts a request into the store, only /approve takes one  *)
(* out to start it.                                                         *)
LEMMA ApprovalKinds ==
  ASSUME TypeOK, [Next]_vars
  PROVE  \/ NothingNewAsked
         \/ \E c \in Channels : HandleApprove(c)
         \/ \E r \in Ids : AskApproval(r)
<1> USE DEF NothingNewAsked, Ready, Done
<1>1. ASSUME NEW c \in Channels, NEW r \in Reqs, NEW cl \in Classes,
             HandleRun(c, r, cl) \/ RepoSelectedForRun(c, r, cl)
      PROVE  NothingNewAsked
  BY <1>1, OtherHandlersStay DEF HandleRun, RepoSelectedForRun
<1>2. ASSUME NEW c \in Channels, NEW repo \in Repos,
             \/ HandleRunWithoutRepo(c, repo) \/ HandleRepoSelect(c, repo)
             \/ HandleRepoInit(c, repo) \/ HandleRepoRemove(c, repo)
      PROVE  NothingNewAsked
  BY <1>2, OtherHandlersStay DEF HandleRunWithoutRepo, HandleRepoSelect, HandleRepoInit, HandleRepoRemove
<1>3. ASSUME NEW c \in Channels, NEW s \in Steers, HandleSteer(c, s)
      PROVE  NothingNewAsked
  BY <1>3, OtherHandlersStay DEF HandleSteer
<1>4. ASSUME NEW c \in Channels,
             \/ HandleAbort(c) \/ HandleMode(c) \/ HandleCloseSession(c) \/ HandleDeny(c)
             \/ DecideExternal(c) \/ RunNotStarted(c) \/ SteerLogged(c)
      PROVE  NothingNewAsked
  BY <1>4, OtherHandlersStay DEF HandleAbort, HandleMode, HandleCloseSession, HandleDeny, DecideExternal,
     RunNotStarted, SteerLogged
<1>5. ASSUME NEW c \in Channels,
             RepoRemovalSaved(c) \/ RepoRemovalFailed(c) \/ ApprovalLogged(c) \/ ExternalDecided(c)
      PROVE  NothingNewAsked
  BY <1>5, OtherHandlersStay DEF RepoRemovalSaved, RepoRemovalFailed, ApprovalLogged, ExternalDecided
<1>6. ASSUME NEW r \in Ids, Progress(r) \/ Closes(r), ~AskApproval(r)
      PROVE  NothingNewAsked
  BY <1>6 DEF Progress, Refuse, ExecuteTask, ExecuteTaskWithoutRepo, ExpireThread,
     ExpiryAnnounced, ExpiryNoticeFails, StartTask, StartTaskThrows, DispatchQueuedSteers,
     TakeResult, Finish, ConsumePendingSteers, MergedSteersExecute, LeaveAdmission, Closes, ChildCloses
<1>7. ASSUME NEW repo \in Repos, RegistryChanges(repo)
      PROVE  NothingNewAsked
  BY <1>7 DEF RegistryChanges
<1>8. ASSUME NEW x \in Externals, ExternalApprovalRequested(x)
      PROVE  NothingNewAsked
  BY <1>8 DEF ExternalApprovalRequested
<1>9. CASE UNCHANGED vars
  BY <1>9 DEF vars
<1> HIDE DEF NothingNewAsked
<1>10. ASSUME NEW c \in Channels, Command(c) \/ Continue(c), ~HandleApprove(c)
       PROVE  NothingNewAsked
  BY <1>1, <1>2, <1>3, <1>4, <1>5, <1>10 DEF Command, Continue
<1> QED
  BY <1>6, <1>7, <1>8, <1>9, <1>10 DEF Next

(* Who has an approval after a step could be started before it.             *)
LEMMA ApprovingCouldStart ==
  ASSUME TypeOK, [Next]_vars, NEW r \in Ids, Approving(r)'
  PROVE  MayStart(r)
<1>1. CASE NothingNewAsked
  BY <1>1, NamesAreDistinct DEF NothingNewAsked, MayStart, Approving, Ids
<1>2. ASSUME NEW c \in Channels, HandleApprove(c)
      PROVE  MayStart(r)
  <2>1. /\ pendingApproval' = None
        /\ \A d \in Channels : handler'[d].at = "approving" =>
             handler'[d] = handler[d] \/ handler'[d].id = pendingApproval
    BY <1>2 DEF HandleApprove, ApprovalAfterGrant, TypeOK, Ready
  <2>2. r # None
    BY NamesAreDistinct DEF Ids
  <2> QED
    BY <2>1, <2>2 DEF MayStart, Approving
<1>3. ASSUME NEW q \in Ids, AskApproval(q)
      PROVE  MayStart(r)
  BY <1>3 DEF AskApproval, MayStart, Approving, Preparing
<1> QED
  BY <1>1, <1>2, <1>3, ApprovalKinds

(* Except for startTask and the end of a process, no step changes which     *)
(* processes live.                                                          *)
LEMMA LivesKept ==
  ASSUME TypeOK, NEW r \in Ids, OwnStep(r), ~StartTask(r)
  PROVE  \A i \in Ids : child'[i].life = child[i].life
<1>1. CASE DispatchQueuedSteers(r)
  BY <1>1 DEF DispatchQueuedSteers, DispatchAborts, Abort, TypeOK, Children
<1>2. CASE Finish(r)
  BY <1>2 DEF Finish, NoChild, TypeOK, Children
<1>3. CASE ~DispatchQueuedSteers(r) /\ ~Finish(r)
  <2>1. UNCHANGED child
    BY <1>3 DEF OwnStep, Progress, Refuse, AskApproval, ExecuteTask, ExecuteTaskWithoutRepo,
       ExpireThread, ExpiryAnnounced, ExpiryNoticeFails, StartTaskThrows, TakeResult,
       ConsumePendingSteers, LeaveAdmission
  <2> QED
    BY <2>1
<1> QED
  BY <1>1, <1>2, <1>3

(* A step keeps Unstarted.                                                  *)
LEMMA UnstartedStep ==
  ASSUME IInv, [Next]_vars
  PROVE  Unstarted'
<1> SUFFICES ASSUME NEW i \in Ids, MayStart(i)' PROVE child'[i].life = "none"
  BY DEF Unstarted
<1> USE DEF IInv
<1>1. ASSUME MayStart(i), child'[i].life = child[i].life
      PROVE  child'[i].life = "none"
  BY <1>1 DEF Unstarted
<1>2. CASE OperationsRest
  <2>1. MayStart(i)
    BY <1>2, ApprovingCouldStart DEF OperationsRest, MayStart
  <2> QED
    BY <1>1, <1>2, <2>1 DEF OperationsRest
<1>3. ASSUME NEW r \in Ids, NEW q, Enters(r, q)
      PROVE  child'[i].life = "none"
  <2>1. MayStart(i)
    BY <1>3, ApprovingCouldStart DEF Enters, ExecuteOrEnqueue, Goto, MayStart, TypeOK
  <2> QED
    BY <1>1, <1>3, <2>1 DEF Enters
<1>4. ASSUME NEW r \in Ids, Closes(r)
      PROVE  child'[i].life = "none"
  <2>1. MayStart(i)
    BY <1>4, ApprovingCouldStart DEF Closes, ChildCloses, MayStart
  <2>2. i # r
    BY <1>4, <2>1 DEF Unstarted, Closes, ChildCloses
  <2> QED
    BY <1>1, <1>4, <2>1, <2>2 DEF Closes, ChildCloses, TypeOK
<1>5. ASSUME NEW r \in Ids, StartTask(r)
      PROVE  child'[i].life = "none"
  <2>1. r \in issued /\ ~Approving(r)
    BY <1>5 DEF StartTask, UnsentSteers, ApprovalInOnePlace, Inside, Active
  <2>2. ~MayStart(r)'
    BY <1>5, <2>1 DEF StartTask, MayStart, Approving, Goto, TypeOK, Preparing
  <2>3. i # r /\ MayStart(i)
    BY <1>5, <2>2, ApprovingCouldStart DEF StartTask, MayStart, Goto, TypeOK
  <2> QED
    BY <1>1, <1>5, <2>3 DEF StartTask, TypeOK
<1>6. ASSUME NEW r \in Ids, OwnStep(r), ~StartTask(r)
      PROVE  child'[i].life = "none"
  <2>1. child'[i].life = child[i].life
    BY <1>6, LivesKept
  <2>2. /\ issued' = issued
        /\ pc'[i] \in {"merging", "starting"} \cup Preparing =>
             pc[i] \in {"merging", "starting"} \cup Preparing \/ i = pendingSteers
    BY <1>6 DEF OwnStep, Progress, Refuse, AskApproval, ExecuteTask, ExecuteTaskWithoutRepo,
       ExpireThread, ExpiryAnnounced, ExpiryNoticeFails, SetActive, StartTaskThrows,
       DispatchQueuedSteers, TakeResult, Finish, ConsumePendingSteers, LeaveAdmission, Goto, TypeOK,
       Preparing
  <2>3. pendingSteers = i => i \notin issued
    BY NamesAreDistinct DEF SteersInOnePlace, Ids
  <2>4. MayStart(i)
    BY <2>2, <2>3, ApprovingCouldStart DEF MayStart
  <2> QED
    BY <1>1, <2>1, <2>4
<1> QED
  BY <1>2, <1>3, <1>4, <1>5, <1>6, StepKinds

(* A step keeps ApprovalInOnePlace.                                         *)
LEMMA ApprovalStep ==
  ASSUME IInv, [Next]_vars
  PROVE  ApprovalInOnePlace'
<1> USE DEF IInv
<1>1. ASSUME NEW i \in Ids, Approving(i)'
      PROVE  i \in Reqs /\ i \in issued' /\ pc'[i] \in {"asking", "idle"}
  <2>1. CASE Approving(i)
    <3>1. i \in Reqs /\ i \in issued /\ pc[i] \in {"asking", "idle"}
      BY <2>1 DEF ApprovalInOnePlace
    <3>2. CASE OperationsRest
      BY <3>1, <3>2 DEF OperationsRest
    <3>3. ASSUME NEW r \in Ids, NEW q, Enters(r, q)
          PROVE  i \in issued' /\ pc'[i] \in {"asking", "idle"}
      BY <1>1, <3>1, <3>3 DEF Enters, ExecuteOrEnqueue, Goto, TypeOK
    <3>4. ASSUME NEW r \in Ids, Closes(r)
          PROVE  i \in issued' /\ pc'[i] \in {"asking", "idle"}
      BY <3>1, <3>4 DEF Closes, ChildCloses
    <3>5. ASSUME NEW r \in Ids, OwnStep(r)
          PROVE  i \in issued' /\ pc'[i] \in {"asking", "idle"}
      <4>1. i # pendingSteers
        BY <3>1, NamesAreDistinct DEF TypeOK
      <4> QED
        BY <3>1, <3>5, <4>1 DEF OwnStep, Progress, Refuse, AskApproval, ExecuteTask,
           ExecuteTaskWithoutRepo, ExpireThread, ExpiryAnnounced, ExpiryNoticeFails, SetActive,
           StartTask, StartTaskThrows, DispatchQueuedSteers, TakeResult, Finish,
           ConsumePendingSteers, LeaveAdmission, Goto, TypeOK
    <3> QED
      BY <3>1, <3>2, <3>3, <3>4, <3>5, StepKinds
  <2>2. CASE ~Approving(i)
    <3>1. ~NothingNewAsked
      BY <1>1, <2>2, NamesAreDistinct DEF NothingNewAsked, Approving, Ids
    <3>2. ASSUME NEW c \in Channels, HandleApprove(c)
          PROVE  FALSE
      <4>1. /\ pendingApproval' = None
            /\ \A d \in Channels : handler'[d].at = "approving" =>
                 handler'[d] = handler[d] \/ handler'[d].id = pendingApproval
        BY <3>2 DEF HandleApprove, ApprovalAfterGrant, TypeOK, Ready
      <4> QED
        BY <1>1, <2>2, <4>1, NamesAreDistinct DEF Approving, Ids
    <3>3. PICK r \in Ids : AskApproval(r)
      BY <3>1, <3>2, ApprovalKinds
    <3>4. i = r
      BY <1>1, <2>2, <3>3 DEF AskApproval, Approving
    <3> QED
      BY <3>3, <3>4 DEF AskApproval, NeedsApproval, IsRun, Goto, TypeOK, UnsentSteers, Inside,
         Preparing
  <2> QED
    BY <2>1, <2>2
<1>2. /\ \A c \in Channels : handler'[c].at = "approving" => handler'[c].id # pendingApproval'
      /\ \A c, d \in Channels : /\ handler'[c].at = "approving" /\ handler'[d].at = "approving"
                                /\ handler'[c].id = handler'[d].id
                                => c = d
  <2>1. CASE NothingNewAsked
    BY <2>1, NamesAreDistinct DEF NothingNewAsked, ApprovalInOnePlace, HandlersCarry
  <2>2. ASSUME NEW e \in Channels, HandleApprove(e)
        PROVE  <1>2!1 /\ <1>2!2
    <3>1. pendingApproval' = None
      BY <2>2 DEF HandleApprove, ApprovalAfterGrant
    <3>2. CASE UNCHANGED handler
      BY <3>1, <3>2, NamesAreDistinct DEF ApprovalInOnePlace, HandlersCarry
    <3>3. CASE handler' = [handler EXCEPT ![e] = [Ready EXCEPT !.at = "approving",
                                                                !.id = pendingApproval]]
      <4>1. /\ handler'[e].id = pendingApproval /\ pendingApproval \in Reqs
            /\ \A c \in Channels \ {e} : handler'[c] = handler[c]
        BY <2>2, <3>3 DEF HandleApprove, TypeOK, Ready
      <4> QED
        BY <3>1, <4>1, NamesAreDistinct DEF ApprovalInOnePlace, HandlersCarry
    <3> QED
      BY <2>2, <3>2, <3>3 DEF HandleApprove
  <2>3. ASSUME NEW r \in Ids, AskApproval(r)
        PROVE  <1>2!1 /\ <1>2!2
    <3>1. ~Approving(r)
      BY <2>3 DEF AskApproval, ApprovalInOnePlace
    <3> QED
      BY <2>3, <3>1 DEF AskApproval, Approving, ApprovalInOnePlace
  <2> QED
    BY <2>1, <2>2, <2>3, ApprovalKinds
<1> QED
  BY <1>1, <1>2 DEF ApprovalInOnePlace

(* A step keeps BypassGranted.                                              *)
LEMMA BypassStep ==
  ASSUME IInv, [Next]_vars
  PROVE  BypassGranted'
<1> USE DEF IInv
<1>1. /\ granted \subseteq granted'
      /\ \A c \in Channels : handler'[c].at = "approving" => handler'[c].id \in granted'
  <2>1. CASE NothingNewAsked
    BY <2>1 DEF NothingNewAsked, BypassGranted
  <2>2. ASSUME NEW e \in Channels, HandleApprove(e)
        PROVE  <1>1
    <3>1. CASE UNCHANGED <<granted, handler>>
      BY <3>1 DEF BypassGranted
    <3>2. CASE /\ granted' = granted \cup {pendingApproval}
               /\ handler' = [handler EXCEPT ![e] = [Ready EXCEPT !.at = "approving",
                                                               !.id = pendingApproval]]
      BY <3>2 DEF BypassGranted, TypeOK, Ready
    <3> QED
      BY <2>2, <3>1, <3>2 DEF HandleApprove
  <2>3. ASSUME NEW r \in Ids, AskApproval(r)
        PROVE  <1>1
    BY <2>3 DEF AskApproval, BypassGranted
  <2> QED
    BY <2>1, <2>2, <2>3, ApprovalKinds
<1>2. ASSUME NEW i \in Reqs
      PROVE  /\ req'[i].bypass => i \in granted'
             /\ child'[i].life # "none" \/ pc'[i] \in {"expiring", "starting"}
                  => ~NeedsApproval(i)' /\ ~Barred(i)'
  <2> USE DEF NeedsApproval, Barred
  <2>1. /\ req[i].bypass => i \in granted
        /\ child[i].life # "none" \/ pc[i] \in {"expiring", "starting"}
             => ~NeedsApproval(i) /\ ~Barred(i)
        /\ i \in Ids
    BY DEF BypassGranted, Ids
  <2>2. CASE OperationsRest
    BY <1>1, <2>1, <2>2 DEF OperationsRest
  <2>3. ASSUME NEW r \in Ids, NEW q \in Requests, Enters(r, q)
        PROVE  <1>2!2
    <3>1. CASE i # r
      BY <1>1, <2>1, <2>3, <3>1 DEF Enters, ExecuteOrEnqueue, Goto, TypeOK
    <3>2. CASE i = r
      <4>1. child[r].life = "none" /\ child' = child
        BY <2>3 DEF Enters, Unstarted, MayStart
      <4>2. CASE executionAdmissionLock
        BY <1>1, <2>1, <2>3, <3>2, <4>1, <4>2 DEF Enters, ExecuteOrEnqueue, AdmissionBusy, Goto, TypeOK
      <4>3. CASE ~executionAdmissionLock
        <5>1. req'[r] = q /\ pc'[r] \in {"admitting", "refusing"}
          BY <2>3, <4>3 DEF Enters, ExecuteOrEnqueue, AdmissionBusy, Goto, TypeOK
        <5> QED
          BY <1>1, <2>3, <3>2, <4>1, <5>1 DEF Enters
      <4> QED
        BY <4>2, <4>3
    <3> QED
      BY <3>1, <3>2
  <2>4. ASSUME NEW r \in Ids, Closes(r)
        PROVE  <1>2!2
    BY <1>1, <2>1, <2>4 DEF Closes, ChildCloses, TypeOK, Children
  <2>5. ASSUME NEW r \in Ids, OwnStep(r)
        PROVE  <1>2!2
    <3>1. \/ req'[i].bypass = req[i].bypass /\ req'[i].class = req[i].class
          \/ req'[i] = NoRequest
      BY <2>1, <2>5 DEF OwnStep, Progress, Refuse, AskApproval, ExecuteTask, ExecuteTaskWithoutRepo,
         ExpireThread, ExpiryAnnounced, ExpiryNoticeFails, SetActive, StartTask, StartTaskThrows,
         DispatchQueuedSteers, TakeResult, Finish, ConsumePendingSteers, LeaveAdmission, TypeOK,
         Requests
    <3>2. child'[i].life # "none" \/ pc'[i] \in {"expiring", "starting"} =>
            \/ child[i].life # "none" \/ pc[i] \in {"expiring", "starting"}
            \/ ~NeedsApproval(i) /\ ~Barred(i)
      BY <2>1, <2>5 DEF OwnStep, Progress, Refuse, AskApproval, ExecuteTask, ExecuteTaskWithoutRepo,
         ExpireThread, ExpiryAnnounced, ExpiryNoticeFails, SetActive, StartTask, StartTaskThrows,
         DispatchQueuedSteers, TakeResult, Finish, ConsumePendingSteers, LeaveAdmission, Goto, TypeOK,
         DispatchAborts, Abort, Children, NoChild, IsRun
    <3> QED
      BY <1>1, <2>1, <3>1, <3>2 DEF NoRequest
  <2> QED
    BY <2>2, <2>3, <2>4, <2>5, StepKinds
<1> QED
  BY <1>1, <1>2 DEF BypassGranted

-----------------------------------------------------------------------------
(* Steers.                                                                  *)

(* Only a steer message puts something into the queue.                      *)
LEMMA SteerKinds ==
  ASSUME TypeOK, [Next]_vars
  PROVE  \/ pendingSteers' \in {pendingSteers, None} /\ UNCHANGED batchOf
         \/ \E c \in Channels, s \in Steers : HandleSteer(c, s)
<1> DEFINE Goal == pendingSteers' \in {pendingSteers, None} /\ UNCHANGED batchOf
<1>1. ASSUME NEW c \in Channels, NEW r \in Reqs, NEW cl \in Classes,
             HandleRun(c, r, cl) \/ RepoSelectedForRun(c, r, cl)
      PROVE  Goal
  BY <1>1 DEF HandleRun, RepoSelectedForRun
<1>2. ASSUME NEW c \in Channels, NEW repo \in Repos,
             \/ HandleRunWithoutRepo(c, repo) \/ HandleRepoSelect(c, repo)
             \/ HandleRepoInit(c, repo) \/ HandleRepoRemove(c, repo)
      PROVE  Goal
  BY <1>2 DEF HandleRunWithoutRepo, HandleRepoSelect, HandleRepoInit, HandleRepoRemove
<1>3. ASSUME NEW c \in Channels,
             \/ HandleAbort(c) \/ HandleMode(c) \/ HandleCloseSession(c) \/ HandleApprove(c)
             \/ HandleDeny(c) \/ DecideExternal(c) \/ Continue(c)
      PROVE  Goal
  BY <1>1, <1>3 DEF HandleAbort, QueueAfterAbort, HandleMode, HandleCloseSession, HandleApprove,
     HandleDeny, DecideExternal, Continue, RunNotStarted, SteerLogged, RepoRemovalSaved,
     RepoRemovalFailed, ApprovalLogged, ExternalDecided
<1>4. ASSUME NEW r \in Ids, Progress(r) \/ Closes(r)
      PROVE  Goal
  BY <1>4 DEF Progress, Refuse, AskApproval, ExecuteTask, ExecuteTaskWithoutRepo, ExpireThread,
     ExpiryAnnounced, ExpiryNoticeFails, StartTask, StartTaskThrows, DispatchQueuedSteers,
     TakeResult, Finish, QueueAfterRun, ConsumePendingSteers, QueueAfterConsume,
     MergedSteersExecute, LeaveAdmission, Closes, ChildCloses
<1>5. ASSUME NEW repo \in Repos, RegistryChanges(repo)
      PROVE  Goal
  BY <1>5 DEF RegistryChanges
<1>6. ASSUME NEW x \in Externals, ExternalApprovalRequested(x)
      PROVE  Goal
  BY <1>6 DEF ExternalApprovalRequested
<1>7. CASE UNCHANGED vars
  BY <1>7 DEF vars
<1> HIDE DEF Goal
<1>8. ASSUME NEW c \in Channels, Command(c), \A s \in Steers : ~HandleSteer(c, s)
      PROVE  Goal
  BY <1>1, <1>2, <1>3, <1>8 DEF Command
<1>9. ASSUME NEW c \in Channels, Command(c) \/ Continue(c)
      PROVE  Goal \/ \E s \in Steers : HandleSteer(c, s)
  <2>1. CASE Continue(c)
    BY <1>3, <2>1
  <2>2. CASE Command(c)
    BY <1>8, <2>2
  <2> QED
    BY <1>9, <2>1, <2>2
<1> QED
  BY <1>4, <1>5, <1>6, <1>7, <1>9 DEF Next, Goal

(* Where a step of an operation leads.                                      *)
LEMMA OwnStepMoves ==
  ASSUME TypeOK, SteersInOnePlace, NEW r \in Ids, OwnStep(r)
  PROVE  /\ pc[r] \in Inside /\ issued' = issued /\ pc'[r] \in Inside \cup {"idle"}
         /\ \A i \in Ids \ {r} : pc'[i] # pc[i] =>
              i = pendingSteers /\ pc'[i] = "merging" /\ pendingSteers' = None
<1>1. CASE ConsumePendingSteers(r)
  BY <1>1 DEF ConsumePendingSteers, QueueAfterConsume, SteersInOnePlace, TypeOK, Goto, Inside, Winding
<1>2. CASE LeaveAdmission(r)
  BY <1>2 DEF LeaveAdmission, LeavesAt, TypeOK, Goto, Inside, Preparing, Winding
<1>3. CASE ~ConsumePendingSteers(r) /\ ~LeaveAdmission(r)
  BY <1>3 DEF OwnStep, Progress, Refuse, AskApproval, ExecuteTask, ExecuteTaskWithoutRepo,
     ExpireThread, ExpiryAnnounced, ExpiryNoticeFails, SetActive, StartTask, StartTaskThrows,
     DispatchQueuedSteers, TakeResult, Finish, TypeOK, Goto, Inside, Preparing, Active, Winding
<1> QED
  BY <1>1, <1>2, <1>3

(* A step keeps SteersInOnePlace and UnsentSteers.                          *)
LEMMA SteersStep ==
  ASSUME IInv, TypeOK', [Next]_vars
  PROVE  SteersInOnePlace' /\ UnsentSteers'
<1> USE DEF IInv
<1>1. pendingSteers' # None =>
        batchOf'[pendingSteers'] # None /\ pc[pendingSteers'] = "idle" /\ pendingSteers' \notin issued
  <2>1. CASE pendingSteers' \in {pendingSteers, None} /\ UNCHANGED batchOf
    BY <2>1 DEF SteersInOnePlace, UnsentSteers
  <2>2. ASSUME NEW c \in Channels, NEW s \in Steers, HandleSteer(c, s)
        PROVE  <1>1
    BY <2>2, NamesAreDistinct DEF HandleSteer, Push, SteersInOnePlace, UnsentSteers, TypeOK
  <2> QED
    BY <2>1, <2>2, SteerKinds
<1>2. ASSUME NEW s \in Steers, batchOf'[s] = None
      PROVE  batchOf[s] = None
  <2>1. ASSUME NEW c \in Channels, NEW t \in Steers, HandleSteer(c, t)
        PROVE  batchOf[s] = None
    BY <1>2, <2>1, NamesAreDistinct DEF HandleSteer, Push, TypeOK
  <2> QED
    BY <1>2, <2>1, SteerKinds
<1>3. ASSUME NEW i \in Ids
      PROVE  /\ pendingSteers' = i => pc'[i] = "idle" /\ i \notin issued'
             /\ i \in Steers /\ batchOf[i] = None => pc'[i] = "idle" /\ i \notin issued'
             /\ pc'[i] = "merging" => i \in Steers /\ i \notin issued'
             /\ pc'[i] \in Inside => i \in issued'
  <2>1. /\ pendingSteers' = i => i \in Steers /\ pc[i] = "idle" /\ i \notin issued
        /\ i \in Steers /\ batchOf[i] = None => pc[i] = "idle" /\ i \notin issued
        /\ pc[i] = "merging" => i \in Steers /\ i \notin issued
        /\ pc[i] \in Inside => i \in issued
    BY <1>1, NamesAreDistinct DEF UnsentSteers, TypeOK, Ids
  <2>2. CASE UNCHANGED <<pc, issued>>
    BY <2>1, <2>2
  <2>3. ASSUME NEW r \in Ids, NEW q, Enters(r, q)
        PROVE  <1>3!2
    <3>1. r \in Reqs \/ pc[r] = "merging"
      BY <2>3 DEF Enters, ApprovalInOnePlace
    <3>2. CASE i # r
      BY <2>1, <2>3, <3>2 DEF Enters, ExecuteOrEnqueue, Goto, TypeOK
    <3>3. CASE i = r
      <4>1. \/ pc'[r] = "idle" /\ issued' = issued /\ pc[r] = "merging"
            \/ pc'[r] = pc[r] /\ issued' = issued
            \/ pc'[r] \in {"admitting", "refusing"} /\ r \in issued'
        BY <2>3 DEF Enters, ExecuteOrEnqueue, Goto, TypeOK
      <4>2. pendingSteers' # i /\ ~(i \in Steers /\ batchOf[i] = None)
        BY <2>1, <3>1, <3>3, NamesAreDistinct
      <4> QED
        BY <2>1, <3>3, <4>1, <4>2 DEF Inside, Preparing, Active, Winding
    <3> QED
      BY <3>2, <3>3
  <2>4. ASSUME NEW r \in Ids, OwnStep(r)
        PROVE  <1>3!2
    <3>1. /\ pc[r] \in Inside /\ issued' = issued /\ pc'[r] \in Inside \cup {"idle"}
          /\ \A j \in Ids \ {r} : pc'[j] # pc[j] =>
                j = pendingSteers /\ pc'[j] = "merging" /\ pendingSteers' = None
      BY <2>4, OwnStepMoves
    <3>2. r \in issued
      BY <3>1 DEF UnsentSteers
    <3>3. CASE i = r
      BY <2>1, <3>1, <3>2, <3>3 DEF Inside, Preparing, Active, Winding
    <3>4. CASE i # r /\ pc'[i] = pc[i]
      BY <2>1, <3>1, <3>4
    <3>5. CASE i # r /\ pc'[i] # pc[i]
      <4>1. i = pendingSteers /\ pc'[i] = "merging" /\ pendingSteers' = None
        BY <3>1, <3>5
      <4>2. i # None
        BY NamesAreDistinct DEF Ids
      <4>3. i \in Steers /\ i \notin issued' /\ batchOf[i] # None
        BY <3>1, <4>1, <4>2 DEF SteersInOnePlace, UnsentSteers, TypeOK
      <4> QED
        BY <4>1, <4>2, <4>3 DEF Inside, Preparing, Active, Winding
    <3> QED
      BY <3>3, <3>4, <3>5
  <2> QED
    BY <2>2, <2>3, <2>4, StepKinds DEF OperationsRest, Closes, ChildCloses
<1> QED
  BY <1>1, <1>2, <1>3 DEF SteersInOnePlace, UnsentSteers, TypeOK, Ids

-----------------------------------------------------------------------------
(* The rest of the invariant.                                               *)

(* A step keeps RejectedResumed.                                            *)
LEMMA RejectedStep ==
  ASSUME IInv, [Next]_vars
  PROVE  RejectedResumed'
<1> USE DEF IInv
<1>1. CASE OperationsRest
  BY <1>1 DEF OperationsRest, RejectedResumed
<1>2. ASSUME NEW r \in Ids, NEW q \in Requests, Enters(r, q)
      PROVE  RejectedResumed'
  <2>1. CASE executionAdmissionLock
    BY <1>2, <2>1 DEF Enters, ExecuteOrEnqueue, AdmissionBusy, Goto, RejectedResumed, TypeOK
  <2>2. CASE ~executionAdmissionLock
    <3>1. ~child[r].rejected
      BY <2>2 DEF AdmissionExclusive, RejectedResumed, Inside, Active
    <3> QED
      BY <1>2, <2>2, <3>1 DEF Enters, ExecuteOrEnqueue, AdmissionBusy, Goto, RejectedResumed, TypeOK
  <2> QED
    BY <2>1, <2>2
<1>3. ASSUME NEW r \in Ids, Closes(r)
      PROVE  RejectedResumed'
  BY <1>3 DEF Closes, ChildCloses, RejectedResumed, ChildrenAttended, TypeOK
<1>4. ASSUME NEW r \in Ids, StartTask(r) \/ Finish(r)
      PROVE  RejectedResumed'
  BY <1>4 DEF StartTask, Finish, Goto, RejectedResumed, TypeOK, Requests, NoChild
<1>5. ASSUME NEW r \in Ids, DispatchQueuedSteers(r) \/ TakeResult(r)
      PROVE  RejectedResumed'
  <2>1. pc'[r] \in {"running", "reporting"} /\ \A i \in Ids \ {r} : pc'[i] = pc[i]
    BY <1>5 DEF DispatchQueuedSteers, TakeResult, Goto, TypeOK
  <2>2. \A i \in Ids : child'[i].rejected = child[i].rejected /\ req'[i] = req[i]
    BY <1>5 DEF DispatchQueuedSteers, DispatchAborts, Abort, TakeResult, TypeOK, Children
  <2> QED
    BY <2>1, <2>2 DEF RejectedResumed
<1>6. ASSUME NEW r \in Ids, ConsumePendingSteers(r)
      PROVE  RejectedResumed'
  BY <1>6 DEF ConsumePendingSteers, Goto, RejectedResumed, SteersInOnePlace, TypeOK
<1>7. ASSUME NEW r \in Ids, OwnStep(r), ~StartTask(r), ~Finish(r), ~DispatchQueuedSteers(r),
             ~TakeResult(r), ~ConsumePendingSteers(r)
      PROVE  RejectedResumed'
  <2>1. ~child[r].rejected /\ child' = child
    BY <1>7 DEF OwnStep, Progress, Refuse, AskApproval, ExecuteTask, ExecuteTaskWithoutRepo,
       ExpireThread, ExpiryAnnounced, ExpiryNoticeFails, StartTaskThrows, LeaveAdmission, LeavesAt,
       RejectedResumed
  <2>2. \A i \in Ids \ {r} : pc'[i] = pc[i] /\ req'[i] = req[i]
    BY <1>7 DEF OwnStep, Progress, Refuse, AskApproval, ExecuteTask, ExecuteTaskWithoutRepo,
       ExpireThread, ExpiryAnnounced, ExpiryNoticeFails, SetActive, StartTaskThrows,
       LeaveAdmission, Goto, TypeOK
  <2> QED
    BY <2>1, <2>2 DEF RejectedResumed
<1> QED
  BY <1>1, <1>2, <1>3, <1>4, <1>5, <1>6, <1>7, StepKinds

(* A step keeps HandlersCarry.                                              *)
LEMMA HandlersStep ==
  ASSUME TypeOK, HandlersCarry, [Next]_vars
  PROVE  HandlersCarry'
<1> USE DEF HandlersCarry, Done, Ready
<1>1. ASSUME NEW c \in Channels, NEW h, handler' = [handler EXCEPT ![c] = h],
             /\ h.at = "steering"  => h.steer \in Steers /\ h.id \in Ids
             /\ h.at = "approving" => h.id \in Reqs
             /\ h.at = "removing"  => h.repo \in Repos
      PROVE  HandlersCarry'
  BY <1>1 DEF TypeOK
<1>2. CASE UNCHANGED handler
  BY <1>2
<1> HIDE DEF HandlersCarry
<1>3. ASSUME NEW c \in Channels, NEW r \in Reqs, NEW cl \in Classes,
             HandleRun(c, r, cl) \/ RepoSelectedForRun(c, r, cl)
      PROVE  HandlersCarry'
  BY <1>1, <1>2, <1>3 DEF HandleRun, RepoSelectedForRun
<1>4. ASSUME NEW c \in Channels, NEW repo \in Repos,
             \/ HandleRunWithoutRepo(c, repo) \/ HandleRepoSelect(c, repo)
             \/ HandleRepoInit(c, repo) \/ HandleRepoRemove(c, repo)
      PROVE  HandlersCarry'
  BY <1>1, <1>2, <1>4 DEF HandleRunWithoutRepo, HandleRepoSelect, HandleRepoInit, HandleRepoRemove
<1>5. ASSUME NEW c \in Channels, NEW s \in Steers, HandleSteer(c, s)
      PROVE  HandlersCarry'
  BY <1>1, <1>2, <1>5 DEF HandleSteer, Interruptible, TypeOK
<1>6. ASSUME NEW c \in Channels,
             \/ HandleAbort(c) \/ HandleMode(c) \/ HandleCloseSession(c) \/ HandleDeny(c)
             \/ DecideExternal(c) \/ RunNotStarted(c) \/ SteerLogged(c)
      PROVE  HandlersCarry'
  BY <1>1, <1>2, <1>6 DEF HandleAbort, HandleMode, HandleCloseSession, HandleDeny, DecideExternal,
     RunNotStarted, SteerLogged
<1>7. ASSUME NEW c \in Channels,
             \/ HandleApprove(c) \/ RepoRemovalSaved(c) \/ RepoRemovalFailed(c)
             \/ ApprovalLogged(c) \/ ExternalDecided(c)
      PROVE  HandlersCarry'
  BY <1>1, <1>2, <1>7 DEF HandleApprove, RepoRemovalSaved, RepoRemovalFailed, ApprovalLogged,
     ExternalDecided
<1>8. ASSUME NEW r \in Ids, Progress(r) \/ Closes(r)
      PROVE  HandlersCarry'
  BY <1>2, <1>8 DEF Progress, Refuse, AskApproval, ExecuteTask, ExecuteTaskWithoutRepo,
     ExpireThread, ExpiryAnnounced, ExpiryNoticeFails, StartTask, StartTaskThrows,
     DispatchQueuedSteers, TakeResult, Finish, ConsumePendingSteers, MergedSteersExecute,
     LeaveAdmission, Closes, ChildCloses
<1>9. ASSUME NEW repo \in Repos, RegistryChanges(repo)
      PROVE  HandlersCarry'
  BY <1>2, <1>9 DEF RegistryChanges
<1>10. ASSUME NEW x \in Externals, ExternalApprovalRequested(x)
       PROVE  HandlersCarry'
  BY <1>2, <1>10 DEF ExternalApprovalRequested
<1>11. CASE UNCHANGED vars
  BY <1>2, <1>11 DEF vars
<1>12. ASSUME NEW c \in Channels, Command(c) \/ Continue(c)
       PROVE  HandlersCarry'
  BY <1>3, <1>4, <1>5, <1>6, <1>7, <1>12 DEF Command, Continue
<1> QED
  BY <1>8, <1>9, <1>10, <1>11, <1>12 DEF Next

-----------------------------------------------------------------------------
(* Theorems.                                                                *)

(* The program starts in IInv.                                              *)
LEMMA InvariantInit == Init => IInv
<1> SUFFICES ASSUME Init PROVE IInv
  OBVIOUS
<1>1. TypeOK
  BY NamesAreDistinct DEF Init, TypeOK, Requests, Children, Handlers, NoRequest, NoChild, Ready,
     Classes, Phases
<1>2. /\ \A i \in Ids : pc[i] = "idle" /\ req[i] = NoRequest /\ child[i] = NoChild /\ i \notin issued
      /\ \A c \in Channels : handler[c] = Ready
  BY DEF Init
<1>3. \A i \in Ids : ~Approving(i) /\ i # None
  BY <1>2, NamesAreDistinct DEF Init, Approving, Ready, Ids
<1>4. HandlersCarry /\ RejectedResumed /\ Operations
  BY <1>2, <1>3 DEF Init, HandlersCarry, RejectedResumed, Operations, AdmissionExclusive,
     ActiveRequestIsCurrent, AbortsRegistered, ChildrenAttended, Ready, NoChild, Inside, Preparing,
     Active, Winding
<1>5. Unstarted /\ SteersInOnePlace /\ UnsentSteers
  BY <1>2 DEF Init, Unstarted, SteersInOnePlace, UnsentSteers, NoChild, Ids, Inside, Preparing,
     Active, Winding
<1>6. ApprovalInOnePlace /\ BypassGranted
  BY <1>2, <1>3 DEF ApprovalInOnePlace, BypassGranted, Ready, NoRequest, NoChild, NeedsApproval,
     Barred, Ids
<1> QED
  BY <1>1, <1>4, <1>5, <1>6 DEF IInv, Operations

(* Every step keeps IInv.                                                   *)
LEMMA InvariantStep == IInv /\ [Next]_vars => IInv'
<1> SUFFICES ASSUME IInv, [Next]_vars PROVE IInv'
  OBVIOUS
<1>1. TypeOK' /\ HandlersCarry' /\ RejectedResumed'
  BY TypeStep, HandlersStep, RejectedStep DEF IInv
<1>2. Operations' /\ Unstarted'
  BY OperationsStep, UnstartedStep
<1>3. SteersInOnePlace' /\ UnsentSteers' /\ ApprovalInOnePlace' /\ BypassGranted'
  BY <1>1, SteersStep, ApprovalStep, BypassStep
<1> QED
  BY <1>1, <1>2, <1>3 DEF IInv, Operations

(* IInv holds in every reachable state.                                     *)
THEOREM Invariant == Spec => []IInv
  BY InvariantInit, InvariantStep, PTL DEF Spec

(* Every variable keeps its type.                                           *)
THEOREM TypeCorrect == Spec => []TypeOK
<1>1. IInv => TypeOK
  BY DEF IInv
<1> QED
  BY <1>1, Invariant, PTL

(* The lock of executeOrEnqueue is held exactly while one operation is      *)
(* inside it: no path forgets to release it, none lets a second one in.     *)
THEOREM AdmissionIsExclusive == Spec => []AdmissionExclusive
<1>1. IInv => AdmissionExclusive
  BY DEF IInv
<1> QED
  BY <1>1, Invariant, PTL

(* activeRequestId names the operation inside executeTask.                  *)
THEOREM ActiveRequestCurrent == Spec => []ActiveRequestIsCurrent
<1>1. IInv => ActiveRequestIsCurrent
  BY DEF IInv
<1> QED
  BY <1>1, Invariant, PTL

(* A living Codex process belongs to the active request and can be aborted. *)
THEOREM LiveChildAbortable == Spec => []LiveChildIsAbortable
<1>1. IInv => LiveChildIsAbortable
  BY DEF IInv, LiveChildIsAbortable, ChildrenAttended, AbortsRegistered, ActiveRequestIsCurrent,
     Active
<1> QED
  BY <1>1, Invariant, PTL

(* A request whose capability needs approval has a process only if it was   *)
(* approved; a barred one never has.                                        *)
THEOREM OnlyApprovedRuns == Spec => []NoUnapprovedRun
<1>1. IInv => NoUnapprovedRun
  BY DEF IInv, NoUnapprovedRun, BypassGranted, NeedsApproval, Barred, IsRun
<1> QED
  BY <1>1, Invariant, PTL

(* A steer array is queued or taken by its follow-up run, not both.         *)
THEOREM SteersOnce == Spec => []SteersInOnePlace
<1>1. IInv => SteersInOnePlace
  BY DEF IInv
<1> QED
  BY <1>1, Invariant, PTL

-----------------------------------------------------------------------------
(* Steps.                                                                   *)

(* A request, or an array of steers, starts one Codex process at most: what *)
(* has ended is not started again, even if /approve arrives twice.          *)
THEOREM StartedOnce == Spec => StartsOnce
<1>1. ASSUME IInv, [Next]_vars, NEW r \in Ids, child[r].life = "closed"
      PROVE  child'[r].life = "closed"
  <2> USE <1>1 DEF IInv
  <2>1. ASSUME NEW i \in Ids, StartTask(i)
        PROVE  child'[r].life = "closed"
    <3>1. child[i].life = "none"
      BY <2>1 DEF StartTask, Unstarted, MayStart
    <3> QED
      BY <2>1, <3>1 DEF StartTask, TypeOK
  <2>2. ASSUME NEW i \in Ids, Closes(i)
        PROVE  child'[r].life = "closed"
    BY <2>2 DEF Closes, ChildCloses, TypeOK
  <2> QED
    BY <2>1, <2>2, LivesKept, StepKinds DEF OperationsRest, Enters
<1>2. IInv /\ [Next]_vars
        => [\A r \in Ids : child[r].life = "closed" => child'[r].life = "closed"]_vars
  BY <1>1
<1> QED
  BY <1>2, Invariant, PTL DEF Spec, StartsOnce

(* A request that waits for its approval is not displaced by another        *)
(* request of the chat.                                                     *)
THEOREM ApprovalKept == Spec => ApprovalKeptByRequests
<1>1. ASSUME TypeOK, [Next]_vars, pendingApproval \in Reqs
      PROVE  pendingApproval' \in {pendingApproval, None} \cup Externals
  BY <1>1, ApprovalKinds, NamesAreDistinct
     DEF NothingNewAsked, HandleApprove, ApprovalAfterGrant, AskApproval, MayAsk
<1> QED
  BY <1>1, TypeCorrect, PTL DEF Spec, ApprovalKeptByRequests

-----------------------------------------------------------------------------
(* RunControl implements ExecutionSlot.                                     *)

(* The slot is held by the one operation inside executeOrEnqueue.           *)
LEMMA HolderOf ==
  ASSUME NEW p, \A i, j \in Ids : p[i] \in Inside /\ p[j] \in Inside => i = j
  PROVE  LET h == IF \E i \in Ids : p[i] \in Inside
                  THEN CHOOSE i \in Ids : p[i] \in Inside ELSE None
         IN  /\ \A r \in Ids : p[r] \in Inside => h = r
             /\ (\A r \in Ids : p[r] \notin Inside) => h = None
  OBVIOUS

(* Its process is the one process that lives.                               *)
LEMMA ProcessOf ==
  ASSUME NEW ch, \A i, j \in Ids : ch[i].life = "live" /\ ch[j].life = "live" => i = j
  PROVE  LET p == IF \E i \in Ids : ch[i].life = "live"
                  THEN CHOOSE i \in Ids : ch[i].life = "live" ELSE None
         IN  /\ \A r \in Ids : ch[r].life = "live" => p = r
             /\ (\A r \in Ids : ch[r].life # "live") => p = None
  OBVIOUS

(* What Holder and Process are, in a state and in the next one.             *)
LEMMA SlotOf ==
  ASSUME IInv, IInv'
  PROVE  /\ \A r \in Ids : pc[r] \in Inside => Holder = r
         /\ (\A r \in Ids : pc[r] \notin Inside) => Holder = None
         /\ \A r \in Ids : pc'[r] \in Inside => Holder' = r
         /\ (\A r \in Ids : pc'[r] \notin Inside) => Holder' = None
         /\ \A r \in Ids : child[r].life = "live" => Process = r
         /\ (\A r \in Ids : child[r].life # "live") => Process = None
         /\ \A r \in Ids : child'[r].life = "live" => Process' = r
         /\ (\A r \in Ids : child'[r].life # "live") => Process' = None
<1>1. /\ \A i, j \in Ids : pc[i] \in Inside /\ pc[j] \in Inside => i = j
      /\ \A i, j \in Ids : pc'[i] \in Inside /\ pc'[j] \in Inside => i = j
  BY DEF IInv, AdmissionExclusive
<1>2. /\ \A i \in Ids : child[i].life = "live" => pc[i] \in Inside
      /\ \A i \in Ids : child'[i].life = "live" => pc'[i] \in Inside
  BY DEF IInv, ChildrenAttended, Inside, Active
<1>3. /\ \A i, j \in Ids : child[i].life = "live" /\ child[j].life = "live" => i = j
      /\ \A i, j \in Ids : child'[i].life = "live" /\ child'[j].life = "live" => i = j
  BY <1>1, <1>2
<1>4. /\ \A r \in Ids : pc[r] \in Inside => Holder = r
      /\ (\A r \in Ids : pc[r] \notin Inside) => Holder = None
  BY <1>1, HolderOf DEF Holder
<1>5. /\ \A r \in Ids : pc'[r] \in Inside => Holder' = r
      /\ (\A r \in Ids : pc'[r] \notin Inside) => Holder' = None
  BY <1>1, HolderOf DEF Holder
<1>6. /\ \A r \in Ids : child[r].life = "live" => Process = r
      /\ (\A r \in Ids : child[r].life # "live") => Process = None
  BY <1>3, ProcessOf DEF Process
<1>7. /\ \A r \in Ids : child'[r].life = "live" => Process' = r
      /\ (\A r \in Ids : child'[r].life # "live") => Process' = None
  BY <1>3, ProcessOf DEF Process
<1> QED
  BY <1>4, <1>5, <1>6, <1>7

(* Every step of the controller is a step of the slot, or leaves it alone.  *)
LEMMA SlotStep ==
  ASSUME IInv, IInv', [Next]_vars
  PROVE  [Slot!SlotNext]_(Slot!slotVars)
<1> USE DEF Slot!slotVars
<1>1. ASSUME \A i \in Ids : child'[i].life = child[i].life
      PROVE  Process' = Process /\ Ended' = Ended
  BY <1>1, SlotOf DEF Ended
<1>2. ASSUME NEW r \in Ids, pc[r] \in Inside, pc'[r] \in Inside
      PROVE  Holder' = Holder /\ Holder = r
  BY <1>2, SlotOf
<1>3. CASE OperationsRest
  <2>1. Holder' = Holder
    BY <1>3, SlotOf DEF OperationsRest
  <2> QED
    BY <1>1, <1>3, <2>1 DEF OperationsRest
<1>4. ASSUME NEW r \in Ids, NEW q \in Requests, Enters(r, q)
      PROVE  [Slot!SlotNext]_(Slot!slotVars)
  <2>1. Process' = Process /\ Ended' = Ended
    BY <1>1, <1>4 DEF Enters
  <2>2. CASE executionAdmissionLock
    <3>1. PICK i \in Ids : pc[i] \in Inside
      BY <2>2 DEF IInv, AdmissionExclusive
    <3>2. pc'[i] \in Inside
      BY <1>4, <2>2, <3>1 DEF Enters, ExecuteOrEnqueue, AdmissionBusy, Goto, IInv, TypeOK, Inside,
         Preparing, Active, Winding
    <3> QED
      BY <1>2, <2>1, <3>1, <3>2
  <2>3. CASE ~executionAdmissionLock
    <3>1. Holder = None
      BY <2>3, SlotOf DEF IInv, AdmissionExclusive
    <3>2. pc'[r] \in Inside
      BY <1>4, <2>3 DEF Enters, ExecuteOrEnqueue, AdmissionBusy, Goto, IInv, TypeOK, Inside, Preparing
    <3>3. Holder' = r
      BY <3>2, SlotOf
    <3> QED
      BY <2>1, <3>1, <3>3 DEF Slot!SlotNext, Slot!Take
  <2> QED
    BY <2>2, <2>3
<1>5. ASSUME NEW r \in Ids, Closes(r)
      PROVE  [Slot!SlotNext]_(Slot!slotVars)
  <2>1. /\ child[r].life = "live" /\ child'[r].life = "closed" /\ UNCHANGED pc
        /\ \A i \in Ids \ {r} : child'[i] = child[i]
    BY <1>5 DEF Closes, ChildCloses, IInv, TypeOK
  <2>2. pc[r] \in Inside
    BY <2>1 DEF IInv, ChildrenAttended, Inside, Active
  <2>3. Holder' = Holder
    BY <1>2, <2>1, <2>2
  <2>4. Process = r
    BY <2>1, SlotOf
  <2>5. \A i \in Ids : child'[i].life # "live"
    BY <2>1, <2>4, SlotOf
  <2>6. Process' = None
    BY <2>5, SlotOf
  <2>7. Ended' = Ended \cup {r}
    BY <2>1 DEF Ended
  <2> QED
    BY <2>3, <2>4, <2>6, <2>7 DEF Slot!SlotNext, Slot!End
<1>6. ASSUME NEW r \in Ids, StartTask(r)
      PROVE  [Slot!SlotNext]_(Slot!slotVars)
  <2>1. /\ pc[r] = "starting" /\ pc[r] \in Inside /\ pc'[r] \in Inside
        /\ child'[r].life = "live" /\ \A i \in Ids \ {r} : child'[i] = child[i]
    BY <1>6 DEF StartTask, Goto, IInv, TypeOK, Inside, Active
  <2>2. child[r].life = "none"
    BY <2>1 DEF IInv, Unstarted, MayStart
  <2>3. Holder = r /\ Holder' = r
    BY <1>2, <2>1
  <2>4. \A i \in Ids : child[i].life # "live"
    BY <2>1, <2>3, SlotOf DEF IInv, ChildrenAttended, AdmissionExclusive, Inside, Active
  <2>5. Process = None /\ Process' = r
    BY <2>1, <2>4, SlotOf
  <2>6. r \notin Ended /\ Ended' = Ended
    BY <2>1, <2>2 DEF Ended
  <2> QED
    BY <2>3, <2>5, <2>6 DEF Slot!SlotNext, Slot!Start
<1>7. ASSUME NEW r \in Ids, OwnStep(r), ~StartTask(r)
      PROVE  [Slot!SlotNext]_(Slot!slotVars)
  <2>1. Process' = Process /\ Ended' = Ended
    BY <1>1, <1>7, LivesKept DEF IInv
  <2>2. pc[r] \in Inside /\ pc'[r] \in Inside \cup {"idle"}
    BY <1>7, OwnStepMoves DEF IInv
  <2>3. CASE pc'[r] \in Inside
    BY <1>2, <2>1, <2>2, <2>3
  <2>4. CASE pc'[r] \notin Inside
    <3>1. LeaveAdmission(r)
      BY <1>7, <2>4 DEF OwnStep, Progress, Refuse, AskApproval, ExecuteTask,
         ExecuteTaskWithoutRepo, ExpireThread, ExpiryAnnounced, ExpiryNoticeFails, SetActive,
         StartTaskThrows, DispatchQueuedSteers, TakeResult, Finish, ConsumePendingSteers, Goto,
         IInv, TypeOK, Inside, Preparing, Active, Winding
    <3>2. Holder = r
      BY <2>2, SlotOf
    <3>3. \A i \in Ids : pc'[i] \notin Inside
      BY <3>1 DEF LeaveAdmission, IInv, AdmissionExclusive
    <3>4. \A i \in Ids : child[i].life # "live"
      BY <2>2, <3>1 DEF LeaveAdmission, LeavesAt, IInv, AdmissionExclusive, ChildrenAttended, Inside,
         Active
    <3>5. Holder' = None /\ Process = None
      BY <3>3, <3>4, SlotOf
    <3> QED
      BY <2>1, <3>2, <3>5 DEF Slot!SlotNext, Slot!Release
  <2> QED
    BY <2>3, <2>4
<1> QED
  BY <1>3, <1>4, <1>5, <1>6, <1>7, StepKinds DEF IInv

(* The detailed specification implements the abstract one: one slot per     *)
(* chat, one process in it at a time, none of them started twice, and the   *)
(* slot is not given back while the process lives.                          *)
THEOREM Implementation == Spec => ImplementsSlot
<1>1. Init => Slot!SlotInit
  <2> SUFFICES ASSUME Init PROVE Slot!SlotInit
    OBVIOUS
  <2>1. \A i \in Ids : pc[i] \notin Inside /\ child[i].life = "none"
    BY DEF Init, NoChild, Inside, Preparing, Active, Winding
  <2> QED
    BY <2>1 DEF Slot!SlotInit, Holder, Process, Ended
<1>2. IInv /\ IInv' /\ [Next]_vars => [Slot!SlotNext]_(Slot!slotVars)
  BY SlotStep
<1> QED
  BY <1>1, <1>2, Invariant, PTL DEF Spec, ImplementsSlot, Slot!SlotSpec
=============================================================================
