# CodeFox: TLA+ models and proofs

CodeFox (`src/`) runs Codex, a coding agent on the command line, on behalf of
users who write to it from a Telegram chat, from a local command line or through
an HTTP relay for other Codex clients. This directory models the parts of it
where order, failure and concurrency decide whether it is right.

    tlc -workers 2 -config RunControl_requests.cfg MCRunControl     # a run
    tlapm RunControlProofs.tla                                      # proofs

`PROJECT.json` lists components, runs, mutants, hazards and theorems, and maps
each definition to the source lines it stands for.

## 1. The system

One Node process, one thread. Code interleaves only where it awaits: file I/O
(audit log, state, config), Telegram calls, Codex processes, HTTP requests.

| component | source (`src/src/`) | state | operations | talks to |
|---|---|---|---|---|
| Run control | `core/controller.ts` | per chat: admission lock, queue of steers; per request: abort function, steer mark | `/run /act /continue`, `/steer`, `/abort`, `/approve /deny`, `/mode`, `/close`, `/repo ...`; `executeOrEnqueue`, `executeTask`, `consumePendingSteers` | all below |
| Codex adapter | `adapters/codex.ts` | a process: alive, killed, timed out, thread id seen, resume refused | `startTask`, `abort` | called by run control; its `result` promise |
| Session manager | `core/session-manager.ts` | per chat: repo, mode, active request, Codex thread | setters, each followed by a save | state store (not awaited) |
| Approval store | `core/approval-store.ts` | per chat: one pending approval | `set`, `get`, `delete` | written by run control and by `app.ts` for external clients |
| Repo registry | `core/repo-registry.ts` | name -> root path, shared by all chats | `add`, `remove`, `get` | config file |
| External handoffs | `core/controller.ts`, `core/external-handoff-idempotency.ts` | per chat: a bundle, accepted or not, waiting for completion or not, items continued | `ingestExternalHandoff`, `noteExternalCompletion`, `/accept /reject`, `/continue`, `/handoff clear` | relay, run control |
| External relay and leases | `core/external-codex-*.ts`, `adapters/external-relay-http.ts` | leases with expiry and last sequence; routes; approval and completion records | bind, heartbeat, revoke, event, handoff, decide | sessions (routes), handoffs, approvals |
| Spec workflow | `core/spec-workflow.ts`, `core/spec-policy.ts` | per chat: revisions, stage, status | draft, clarify, approve, clear; bootstrap by a handoff | handoffs |
| State store, recovery | `core/state-store.ts`, `app.ts` | a JSON file, a chain of writes | `load`, `save`, `flush`, prune | everything that is kept |
| Local command queue | `core/local-command-queue.ts` | inbox, processed, failed directories | `enqueue`, `pollOnce`, `stop` | `handleUpdate` |
| Telegram adapter | `adapters/telegram.ts` | offset | poll, discard backlog, send | `handleUpdate` |
| Life cycle | `app.ts` | started, stopped | start, stop, `controller.shutdown` | all |
| UI device store | `core/ui-device-auth.ts` | a JSON file of devices | register, touch, find | web UI |
| Audit log, chat log | `core/audit-logger.ts`, `core/local-chat-log.ts` | append-only files | append, truncate | all |
| Handoff client, dev:stop, service launcher, UI start-up | `core/local-cli.ts`, `core/dev-runtime.ts`, `ui.ts` | processes started, pid file, a lease | start the service if it is missing, bind, report, deliver, revoke, stop what was started | relay over HTTP, processes |
| read-only commands, UI pages, parsing, formatting, config, templates | rest | none that lives on | text and I/O | |

### What is hard, and what makes each part right

* **Run control.** Two channels (the Telegram poll loop and the local command
  queue) deliver commands concurrently; runs are detached promises; a run ends
  by its process, a timeout, an abort, an error or an exception. Right means:
  one request at a time per chat; `activeRequestId` tells the truth; a living
  process can be stopped; no approval is skipped or used twice; a steer is
  applied once, or answered; a thread that was closed does not come back; the
  chat never stays locked.
* **Handoffs.** State is read, then written back after awaits; completion,
  confirmation and re-delivery race. Right means: an item is continued once, only
  after acceptance and completion; no accepted handoff waits for ever.
* **Relay.** Leases expire lazily, clients rebind, messages repeat. Right means:
  one live lease per session, sequence numbers grow, a decision stands.
* **Persistence.** Writes are chained; a crash may fall anywhere. Right means:
  the file holds a state the process was in, the latest one once it is quiet.
* **Queues.** At most once from Telegram, at least once from the local queue.
* **Life cycle.** A stop flushes what is owed to the file, whatever runs go on
  beside it, and ends once the relay server has closed; a process starts from the
  file and takes no active request over.
* **Launchers.** What a one-shot client started it stops, on every path out; it
  says "submitted" of nothing that was lost; the session is free afterwards. A
  launcher (npm) and the service below it may end apart.

## 2. Modules and plan

| module | what it is | composed with |
|---|---|---|
| `RunControl` | requests, steers, approvals of one chat | implements `ExecutionSlot` |
| `SessionLease` | what binding promises: one lease per session, none comes back (abstract) | implemented by `ExternalRelay` and `Handoff` |
| `ExternalRelay` | leases, relay approvals, HTTP server, the user's verdict | implements `SessionLease`; its effect on a chat is an environment action of `RunControl` |
| `SpecWorkflow` | the specification of a chat and its check (operators) | extended by `Handoff` |
| `Handoff` | a task changing hands: ingest, acceptance, completion, continuation | implements `SessionLease`, so that its one lease is one of `ExternalRelay`'s; ends where `RunControl` admits a request |
| `Service` | lives of the process: recovery, both message loops, state file, stop | implements `DurableState` |
| `LocalRuntime` | who starts and stops the service; the handoff client's side of the relay protocol | - |

Each has an `MC` module and one configuration per run. `ExternalRelay`, `Handoff`,
`Service` and `LocalRuntime` have a module of proofs each, `RunControl` two. With
them every safety invariant and every action property that a passing run checks is
a theorem; what the runs alone show is liveness.

Left to model: the overlap of root paths in the repo registry, the device store,
pruning by age.

## 3. Run control

`RunControl.tla` models ONE chat; chats share only the repo registry.

| variable | in the code |
|---|---|
| `executionAdmissionLock`, `activeAborts`, `steerTriggeredAborts` | fields of `CodeFoxController` |
| `pendingSteers`, `batchOf` | the array in `pendingSteers`, named by its first steer; which array each steer was pushed to |
| `activeRequestId`, `selectedRepo`, `codexThreadId` | the session |
| `pendingApproval` | the id of the record in `ApprovalStore` |
| `registered` | the names in `RepoRegistry` |
| `pc`, `req` | where the detached operation of each request is, and its parameters |
| `child` | its Codex process, seen through `startTask` |
| `handler` | the update each channel is in the middle of (at an await) |
| `issued`, `granted`, `retired`, `settled`, `raced` | history for properties; no guard of the code's behaviour reads them, except that `issued` keeps ids fresh |

An action is the code from one await to the next. An await of something already
resolved is no step: its microtasks run before the next I/O event. So the
`queueMicrotask` of `executeTask`'s finally block (`ConsumePendingSteers`), the
release of the lock (`LeaveAdmission`) and the continuation after the audit entry
of `consumePendingSteers` (`MergedSteersExecute`) are three steps, and the guard
of the third says that the audit entry, which is file I/O, ends after the
microtasks of the run before.

`pc` of a request:

    idle -> admitting -> refusing | asking | expiring | failing | starting
            (expiring -> starting | failing)
    starting -> dispatching -> running -> reporting -> finishing -> leaving -> idle
    idle -> merging -> admitting | idle           (a follow-up run)

Data left out: users (the guards that compare the requester), modes, text,
attachments, audit and message wording. The three verdicts of the capability
admission are the request's `class`; a refusal by the instruction policy or the
AGENTS.md guard, or an exception in admission, is `Refuse`, possible for any
request. A handler that fails to write a message leaves the state as it is. The
`error` event of a process is taken as its end.

What external clients do is reduced to its effect here: a record placed in the
chat's approval store (`ExternalApprovalRequested`), and a decision that deletes,
after an await, whatever record is there (`DecideExternal`, `ExternalDecided`).
The relay's refusal of a stale decision leaves everything unchanged and is no
action; that a decision happens only for a record the relay has is left to the
relay's own module, so this is an over-approximation. Restarts are not here: the
chat starts empty, with any registry.

`ExecutionSlot.tla` says what admission promises without how: a request takes the
only slot, starts one process, cannot give the slot back while it lives, and never
starts a second one.

### Properties

* `AdmissionExclusive`: the lock is set exactly while one operation is inside.
* `ActiveRequestIsCurrent`: `activeRequestId` names the operation between
  `setActiveRequest` and the finally block, and only then.
* `LiveChildIsAbortable`: a living process is the active request's, with an abort.
* `NoUnapprovedRun`, `StartsOnce`, `ApprovalKeptByRequests`: approvals.
* `SteersInOnePlace`, `SettledNotApplied`, `NoSilentRun`,
  `SteeredRunIsInterrupted`: steers. `NoSilentRun` excuses one case the code has:
  an `/abort` that falls into the audit await of a steer removes the queue, then
  the steer's handler marks the run, and its result is suppressed with no
  follow-up. `raced` records exactly the runs aborted in that window.
  `SteeredRunIsInterrupted` holds with one channel only: two steers at once each
  see the other in the array, and neither aborts.
* `RetiredThreadStaysClosed`: threads closed by `/close`, `/repo`, idleness or a
  refused resume. `/mode` and `/repo init` are not counted: they close the thread
  during a run, and the end of that run stores it again.
* `ImplementsSlot`: refinement of `ExecutionSlot`.
* `AdmissionEnds`, `QueueDrains`: liveness.

### Runs

| run | instance | shows |
|---|---|---|
| `requests` | 2 requests, 1 steer, 2 channels, 1 repo, 1 external approval; 919,918 states | lock, active request, processes, approvals, steers, refinement |
| `steers` | 1 request, 2 steers, 1 channel, 2 repos, with fairness; 415,956 states | threads, interruption by a steer, liveness |
| `lost_followup` | expected violation of `FollowUpKept` | a follow-up is thrown away unanswered |
| `repo_switch` | expected violation of `RepoFixedWhileActive` | `/repo init` switches during a run |
| `external_approval` | expected violation of `ApprovalNotReplaced` | an external approval overwrites a pending one |

Bounds. Two requests are what a race for the lock, the approval or the active
request needs, and both may be any of the three classes; one steer adds the
follow-up run, which competes with both. Two steers give the merged array, the
late steer and the second array, one after the other on the one channel that
`SteeredRunIsInterrupted` is about; two steers on two channels have no run of their
own, what is promised of them (`SteersInOnePlace`, `SettledNotApplied`,
`NoSilentRun`, `RetiredThreadStaysClosed`) is proved for any number of both. Two
channels give every pair of handlers at an await. Two repos give a switch. Ids are
given out once each, so executions are finite up to registry changes and repeated
commands; every request can be left unasked. `Symmetry` permutes ids of one kind and is used for safety only: no
definition orders them, and the `CHOOSE`s of the refinement mapping pick from
sets with at most one element (`AdmissionExclusive`, `LiveChildIsAbortable`).

Fairness. `Progress(r)`: what an operation has begun goes on, since audit entries
and messages complete or fail. `Closes(r)`: a process ends, because
`codex.timeoutMs` kills it and the adapter waits for `close`. `Continue(c)`: a
handler resumes after its await. Commands of users are under no fairness.

### What the expected violations show

* `lost_followup`: `consumePendingSteers` empties the queue and awaits its audit
  entry with the lock free. A `/run` handled there takes the lock; the follow-up
  gets the busy message and is gone, though the user was told it is applied
  automatically.
* `repo_switch`: `registerRepo` selects the new repo after `/repo init` whatever
  runs; `/repo <name>` is refused then.
* `external_approval`: `onApprovalRequested` calls `approvals.set` without
  looking, where `executeOrEnqueue` refuses a second approval.

## 4. External relay

`ExternalRelay.tla` is the bridge of external Codex clients to ONE chat:
`external-codex-integration.ts` (leases), `external-codex-relay.ts` (approvals),
`external-relay-http.ts` (the order of reading and checking), the callback
`onApprovalRequested` of `app.ts` and the external branches of `handleApprove` and
`handleDeny`.

| variable | in the code |
|---|---|
| `context`, `routes` | the session id `deriveExternalRoutes` finds now; the table built when the last request arrived |
| `reading` | requests between `setRoutes` and the end of `readJson` |
| `leases`, `granted` | `integration.leases` (session, seconds left, last sequence); how many ids were given |
| `inflight` | events whose `relayEvent` awaits audit and chat message |
| `records` | `relay.approvals` |
| `approval`, `handler` | the chat's pending external approval; the verdict each channel is storing |

A request is two steps (arrives, body read), so its routes may be those of a later
request; an accepted event is two more. `Tick` is the clock: expiry is no event in
the code, a lease is found expired when it is used (`ExpireOnUse`,
`WithoutExpired`). Events are duplicated and reordered by being accepted in any
order their sequence numbers allow. `Restart` loses the relay and may keep the
chat's approval.

| run | instance | shows |
|---|---|---|
| `relay` | 2 sessions, 2 leases of up to 2 ticks, 2 events each, 1 approval key, 2 channels; 2.0 million states | `ImplementsSessionLease`, `VerdictIsOnWhatWasShown`, `RevokedLeaseLeavesNothing`, `PendingApprovalIsKnown` |
| `stuck_approval` | expected violation of `PendingApprovalCanBeAnswered` | an external approval whose lease was revoked, or that came back after a restart, is refused as stale by `/approve` and `/deny` alike, stays in the store and blocks requests that need approval |

`SessionLease.tla` says what a client may rely on: `Grant` gives a session that no
lease holds a lease with a new id, `GiveUp` takes any leases away, and nothing else
happens. `ImplementsSessionLease` maps it to the unexpired leases and their sessions
(`Held`). It says more than `OneLiveLeasePerSession`, which is proved with it: a
heartbeat that revived an expired lease would break it too.

Two leases are what a conflict needs; two sessions let `/repo` move the routes
away under a lease; two events of one key give an approval asked again, before,
during and after its verdict; a lease of two ticks can be extended or run out
between any two steps. `RevokedLeaseLeavesNothing` excuses an event that was in
flight when its lease was revoked (`raced`): the code sets its record afterwards.
`VerdictIsOnWhatWasShown` excuses a request that arrived while no repo was
selected: the relay keeps it, the chat is not asked. `stuck_approval` assumes that
the user keeps answering and the handler goes on (`Answering`), nothing of clients.

## 5. Handoff and specification

`SpecWorkflow.tla` has the pure functions of `spec-workflow.ts` and
`spec-policy.ts` on sequences of revisions; texts of sections are present or
missing. `Handoff.tla` extends it with one chat's handoff.

| variable | in the code |
|---|---|
| `workflow` | `specDrafts` of the chat |
| `handoff` | `externalHandoffs` of the chat: lease, bundle, awaiting confirmation, awaiting completion, items continued |
| `lease`, `lapsed`, `completions` | the live lease; the expired one that is still in the lease table, and can still be revoked; the keys of `relay.completions` |
| `op` | each channel's command and each HTTP post: the await it stands at and the handoff state, item and completion it captured |

Captured states are the point: `continueHandoff` writes back a state it read several
awaits before, an ingest carries the completion that was known when it began, and an
acceptance tests the record it took. `receipt` numbers the handoff states ingests
have written, so that a state that overwrites a newer one is told apart.

| run | instance | shows |
|---|---|---|
| `handoff` | 2 bundles of 2 items, 3 posts of which 2 at a time, 2 leases, 1 channel, 2 revisions; 1.82 million states | `WorkFollowsHandshake`, `OneContinuationPerReport`, `ContinuationNotForgotten`, `WorkRequestedUnderApprovedSpec`, `ApprovedRevisionsAreKept` |
| `handoff_waits` | expected violation of `ReportedCompletionArrives` | a bundle that arrives under a new lease does not count the completion reported under the old one and waits for a report nobody will send |

Three posts are a bundle, its completion, and a duplicate or a second bundle; two
of them under way race each other and the user. `ContinuationNotForgotten` is stated
for moments with no operation under way, since an acceptance and a completion each
leave the other's part to be done within their handlers.

## 6. Service

`Service.tla` follows one installation over several lives of its process: `app.ts`
(recovery, start, `stopInternal`), `state-store.ts`, `local-command-queue.ts`,
`telegram.ts`, `/stop` in `controller.ts`, `index.ts`.

| variable | in the code |
|---|---|
| `phase`, `lives`, `signalled` | the await `createApp` and `start()` stand at; processes so far; a signal came |
| `state` | memory, in parts: the session of each chat, handed to the store by reference, and "rest", copied when a save is asked for; each is the number of its last change, a session's is odd while a request is active |
| `writes`, `tmp`, `file`, `broken` | the chain in `writeQueue`, the temporary file, `state.json`, the chain was rejected |
| `sent`, `confirmed`, `tg` | Telegram's updates, the offset it was told, the adapter |
| `place`, `lq` | the command files (one half written is "partial"), the poller |
| `http` | the relay server: off, opening, listening, closed to new requests |
| `doing`, `begun` | the message each channel's handler has; those begun in this life |
| `run` | the chats with a run in Codex |
| `asker`, `stop`, `ahead`, `due` | the stop confirmation, how far `stopInternal` is, the writes `flush()` waits for, the state owed then |

No handler awaits a run: each is detached (`runDetached` and `void operation.catch`
in `controller.ts`), the handler returns, and the channel, the move of the command's
file and the next message go on. So `StartRun` and `EndRun` ask for nothing but a
message handled in this life or a relay that listened; they stand for the detached
operations, follow-ups included, and go on during a stop and after `shutdown()` took
its look. `ChangeState` is the other thing messages and relay requests do to the
saved state. A crash may fall between any two steps, a write and a `getUpdates` may
fail, half a command file may be read.

A stop is `stopInternal` in its order: the command queue, the close of the relay
server, `shutdown()`, the end of polling, `flush()`. The close waits for requests
that are open, without a deadline (`RelayClosed`), and rejects when the server does
not listen yet, as after a signal during start-up: then nothing is flushed. A signal
before `createApp` is over is a crash, since `index.ts` has not taken it over yet.

`DurableState.tla` is the promise: per part, the file moves forward, is never ahead
of memory, and a process starts from it. It does not promise that parts are saved
together: sessions are read when the write begins, the rest when it was asked for.

| run | instance | shows |
|---|---|---|
| `service` | 1 update, 1 local command, 1 chat, 2 lives, 1 change of "rest", 1 run, relay on, backlog discarded, with fairness; 1,107,771 states | `ImplementsDurableState`, `NothingLeftUnsaved`, `StopFlushes`, `ActiveRequestHasARun`, `HandledOncePerLife`, `BacklogStaysDiscarded`, `StopEnds` |

Two lives are a crash and what the next process finds. One update may be the
backlog or come after it; one local command is enough to be handled in one life and
found again in the next. A change, the two ends of a run and the save at start-up
give the chain several writes with a stop among them. Batches, several chats and
overlapping runs are beyond this instance; for the safety and action properties
the theorems of section 8 cover any number of them. What Telegram has received is
settled when it is asked, a stop asked for while one is under way has no effect and
is left out, as is a poll that finds no file. The system may really stop here (no
process, no lives left), hence no deadlock check.

Fairness: `StopStep` and `WriteStep`, that is, Node runs timers, resolved writes and
the rest of `stopInternal`, of which `shutdown()` has a deadline. The close of the
relay server has none: nothing is assumed of `RelayClosed`, nor of runs, users or
Telegram. `StopEnds` therefore says that a stop waits without end for nothing but
the close; a client stuck in the body of its request keeps the process up.

What the model has and no property forbids, because the code has it: a failed write
poisons the chain for the rest of the life, so the file stays as it was and the
flush of a stop fails (`broken`); a stop that hangs in the close or fails there
never flushes; a stop during start-up, while the first poll is awaited, is undone by
`telegram.start`, which sets `running` again, and the interval of the command queue
stays; `HandledOncePerLife` says "per life", since a crash between handler and
rename delivers a command again, and an update is confirmed before its handler runs.

## 7. Local runtime

`LocalRuntime.tla` is the developer's machine: `runLocalHandoff` and
`stopCodeFoxProcess` of `local-cli.ts`, `dev-runtime.ts`, and start-up, watch and
shutdown of `ui.ts`. A pid is the process group of one `npm run dev`: the launcher
npm, whose pid it is, and the service below it.

| variable | in the code |
|---|---|
| `proc` | life of each process group: launched by npm, in sight of a scan of `/proc`, serving, serving though npm is gone ("orphaned"), told to stop, gone |
| `pidFile` | `codefox.dev.pid` |
| `lease`, `noted` | the live lease of the session in the serving process; its completion was relayed |
| `act` | each client and the UI: the await it stands at, the process it started and how, whether it may say "submitted", whether an answer about its lease was lost, whether it sends a reminder, how its bundle reached the chat |
| `stopper` | `dev:stop`: the processes it found and has still to stop, whether it stopped one |

A test of a pid (`isProcessAlive`, the child's `exit`) is a test of npm, a scan of
`/proc` and a signal to the group are about the service; `MayLive` and `MayLack` say
what the former may find. A process may crash or be stopped at any step, which loses
the relay's leases. A request may be lost, or answered in vain: both look the same
to the client. Ctrl-C kills a client without its finally block and reaches a
foreground process in the same terminal; the signals of `stopForegroundChild` go to
npm, which may not pass them on, so a foreground process is not promised to end.

| run | instance | shows |
|---|---|---|
| `runtime` | 1 handoff client, the UI, dev:stop, 1 other relay client, 2 processes, with fairness; 426,044 states | `OwnServiceStopped`, `SubmittedAsFinished`, `LeaseReleased`, `ClientsEnd`, `UiFollowsItsService` |
| `background_stopped` | expected violation of `BackgroundOutlivesClient` | a client stops the service it started in the background also after its handoff was submitted |

Two processes are what two starters make when neither sees the other, and what a
restart between two requests of a client needs. Other clients of the relay take the
session's lease at any time; a second handoff client is not in the instance (its
state space does not fit), its services and leases are those of the UI and the
other client.

Fairness: the steps of a program that runs (a request, a timer, a wait ends). None
for services, dev:stop or people, to whom the prompts belong: the choice between
routes inside `ResolveContext` is a step of its own (`ChooseRoute`) under no
fairness, and `ClientsEnd` counts a client that stands there as one that asks.

What `background_stopped` shows: README.md:145 and OPERATIONS.md:37 and :150
describe the service as a detached process, and the client itself prints "Stop it
with: npm run dev:stop" (`local-cli.ts:866`); its finally block then stops it on
every path. `OwnServiceStopped` is the promise that the code keeps, as written.

What the model has and no property forbids: a UI that sees its launcher gone quits
and leaves the pid file, and a service that outlived npm (`UiWatches`; for the same
reason `OwnServiceStopped` speaks of a UI closed by a signal); a UI whose process
lost the port to another's goes down although a service runs; a client that stops
its service stops it for everyone who found it reachable; `ensureCodeFoxRunning`
that gives up leaves its process; a dev:stop that stops nothing leaves the pid file;
reading and unlinking the pid file are two steps, and dev:stop unlinks it whatever
it names. Saving a bootstrapped specification may throw in `Resolve`; what that save
does to the running service's file is listed as a hazard.

## 8. Proofs

`RunControlProofs.tla` proves, for every value of the constants (any number of
requests, steers, channels, repos, external approvals), from `NamesAreDistinct`
(ids of different kinds differ, `None` is none of them):

| theorem | states |
|---|---|
| `Invariant` | `Spec => []IInv` |
| `TypeCorrect` | `Spec => []TypeOK` |
| `AdmissionIsExclusive` | `Spec => []AdmissionExclusive` |
| `ActiveRequestCurrent` | `Spec => []ActiveRequestIsCurrent` |
| `LiveChildAbortable` | `Spec => []LiveChildIsAbortable` |
| `OnlyApprovedRuns` | `Spec => []NoUnapprovedRun` |
| `SteersOnce` | `Spec => []SteersInOnePlace` |
| `StartedOnce` | `Spec => StartsOnce` |
| `ApprovalKept` | `Spec => ApprovalKeptByRequests` |
| `Implementation` | `Spec => ImplementsSlot` |

The argument. None of the properties is inductive alone: that a step does not
start a second process needs to know that an id which may still reach `startTask`
(`MayStart`) has had none, which needs to know where an approval can be (in the
store, or with one handler that took it out: `ApprovalInOnePlace`), that an array
of steers is queued or taken, and that an id with an abort function is between
`activeAborts.set` and the finally block (`AbortsRegistered`). `IInv` is the
conjunction. `StepKinds` sorts the actions of `Next` by what they do to the
operations (leave them, admit one, move one, start one, end one), so that each
part of `IInv` is proved over a handful of kinds instead of all the actions.
`SlotStep` then shows that every step maps to a step of `ExecutionSlot` or to a
stutter.

`RunControlHistoryProofs.tla` extends it, under the same assumption, with what
happens over several runs of a chat:

| theorem | states |
|---|---|
| `HistoryInvariant` | `Spec => []HInv` |
| `SettledOnce` | `Spec => []SettledNotApplied` |
| `ClosedThreadStaysClosed` | `Spec => []RetiredThreadStaysClosed` |
| `NobodyIsLeftSilent` | `Spec => NoSilentRun` |
| `SteerInterrupts` | with one channel, `Spec => []SteeredRunIsInterrupted` |

The argument. `HInv` has three parts, each inductive given `IInv`. Steers: an array
keeps the name of a steer of its own (`ArraysNamed`), and from the step that answers
a steer its array is neither queued nor on its way to `startTask` (`Spent`, which no
step takes back: `SpentStays`). Threads: whatever the chat, an operation or the
history remembers as a thread was made by a run that is over (`ThreadsMade`), so the
thread a run is about to store is new or the one it resumed; and nothing closes a
thread while a run has it resumed (`ResumedIsOpen`), because `/close`, `/repo` and
the idle expiry all look at the active request or the lock. `/mode` and `/repo init`
do not look, and are why the property speaks of threads closed for good. Interrupts:
`NoStrayAbort` says what is true of a run whose queue is empty and whose `/abort`
met no steer in its audit await: nobody is logging a steer for it, and if it was
aborted, it has no steer mark and no steer of an earlier run is still being logged,
which would mark it (`SteerLogged` marks the request active *now*). For
`SteeredRunIsInterrupted` `SteerOnItsWay` adds that a run not yet told to stop is the
target of the steer being logged, and that this steer is alone in its array; with
two channels both fail, which is the hazard listed at `controller.ts:2056`, and the
theorem's hypothesis `OneChannel` is what the run `steers` has.

The liveness properties `AdmissionEnds` and `QueueDrains` stay with TLC.

`ExternalRelayProofs.tla`, for any number of sessions, approval keys, channels,
leases and events, from `BoundsAreCounts` and `NoneIsNoSession`:

| theorem | states |
|---|---|
| `Invariant` | `Spec => []IInv` |
| `TypeCorrect` | `Spec => []TypeOK` |
| `LeaseIsExclusive` | `Spec => []OneLiveLeasePerSession` |
| `RevokedIsForgotten` | `Spec => []RevokedLeaseLeavesNothing` |
| `PendingIsKnown` | `Spec => []PendingApprovalIsKnown` |
| `VerdictMeetsItsRequest` | `Spec => VerdictIsOnWhatWasShown` |
| `Implementation` | `Spec => ImplementsSessionLease` |

The argument. A lease id is granted once (`IdsAreGranted`: whatever mentions a
lease mentions an id already given out), so a bind meets neither records nor events
of an earlier lease. A lease that was given up is out of the map, and what is still
in flight for it was in flight then (`DroppedIsGone`), which is the one exception
`RevokedLeaseLeavesNothing` has. That a verdict lands on the request the user saw
needs `RecordIsShown`: the relay's pending record is the chat's, or its event has
not reached the chat yet. For the refinement,
`OnlyGivesUp` covers every step that grants nothing (after it only leases live that
lived before, for the same session), and `BindGrants` the one that does.

`HandoffProofs.tla`, for any number of channels, posts, bundles, items, leases and
revisions, from `BoundsAreCounts` and `ActorsAreDistinct`:

| theorem | states |
|---|---|
| `Invariant` | `Spec => []IInv` |
| `TypeCorrect` | `Spec => []TypeOK` |
| `HandshakeIsFollowed` | `Spec => []WorkFollowsHandshake` |
| `ReportsAreSpentOnce` | `Spec => []OneContinuationPerReport` |
| `AcceptedWorkIsContinued` | `Spec => []ContinuationNotForgotten` |
| `WorkIsApproved` | `Spec => WorkRequestedUnderApprovedSpec` |
| `ApprovalIsKept` | `Spec => ApprovedRevisionsAreKept` |
| `Implementation` | `Spec => ImplementsSessionLease` |

The argument. Handoff states are copied before awaits and written back after them,
so a fact about the chat's state must hold of every copy: `StatesTruthful` says that
a copy, stored or captured, tells the truth about acceptance, completion and
delivery, which are never taken back. Races of an acceptance and a completion are
settled by counting: `ReportsCoverBegun` bounds the continuations begun for a receipt
(`begun`), those that an operation will begin after its audit entry (`Pending`, a
cardinality) and the one an acceptance may still begin (`Credit`) by the completions
reported, and `ReadyIsContinued` says that one of the first two is there as soon as
nothing holds the state back. A receipt is written by a post of its own
(`ReceiptsHavePosts`), so the counters never run out. `StepKinds` sorts the actions
by what they do to the copies. That `resolveOutstandingHandoffWork` finds an item
(`FirstOutstandingIs`) rests on the well-foundedness of `<` on the naturals.
`StageFollowsStatus` is why an approved revision is one `/spec approve` leaves alone.
`RelayMoves` lists the four actions that touch the lease, from which the refinement
follows. With the one of `ExternalRelay`, what Handoff assumes of leases is what the
relay guarantees; Handoff's half is a theorem only, no run repeats it.

`LocalRuntimeProofs.tla`, for any number of handoff clients, other relay clients
and processes, from `LocalRuntimeConstants` (names differ, pids are positive):

| theorem | states |
|---|---|
| `Invariant` | `Spec => []IInv` |
| `TypeCorrect` | `Spec => []TypeOK` |
| `OwnedIsStopped` | `Spec => []OwnServiceStopped` |
| `SubmittedIsFinished` | `Spec => []SubmittedAsFinished` |
| `LeaseIsReleased` | `Spec => []LeaseReleased` |

The argument. `LeaseHasOwner` says in which phases a client may hold the lease
(between bind and revoke, or when it was killed, or when an answer was lost);
`CompletionComesFirst` that one which delivers under a live lease had its
completion noted under that lease, so a restart between the two reports, which
ends the lease, makes the delivery refused. `ProcessHasOwner` says that a pid has
one owner and which phases have a process in hand; the owner alone writes its pid
to the file, and checks the file after the process is gone. The proofs are about
`Spec`: fairness is needed for the liveness properties only.

`OwnedIsStopped` is about whoever went through the shutdown; of a UI that quits
because its launcher is gone it says nothing.

`ServiceProofs.tla`, for any number of users, chats, updates, commands, lives,
changes and runs, relay server or not, from `ServiceConstants` (the bounds are
positive, `Nobody` is no user, "rest" no chat):

| theorem | states |
|---|---|
| `Invariant` | `Spec => []IInv` |
| `TypeCorrect` | `Spec => []TypeOK` |
| `NothingIsLost` | `Spec => []NothingLeftUnsaved` |
| `ActiveRequestHasItsRun` | `Spec => []ActiveRequestHasARun` |
| `BacklogIsDiscarded` | `Spec => []BacklogStaysDiscarded` |
| `StopIsFlushed` | `Spec => []StopFlushes` |
| `HandledOnce` | `Spec => HandledOncePerLife` |
| `Implementation` | `Spec => ImplementsDurableState` |

The argument. `WritesInOrder` puts the file, the temporary file, the queued writes
and memory in one line, each no newer than the next; with it a rename is a `Write`
of `DurableState`. `LastIsCurrent` adds that the last of that line equals memory,
which holds because nothing changes the state without chaining a save, and
`FlushAwaits` counts from there: of the writes `flush()` waits for, the last holds
at least the state it found (`DueIn`), also while runs that `shutdown()` did not
wait for chain later saves behind it. `RunsAreActive` is `ActiveRequestHasARun`, for
each chat: a run changes its session at both ends, so the parity of the number
follows it (`Parity`), and `Boot` makes every number even before a run begins.
`UpdatesOnce` relates the offset, the batch and what was begun; `CommandsOnce` says
that a command begun in this life is in hand or out of the inbox, for which a poll
must not start before the one before it is over. `DownIsEmpty` is why none of it
needs to survive a crash. `StopEnds` is liveness and stays with TLC.

## 9. Not modelled

* Audit log and local chat log: append-only, emptied at the size limit; the
  program's control does not depend on them.
* UI device store: one file loaded, changed and saved per call by one process.
* Read-only commands of the command line client, the Windows branches of
  `dev-runtime.ts` and `local-cli.ts`, HTTP routing and pages of the UI.
* Parsing and formatting of text, configuration, templates, the changelog reader:
  they keep no state between calls, and what can go wrong in them is a matter for
  unit tests.
* Sanitising and pruning of the state file by age: for `Service` they are changes of
  the state at start.
