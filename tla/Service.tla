------------------------------ MODULE Service ------------------------------
(***************************************************************************)
(* One CodeFox service over several lives of its process: start-up and     *)
(* recovery (app.ts), the two loops that bring it messages (Telegram long  *)
(* polling and the local command queue), the state file, and the ways to   *)
(* stop: /stop with its confirmation, a signal, a crash.                   *)
(*                                                                         *)
(* What a message does to a chat is RunControl and Handoff.  Here it may   *)
(* change the state that is listed when it is saved (workflows, handoffs,  *)
(* approvals), lead to runs, or ask for or confirm a stop.  Nobody awaits  *)
(* a run: the handler detaches its admission and returns, and the run, and *)
(* the runs that follow it up, go on beside both loops and beside a stop.  *)
(*                                                                         *)
(* The state has a part per chat and one more, each represented by the     *)
(* number of its last change: the session of a chat, which sessions.list() *)
(* hands out by reference and which is therefore read when the write       *)
(* begins, and "rest", which is copied when the save is asked for.  The    *)
(* number of a session is odd while a request is active in the chat:       *)
(* setActiveRequest changes it at both ends of a run.                      *)
(***************************************************************************)
EXTENDS Integers, SequencesExt

CONSTANTS
  Users,           \* users who may command the service
  Chats,           \* chats with a session
  RelayEnabled,    \* config.externalRelay.enabled
  DiscardBacklog,  \* config.telegram.discardBacklogOnStart
  MaxUpdates,      \* bound: messages sent by Telegram
  MaxCommands,     \* bound: commands queued by the local client
  MaxLives,        \* bound: processes started
  MaxChanges,      \* bound: changes of the part "rest"
  MaxRuns,         \* bound: changes of a session are 2 * MaxRuns
  Nobody           \* undefined

ASSUME ServiceConstants ==
  /\ {MaxUpdates, MaxCommands, MaxLives, MaxChanges, MaxRuns} \subseteq Nat \ {0}
  /\ DiscardBacklog \in BOOLEAN /\ RelayEnabled \in BOOLEAN
  /\ Nobody \notin Users
  /\ "rest" \notin Chats

Channels == {"telegram", "local"}
Updates  == 1..MaxUpdates      \* update_id, in the order sent
Commands == 1..MaxCommands     \* inbox files, in the order of their names
Parts    == Chats \cup {"rest"}
States   == [Parts -> Nat]

VARIABLES
  phase,      \* the await createApp and start() stand at, "down" without a process
  lives,      \* processes started
  state,      \* sessions, approvals, workflows and handoffs in memory
  writes,     \* saves chained to writeQueue that have not begun: their "rest"
  tmp,        \* the state in the temporary file between writeFile and rename
  file,       \* the state in state.json
  broken,     \* writeQueue is a rejected promise
  sent,       \* updates Telegram had received when it was asked last
  confirmed,  \* updates Telegram will not deliver again
  tg,         \* the polling adapter: running, inside its loop, offset, batch
  place,      \* where the file of each local command is
  lq,         \* the command queue: running, timer, polling, files of this poll
  http,       \* the relay server; "closed" once it takes no request any more
  doing,      \* the message each channel's handler is busy with
  run,        \* chats with a run in Codex, between setActiveRequest and its finally
  asker,      \* user of the pending stop confirmation, or Nobody
  stop,       \* how far stopInternal is
  ahead,      \* writes flush() waits for
  signalled,  \* SIGINT or SIGTERM came: exit when the stop is done
  \* History, read by properties only:
  begun,      \* messages whose handler began in this life
  backlog,    \* updates sent before this life discarded its backlog
  due         \* state when flush() was called

processVars == <<phase, lives, signalled>>
storeVars   == <<writes, tmp, file, broken>>
tgVars      == <<sent, confirmed, tg, backlog>>
lqVars      == <<place, lq>>
stopVars    == <<asker, stop, ahead, due>>
workVars    == <<http, doing, run, begun>>
vars == <<processVars, state, storeVars, tgVars, lqVars, workVars, stopVars>>

Nothing == [id |-> 0, at |-> "idle"]
Empty   == [p \in Parts |-> 0]
NoWrite == [of |-> Empty, on |-> FALSE]

TypeOK ==
  /\ phase \in {"down", "loading", "starting", "first_poll", "serving"}
  /\ lives \in 0..MaxLives
  /\ state \in States
  /\ writes \in Seq(Nat)
  /\ tmp \in [of: States, on: BOOLEAN]
  /\ file \in States
  /\ broken \in BOOLEAN /\ signalled \in BOOLEAN
  /\ sent \in 0..MaxUpdates /\ confirmed \in 0..MaxUpdates
  /\ tg \in [running: BOOLEAN, at: {"off", "discard", "loop"},
             offset: 0..(MaxUpdates + 1), batch: SUBSET Updates]
  /\ place \in [Commands -> {"nowhere", "partial", "inbox", "processed", "failed"}]
  /\ lq \in [running: BOOLEAN, timer: BOOLEAN, polling: BOOLEAN, targets: SUBSET Commands]
  /\ http \in {"off", "opening", "listening", "closed"}
  /\ doing \in [Channels -> [id: 0..(MaxUpdates + MaxCommands),
                             at: {"idle", "reading", "ending"}]]
  /\ run \subseteq Chats
  /\ asker \in Users \cup {Nobody}
  /\ stop \in {"no", "timer", "closing", "aborting", "flushing", "logged", "failed"}
  /\ ahead \in Nat
  /\ begun \subseteq Channels \X Nat
  /\ backlog \in 0..MaxUpdates
  /\ due \in States

Init ==
  /\ phase = "down" /\ lives = 0 /\ signalled = FALSE
  /\ state = Empty /\ file = Empty
  /\ writes = <<>> /\ tmp = NoWrite /\ broken = FALSE
  /\ sent = 0 /\ confirmed = 0 /\ backlog = 0
  /\ tg = [running |-> FALSE, at |-> "off", offset |-> 0, batch |-> {}]
  /\ place = [c \in Commands |-> "nowhere"]
  /\ lq = [running |-> FALSE, timer |-> FALSE, polling |-> FALSE, targets |-> {}]
  /\ http = "off"
  /\ doing = [ch \in Channels |-> Nothing] /\ begun = {}
  /\ run = {}
  /\ asker = Nobody /\ stop = "no" /\ ahead = 0 /\ due = Empty

Up           == phase # "down"
Active(s, c) == s[c] % 2 = 1   \* the session of chat c in s names an active request

-----------------------------------------------------------------------------
(* The state file.  writeQueue chains the writes; a write lists nothing,   *)
(* it is handed the copies of "rest" and the live sessions.                *)

(* Mutant: a save asked for while another is under way is dropped.       *)
SavesWhenIdle(rest) ==
  /\ writes' = IF broken \/ tmp.on THEN writes ELSE Append(writes, rest)
  /\ UNCHANGED <<tmp, file, broken>>

Save(rest) ==
  /\ writes' = IF broken THEN writes ELSE Append(writes, rest)
  /\ UNCHANGED <<tmp, file, broken>>

(* Mutant: saves are not chained: whichever comes first is written first. *)
Unchained(i) == i \in DOMAIN writes

(* .then: a save is next when those before it are done.                    *)
IsNext(i) == i = 1

WriteBegins ==
  /\ ~tmp.on
  /\ \E i \in DOMAIN writes :
       /\ IsNext(i)
       /\ tmp' = [of |-> [state EXCEPT !["rest"] = writes[i]], on |-> TRUE]
       /\ writes' = RemoveAt(writes, i)
  /\ UNCHANGED <<processVars, state, file, broken, tgVars, lqVars, workVars, stopVars>>

(* rename replaces state.json in one step.                                 *)
WriteEnds ==
  /\ tmp.on
  /\ file' = tmp.of
  /\ tmp' = NoWrite
  /\ ahead' = IF ahead = 0 THEN 0 ELSE ahead - 1
  /\ UNCHANGED <<processVars, state, writes, broken, tgVars, lqVars, workVars, asker,
                 stop, due>>

(* mkdir, writeFile or rename rejects: so does every save after it.        *)
WriteFails ==
  /\ tmp.on
  /\ broken' = TRUE /\ tmp' = NoWrite /\ writes' = <<>>
  /\ stop' = IF ahead > 0 THEN "failed" ELSE stop
  /\ UNCHANGED <<processVars, state, file, tgVars, lqVars, workVars, asker, ahead, due>>

Underway == Len(writes) + (IF tmp.on THEN 1 ELSE 0)

-----------------------------------------------------------------------------
(* The process.                                                            *)

(* Mutant: start-up takes the active request over as it was saved.       *)
KeepsActive(s) == s

(* The sessions of s without their active requests.                        *)
Recovered(s) == [p \in Parts |-> IF p # "rest" /\ Active(s, p) THEN s[p] + 1 ELSE s[p]]

(* createApp: load, prune by TTL (with the session go its workflows and    *)
(* handoffs), clear the active requests; saved if anything was changed.    *)
Boot(pruned) ==
  /\ phase = "down" /\ lives < MaxLives
  /\ pruned => file["rest"] < MaxChanges
  /\ phase' = "loading" /\ lives' = lives + 1
  /\ state' = IF pruned THEN [Recovered(file) EXCEPT !["rest"] = @ + 1] ELSE Recovered(file)
  /\ writes' = IF pruned \/ (\E c \in Chats : Active(file, c))
                 THEN <<state'["rest"]>> ELSE <<>>
  /\ UNCHANGED <<tmp, file, broken, tgVars, lqVars, workVars, stopVars, signalled>>

(* The save of createApp was awaited: index.ts takes the signals over and  *)
(* calls start().                                                          *)
AppCreated ==
  /\ phase = "loading" /\ Underway = 0 /\ ~broken
  /\ phase' = "starting"
  /\ UNCHANGED <<lives, signalled, state, storeVars, tgVars, lqVars, workVars, stopVars>>

(* start() of the relay server, up to the await of listen.                 *)
RelayOpens ==
  /\ phase = "starting" /\ RelayEnabled /\ http = "off"
  /\ http' = "opening"
  /\ UNCHANGED <<processVars, state, storeVars, tgVars, lqVars, doing, run, begun,
                 stopVars>>

RelayListens ==
  /\ http = "opening"
  /\ http' = "listening"
  /\ UNCHANGED <<processVars, state, storeVars, tgVars, lqVars, doing, run, begun,
                 stopVars>>

Inbox == {c \in Commands : place[c] \in {"partial", "inbox"}}

(* Then the command queue starts and polls once.                           *)
StartQueue ==
  /\ phase = "starting" /\ (RelayEnabled => http \in {"listening", "closed"})
  /\ phase' = "first_poll"
  /\ lq' = [lq EXCEPT !.running = TRUE, !.polling = TRUE, !.targets = Inbox]
  /\ UNCHANGED <<lives, signalled, state, storeVars, tgVars, place, workVars, stopVars>>

(* The first poll is over: the interval is set, telegram.start sets        *)
(* running, whether or not a stop came in between.                         *)
StartTelegram ==
  /\ phase = "first_poll" /\ ~lq.polling
  /\ phase' = "serving"
  /\ lq' = [lq EXCEPT !.timer = TRUE]
  /\ tg' = [tg EXCEPT !.running = TRUE,
                      !.at = IF DiscardBacklog THEN "discard" ELSE "loop"]
  /\ UNCHANGED <<lives, signalled, state, storeVars, sent, confirmed, backlog, place,
                 workVars, stopVars>>

(* Whatever ends the process: only files and Telegram's server remain.     *)
ProcessEnds ==
  /\ phase' = "down" /\ signalled' = FALSE
  /\ state' = file
  /\ writes' = <<>> /\ tmp' = NoWrite /\ broken' = FALSE
  /\ tg' = [running |-> FALSE, at |-> "off", offset |-> 0, batch |-> {}]
  /\ lq' = [running |-> FALSE, timer |-> FALSE, polling |-> FALSE, targets |-> {}]
  /\ doing' = [ch \in Channels |-> Nothing] /\ begun' = {} /\ backlog' = 0
  /\ http' = "off" /\ run' = {}
  /\ asker' = Nobody /\ stop' = "no" /\ ahead' = 0 /\ due' = Empty
  /\ UNCHANGED <<lives, file, sent, confirmed, place>>

(* Killed, out of memory, or an error nobody catches (a failed first save, *)
(* a port in use, a file of the inbox that cannot be read or moved).       *)
Crash == Up /\ ProcessEnds

(* process.exit once app.stop() settled; a stop that failed after /stop    *)
(* ends the process as an unhandled rejection.                             *)
Exit ==
  /\ stop = "failed" \/ (signalled /\ stop = "logged")
  /\ ProcessEnds

(* Nothing keeps the event loop alive.                                     *)
RunsDry ==
  /\ phase = "serving" /\ stop = "logged"
  /\ tg.at = "off" /\ ~lq.timer /\ ~lq.polling /\ Underway = 0 /\ http # "listening"
  /\ \A ch \in Channels : doing[ch] = Nothing
  /\ run = {}
  /\ ProcessEnds

-----------------------------------------------------------------------------
(* stopInternal.                                                           *)

(* Up to its first await: the command queue is stopped and the server told *)
(* to close.  It takes no request any more, those that are open go on.  A  *)
(* server that does not listen yet refuses, and stopInternal rejects.      *)
StopBegins ==
  /\ lq' = [lq EXCEPT !.running = FALSE, !.timer = FALSE]
  /\ stop' = CASE http = "off"     -> "aborting"
               [] http = "opening" -> "failed"
               [] OTHER            -> "closing"
  /\ http' = IF http = "listening" THEN "closed" ELSE http

(* Before app is there a signal is a Crash.  A second one is not heard.    *)
Signal ==
  /\ phase \in {"starting", "first_poll", "serving"} /\ ~signalled
  /\ signalled' = TRUE
  /\ IF stop \in {"no", "timer"} THEN StopBegins ELSE UNCHANGED <<stop, lq, http>>
  /\ UNCHANGED <<phase, lives, state, storeVars, tgVars, place, doing, run, begun,
                 asker, ahead, due>>

(* The 25 ms timer of requestServiceStop fires.                            *)
TimerFires ==
  /\ stop = "timer"
  /\ StopBegins
  /\ UNCHANGED <<processVars, state, storeVars, tgVars, place, doing, run, begun,
                 asker, ahead, due>>

(* close() calls back when the last request that is open is over, however  *)
(* long that takes; then shutdown() aborts the runs it finds.              *)
RelayClosed ==
  /\ stop = "closing"
  /\ stop' = "aborting"
  /\ UNCHANGED <<processVars, state, storeVars, tgVars, lqVars, workVars, asker, ahead, due>>

(* Mutant: shutdown() waits for the runs without a deadline.             *)
WaitsForRuns == stop = "aborting" /\ run = {}

(* shutdown() goes on when the runs it aborted have ended, or at its       *)
(* deadline, so at any moment; it does not look at what starts meanwhile.  *)
MayFlush == stop = "aborting"

(* Mutant: flush() waits for the write that has begun only.              *)
AwaitsOneWrite == IF tmp.on THEN 1 ELSE 0

(* flush() awaits writeQueue as it is now: what is chained later is not    *)
(* waited for.                                                             *)
Awaited == Underway

Flush ==
  /\ MayFlush
  /\ stop' = IF broken THEN "failed" ELSE "flushing"
  /\ ahead' = Awaited /\ due' = state
  /\ tg' = [tg EXCEPT !.running = FALSE]
  /\ UNCHANGED <<processVars, state, storeVars, sent, confirmed, backlog, lqVars,
                 workVars, asker>>

StopLogged ==
  /\ stop = "flushing" /\ ahead = 0
  /\ stop' = "logged"
  /\ UNCHANGED <<processVars, state, storeVars, tgVars, lqVars, workVars, asker, ahead,
                 due>>

-----------------------------------------------------------------------------
(* Telegram.                                                               *)

(* What users sent until then is settled when Telegram is asked.           *)
Sent(n) == n \in sent..MaxUpdates /\ sent' = n

(* Mutant: the backlog's last update counted twice, and not at all.      *)
SkipsOne(last)   == last + 2
RepeatsOne(last) == last

(* getUpdates with offset -1 gives the last update and forgets the others. *)
AfterBacklog(last) == last + 1

BacklogDiscarded ==
  /\ tg.at = "discard"
  /\ \E n \in Updates \cup {0} :
       /\ Sent(n)
       /\ tg' = [tg EXCEPT !.at = "loop",
                           !.offset = IF n > confirmed THEN AfterBacklog(n) ELSE 0]
       /\ confirmed' = IF n > confirmed THEN n - 1 ELSE confirmed
       /\ backlog' = n
  /\ UNCHANGED <<processVars, state, storeVars, lqVars, workVars, stopVars>>

(* The request failed: polling starts with the backlog after all.          *)
DiscardFails ==
  /\ tg.at = "discard"
  /\ tg' = [tg EXCEPT !.at = "loop"]
  /\ UNCHANGED <<processVars, state, storeVars, sent, confirmed, backlog, lqVars,
                 workVars, stopVars>>

(* getUpdates confirms what is below the offset and gives the rest.  The   *)
(* answer may be lost, which leaves only the confirmation.                 *)
GetUpdates ==
  LET first == IF tg.offset > confirmed THEN tg.offset - 1 ELSE confirmed
  IN  /\ tg.at = "loop" /\ tg.running /\ tg.batch = {} /\ doing["telegram"] = Nothing
      /\ \E n \in Updates :
           /\ Sent(n) /\ n > first
           /\ confirmed' = first
           /\ \/ tg' = [tg EXCEPT !.batch = (first + 1)..n]
              \/ UNCHANGED tg
      /\ UNCHANGED <<processVars, state, storeVars, backlog, lqVars, workVars, stopVars>>

(* running is looked at between two batches only.                          *)
PollingEnds ==
  /\ tg.at = "loop" /\ ~tg.running /\ tg.batch = {} /\ doing["telegram"] = Nothing
  /\ tg' = [tg EXCEPT !.at = "off"]
  /\ UNCHANGED <<processVars, state, storeVars, sent, confirmed, backlog, lqVars,
                 workVars, stopVars>>

Begin(ch, m) ==
  /\ doing[ch] = Nothing
  /\ doing' = [doing EXCEPT ![ch] = [id |-> m, at |-> "reading"]]
  /\ begun' = begun \cup {<<ch, m>>}

(* The offset goes past the update before its handler runs.                *)
TakeUpdate ==
  /\ \E u \in tg.batch :
       /\ \A v \in tg.batch : u <= v
       /\ Begin("telegram", u)
       /\ tg' = [tg EXCEPT !.offset = u + 1, !.batch = @ \ {u}]
  /\ UNCHANGED <<processVars, state, storeVars, sent, confirmed, backlog, lqVars, http,
                 run, stopVars>>

(* An error of the handler is printed, no more.                            *)
UpdateDone ==
  /\ doing["telegram"] # Nothing
  /\ doing' = [doing EXCEPT !["telegram"] = Nothing]
  /\ UNCHANGED <<processVars, state, storeVars, tgVars, lqVars, http, run, begun,
                 stopVars>>

-----------------------------------------------------------------------------
(* The local command queue.                                                *)

(* writeFile of the client: the file is there before its contents are.     *)
Enqueue(c) ==
  /\ place[c] = "nowhere" /\ \A d \in 1..(c - 1) : place[d] # "nowhere"
  /\ place' = [place EXCEPT ![c] = "partial"]
  /\ UNCHANGED <<processVars, state, storeVars, tgVars, lq, workVars, stopVars>>

EnqueueEnds(c) ==
  /\ place[c] = "partial"
  /\ place' = [place EXCEPT ![c] = "inbox"]
  /\ UNCHANGED <<processVars, state, storeVars, tgVars, lq, workVars, stopVars>>

(* Mutant: the interval polls while a poll is under way.                 *)
PollsOverlap == lq.running

(* A tick of the interval, which start() sets after the first poll.  One   *)
(* that finds no file is left out.                                         *)
MayPoll == lq.running /\ ~lq.polling

PollOnce ==
  /\ lq.timer /\ MayPoll /\ Inbox # {}
  /\ lq' = [lq EXCEPT !.polling = TRUE, !.targets = Inbox]
  /\ UNCHANGED <<processVars, state, storeVars, tgVars, place, workVars, stopVars>>

IsFirst(c) == c \in lq.targets /\ \A d \in lq.targets : c <= d

(* The next file of the poll does not parse: not written to the end.       *)
RefuseCommand ==
  /\ doing["local"] = Nothing
  /\ \E c \in Commands :
       /\ IsFirst(c) /\ place[c] = "partial"
       /\ place' = [place EXCEPT ![c] = "failed"]
       /\ lq' = [lq EXCEPT !.targets = @ \ {c}]
  /\ UNCHANGED <<processVars, state, storeVars, tgVars, workVars, stopVars>>

(* The loop does not look at running: a poll goes on after stop().         *)
TakeCommand ==
  /\ \E c \in Commands :
       /\ IsFirst(c) /\ place[c] # "partial"
       /\ Begin("local", c)
       /\ lq' = [lq EXCEPT !.targets = @ \ {c}]
  /\ UNCHANGED <<processVars, state, storeVars, tgVars, place, http, run, stopVars>>

(* The handler returned, or threw; the file is moved.                      *)
CommandDone(dir) ==
  /\ doing["local"] # Nothing
  /\ dir = "processed" \/ dir = "failed"
  /\ place' = [place EXCEPT ![doing["local"].id] = dir]
  /\ doing' = [doing EXCEPT !["local"] = Nothing]
  /\ UNCHANGED <<processVars, state, storeVars, tgVars, lq, http, run, begun, stopVars>>

PollEnds ==
  /\ lq.polling /\ lq.targets = {} /\ doing["local"] = Nothing
  /\ lq' = [lq EXCEPT !.polling = FALSE]
  /\ UNCHANGED <<processVars, state, storeVars, tgVars, place, workVars, stopVars>>

-----------------------------------------------------------------------------
(* What the messages of this life and the requests to its relay lead to.   *)
(* What a handler detached (an admission, a follow-up) goes on after it    *)
(* returned, also while a stop is under way and after shutdown() looked;   *)
(* RunControl has its steps.                                               *)

Handled == begun # {} \/ http \in {"listening", "closed"}

(* /spec, /accept, /deny, a request that waits for its approval: the state *)
(* changes and is saved at once.                                           *)
ChangeState ==
  /\ Handled /\ state["rest"] < MaxChanges
  /\ state' = [state EXCEPT !["rest"] = @ + 1]
  /\ Save(state'["rest"])
  /\ UNCHANGED <<processVars, tgVars, lqVars, workVars, stopVars>>

StartRun(c) ==
  /\ Handled /\ c \notin run /\ state[c] < 2 * MaxRuns
  /\ run' = run \cup {c}
  /\ state' = [state EXCEPT ![c] = @ + 1]
  /\ Save(state["rest"])
  /\ UNCHANGED <<processVars, tgVars, lqVars, http, doing, begun, stopVars>>

(* Codex ends, by itself or aborted.                                       *)
EndRun(c) ==
  /\ c \in run
  /\ run' = run \ {c}
  /\ state' = [state EXCEPT ![c] = @ + 1]
  /\ Save(state["rest"])
  /\ UNCHANGED <<processVars, tgVars, lqVars, http, doing, begun, stopVars>>

-----------------------------------------------------------------------------
(* /stop.                                                                  *)

Reading(ch)  == doing[ch].at = "reading"
Answered(ch) == doing' = [doing EXCEPT ![ch].at = "ending"]

(* /stop: a later one, of whoever, takes the place of an earlier one.  One *)
(* that comes while a stop is under way has no effect and is left out.     *)
AskStop(ch, user) ==
  /\ Reading(ch) /\ stop = "no"
  /\ asker' = user
  /\ Answered(ch)
  /\ UNCHANGED <<processVars, state, storeVars, tgVars, lqVars, http, run, begun, stop,
                 ahead, due>>

AskedBy(user) == asker = user

(* /stopconfirm: refused for anybody else; refused too once stopped.       *)
ConfirmStop(ch, user) ==
  /\ Reading(ch) /\ AskedBy(user)
  /\ asker' = Nobody
  /\ stop' = IF stop = "no" THEN "timer" ELSE stop
  /\ Answered(ch)
  /\ UNCHANGED <<processVars, state, storeVars, tgVars, lqVars, http, run, begun, ahead,
                 due>>

(* SERVICE_STOP_CONFIRM_TTL_MS is over.                                    *)
ConfirmationExpires ==
  /\ asker # Nobody
  /\ asker' = Nobody
  /\ UNCHANGED <<processVars, state, storeVars, tgVars, lqVars, workVars, stop, ahead,
                 due>>

-----------------------------------------------------------------------------
StopStep == TimerFires \/ Flush \/ StopLogged
WriteStep == WriteBegins \/ WriteEnds
TelegramStep == BacklogDiscarded \/ DiscardFails \/ GetUpdates \/ PollingEnds
                  \/ TakeUpdate \/ UpdateDone
QueueStep ==
  \/ PollOnce \/ RefuseCommand \/ TakeCommand \/ PollEnds
  \/ \E dir \in {"processed", "failed"} : CommandDone(dir)

HandlerStep(ch, u) == AskStop(ch, u) \/ ConfirmStop(ch, u)
RunStep(c) == StartRun(c) \/ EndRun(c)

Next ==
  \/ \E pruned \in BOOLEAN : Boot(pruned)
  \/ AppCreated \/ RelayOpens \/ RelayListens \/ StartQueue \/ StartTelegram
  \/ Crash \/ Exit \/ RunsDry \/ Signal
  \/ StopStep \/ RelayClosed \/ WriteStep \/ WriteFails
  \/ TelegramStep
  \/ \E c \in Commands : Enqueue(c) \/ EnqueueEnds(c)
  \/ QueueStep
  \/ \E ch \in Channels, u \in Users : HandlerStep(ch, u)
  \/ ConfirmationExpires
  \/ ChangeState
  \/ \E c \in Chats : RunStep(c)

Spec == Init /\ [][Next]_vars

(* Node runs what is due: timers, resolved writes, the steps of            *)
(* stopInternal, of which shutdown() has a deadline.  The close of the     *)
(* relay server has none: nothing is assumed of RelayClosed, nor of runs,  *)
(* users, Telegram, crashes or start-up.                                   *)
FairSpec == Spec /\ WF_vars(StopStep) /\ WF_vars(WriteStep)

-----------------------------------------------------------------------------
(* Properties.                                                             *)

(* The file moves forward, is never ahead of memory and is what a process  *)
(* starts from: writes end in the order of the saves, and recovery and     *)
(* pruning build on what was loaded.                                       *)
Durable == INSTANCE DurableState WITH current <- state, durable <- file, running <- Up
ImplementsDurableState == Durable!Spec

(* When nothing is left to write and no write failed, the file holds the   *)
(* state: every change was followed by a save that came after it, and no   *)
(* save was dropped because another was under way.                         *)
NothingLeftUnsaved == Up /\ Underway = 0 /\ ~broken => file = state

(* A session names an active request exactly while a run of this process   *)
(* is in Codex: none is taken over from a process that is gone, none is    *)
(* left by a run that ended, in whatever order runs, messages, saves and a *)
(* stop go.  A stale one would answer every request with "busy".           *)
ActiveRequestHasARun ==
  Up => \A c \in Chats : Active(state, c) <=> c \in run

(* A message is handled once in the life of a process, whatever polls,     *)
(* batches and failing handlers do; a local command that was moved out of  *)
(* the inbox is not handled again by a later process either.               *)
HandledOncePerLife ==
  [][\A ch \in Channels :
       doing[ch] = Nothing /\ doing'[ch] # Nothing =>
         /\ <<ch, doing'[ch].id>> \notin begun
         /\ ch = "local" => place[doing'[ch].id] = "inbox"]_vars

(* With discardBacklogOnStart no message of before the start is handled,   *)
(* unless the request that discards them failed.                           *)
BacklogStaysDiscarded ==
  \A m \in begun : m[1] = "telegram" => m[2] > backlog

(* service_stop is logged only after the state of the moment polling was   *)
(* ended is in the file, whatever polls, and runs that shutdown() did not  *)
(* wait for, are still changing it then.                                   *)
StopFlushes == stop = "logged" => \A p \in Parts : file[p] >= due[p]

(* A stop that was confirmed, or asked for by a signal, waits without end  *)
(* for nothing but the requests that keep the relay server open; once that *)
(* is closed it ends (logged, failed, or with the process), however many   *)
(* runs go on or are started.                                              *)
StopEnds ==
  stop \in {"timer", "aborting"} ~> stop \in {"closing", "logged", "failed", "no"}

=============================================================================
