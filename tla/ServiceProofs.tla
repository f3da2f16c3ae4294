--------------------------- MODULE ServiceProofs ---------------------------
(***************************************************************************)
(* Proofs about Service, for any number of users, chats, messages, lives   *)
(* of the process, changes and runs; in the first place that it implements *)
(* DurableState.                                                           *)
(***************************************************************************)
EXTENDS Service, SequenceTheorems, TLAPS

(* Between two lives there is nothing but files.                           *)
DownIsEmpty ==
  ~Up =>
    /\ state = file /\ writes = <<>> /\ tmp = NoWrite /\ ~broken
    /\ tg.at = "off" /\ tg.batch = {} /\ tg.offset = 0
    /\ ~lq.polling /\ ~lq.timer /\ lq.targets = {}
    /\ doing = [ch \in Channels |-> Nothing]
    /\ begun = {} /\ http = "off" /\ run = {}
    /\ backlog = 0 /\ stop = "no" /\ ahead = 0

(* What is to be written lies between the file and memory, in the order of *)
(* the saves.                                                              *)
WritesInOrder ==
  /\ \A i \in DOMAIN writes : file["rest"] <= writes[i] /\ writes[i] <= state["rest"]
  /\ \A i, j \in DOMAIN writes : i <= j => writes[i] <= writes[j]
  /\ tmp.on =>
       /\ \A p \in Parts : file[p] <= tmp.of[p] /\ tmp.of[p] <= state[p]
       /\ \A i \in DOMAIN writes : tmp.of["rest"] <= writes[i]
  /\ \A p \in Parts : file[p] <= state[p]

(* The last save is of the state as it is.                                 *)
LastIsCurrent ==
  Up /\ ~broken =>
    IF writes # <<>> THEN writes[Len(writes)] = state["rest"]
    ELSE IF tmp.on THEN tmp.of = state
    ELSE file = state

(* The state says of each chat whether a run is in Codex.                  *)
RunsAreActive == Up => \A c \in Chats : Active(state, c) <=> c \in run

(* What flush() found of the parts s is in t.                              *)
DueIn(t) == \A p \in Parts : due[p] <= t[p]

(* The last of the writes flush() waits for is of the state it found.      *)
FlushAwaits ==
  /\ stop \in {"flushing", "logged"} => DueIn(state)
  /\ stop = "logged" => DueIn(file)
  /\ stop = "flushing" =>
       /\ ahead <= Underway
       /\ ahead = 0 => DueIn(file)
       /\ tmp.on /\ ahead = 1 => DueIn(tmp.of)
       /\ tmp.on /\ ahead > 1 => due["rest"] <= writes[ahead - 1]
       /\ ~tmp.on /\ ahead > 0 => due["rest"] <= writes[ahead]

StoreInv == WritesInOrder /\ LastIsCurrent /\ RunsAreActive /\ FlushAwaits

(* The updates of a batch are those not begun yet, and none of the backlog. *)
UpdatesOnce ==
  /\ \A m \in begun : m[1] = "telegram" => m[2] < tg.offset /\ backlog < m[2]
  /\ \A u \in tg.batch : tg.offset <= u /\ backlog < u
  /\ backlog <= confirmed \/ backlog < tg.offset
  /\ phase \in {"loading", "starting", "first_poll"} \/ tg.at = "discard" =>
       /\ tg.batch = {} /\ tg.offset = 0 /\ backlog = 0
       /\ \A m \in begun : m[1] # "telegram"
  /\ phase \in {"loading", "starting", "first_poll"} => tg.at = "off"

(* A command that was begun is in hand or has left the inbox.              *)
CommandsOnce ==
  /\ ~lq.polling => lq.targets = {} /\ doing["local"] = Nothing
  /\ doing["local"] # Nothing => <<"local", doing["local"].id>> \in begun
  /\ phase \in {"loading", "starting"} => ~lq.polling /\ ~lq.timer
  /\ \A c \in lq.targets : place[c] \in {"partial", "inbox"} /\ <<"local", c>> \notin begun
  /\ \A c \in Commands :
       <<"local", c>> \in begun =>
         /\ place[c] \notin {"nowhere", "partial"}
         /\ place[c] = "inbox" => doing["local"].id = c /\ doing["local"] # Nothing

MessageInv == UpdatesOnce /\ CommandsOnce

(* A handler begins with a message of which no handler began in this life. *)
BeginsOnce ==
  \A ch \in Channels :
    doing[ch] = Nothing /\ doing'[ch] # Nothing =>
      /\ <<ch, doing'[ch].id>> \notin begun
      /\ ch = "local" => place[doing'[ch].id] = "inbox"

IInv == TypeOK /\ DownIsEmpty /\ StoreInv /\ MessageInv

(* What changes the state of a process.                                    *)
Changes == ChangeState \/ \E c \in Chats : RunStep(c)

(* The types by part.                                                      *)
ProcessTypes ==
  /\ phase \in {"down", "loading", "starting", "first_poll", "serving"}
  /\ lives \in 0..MaxLives /\ signalled \in BOOLEAN
  /\ asker \in Users \cup {Nobody}
  /\ stop \in {"no", "timer", "closing", "aborting", "flushing", "logged", "failed"}
  /\ http \in {"off", "opening", "listening", "closed"}
  /\ ahead \in Nat

StoreTypes ==
  /\ state \in States /\ file \in States /\ due \in States
  /\ writes \in Seq(Nat)
  /\ tmp \in [of: States, on: BOOLEAN]
  /\ broken \in BOOLEAN

TelegramTypes ==
  /\ sent \in 0..MaxUpdates /\ confirmed \in 0..MaxUpdates /\ backlog \in 0..MaxUpdates
  /\ tg \in [running: BOOLEAN, at: {"off", "discard", "loop"},
             offset: 0..(MaxUpdates + 1), batch: SUBSET Updates]

QueueTypes ==
  /\ place \in [Commands -> {"nowhere", "partial", "inbox", "processed", "failed"}]
  /\ lq \in [running: BOOLEAN, timer: BOOLEAN, polling: BOOLEAN, targets: SUBSET Commands]

HandlerTypes ==
  /\ doing \in [Channels -> [id: 0..(MaxUpdates + MaxCommands),
                             at: {"idle", "reading", "ending"}]]
  /\ run \subseteq Chats
  /\ begun \subseteq Channels \X Nat

(* Together they are the type invariant.                                   *)
LEMMA TypeParts ==
  TypeOK <=> ProcessTypes /\ StoreTypes /\ TelegramTypes /\ QueueTypes /\ HandlerTypes
  BY DEF TypeOK, ProcessTypes, StoreTypes, TelegramTypes, QueueTypes, HandlerTypes

(* What is assumed of the constants.                                       *)
LEMMA Bounds ==
  /\ MaxUpdates \in Nat /\ MaxCommands \in Nat /\ MaxLives \in Nat
  /\ MaxChanges \in Nat /\ MaxRuns \in Nat
  /\ DiscardBacklog \in BOOLEAN /\ Nobody \notin Users
  /\ "rest" \notin Chats
  BY ServiceConstants

(* A request becomes active, or ceases to be.                              *)
LEMMA Parity ==
  ASSUME NEW n \in Nat
  PROVE  /\ n % 2 \in {0, 1}
         /\ (n + 1) % 2 = 1 <=> n % 2 # 1
  OBVIOUS

(* No change was made yet, and none is being written.                      *)
LEMMA NoChange ==
  /\ Empty \in States /\ \A p \in Parts : Empty[p] = 0
  /\ NoWrite \in [of: States, on: BOOLEAN] /\ ~NoWrite.on
<1>1. Empty \in States /\ \A p \in Parts : Empty[p] = 0
  BY DEF Empty, States
<1>2. NoWrite \in [of: States, on: BOOLEAN] /\ ~NoWrite.on
  BY <1>1 DEF NoWrite
<1> QED
  BY <1>1, <1>2

(* What becomes of the queue of writes.                                    *)
LEMMA FirstRemoved ==
  ASSUME NEW S, NEW q \in Seq(S), q # <<>>
  PROVE  /\ RemoveAt(q, 1) \in Seq(S) /\ q[1] \in S
         /\ Len(RemoveAt(q, 1)) = Len(q) - 1
         /\ \A i \in 1..(Len(q) - 1) : RemoveAt(q, 1)[i] = q[i + 1]
<1>1. SubSeq(q, 1, 0) = <<>>
  BY SubSeqEmpty
<1>2. SubSeq(q, 2, Len(q)) = Tail(q)
  BY TailIsSubSeq
<1>3. RemoveAt(q, 1) = Tail(q)
  BY <1>1, <1>2 DEF RemoveAt
<1> QED
  BY <1>3, HeadTailProperties

(* What starting does to the state and its file.                           *)
LEMMA BootIs ==
  ASSUME StoreTypes, DownIsEmpty, NEW pruned \in BOOLEAN, Boot(pruned)
  PROVE  /\ state' \in States /\ writes' \in Seq(Nat)
         /\ \A p \in Parts : file[p] <= state'[p] /\ state'[p] <= file[p] + 1
         /\ \A c \in Chats : ~Active(state', c)
         /\ \/ writes' = <<>> /\ state' = file
            \/ Len(writes') = 1 /\ DOMAIN writes' = {1} /\ writes'[1] = state'["rest"]
         /\ phase' = "loading" /\ ~Up /\ Up' /\ ~tmp.on /\ ~broken /\ stop = "no" /\ run = {}
         /\ UNCHANGED <<tmp, file, broken, run, stop, ahead, due>>
<1> DEFINE r == Recovered(file)
<1>1. file \in States /\ \A p \in Parts : file[p] \in Nat
  BY DEF StoreTypes, States
<1>2. r \in States /\ \A p \in Parts : r[p] \in {file[p], file[p] + 1}
  BY <1>1 DEF Recovered, States
<1>3. ASSUME NEW c \in Chats PROVE c \in Parts /\ c # "rest" /\ r[c] % 2 # 1
  <2>1. c \in Parts /\ c # "rest"
    BY <1>3, Bounds DEF Parts
  <2>2. r[c] = IF Active(file, c) THEN file[c] + 1 ELSE file[c]
    BY <2>1 DEF Recovered
  <2> HIDE DEF r
  <2> QED
    BY <1>1, <2>1, <2>2, Parity DEF Active
<1>4. "rest" \in Parts /\ r["rest"] = file["rest"]
  BY DEF Parts, Recovered
<1>5. state' = IF pruned THEN [r EXCEPT !["rest"] = @ + 1] ELSE r
  BY DEF Boot
<1> HIDE DEF r
<1>6. /\ state' \in States
      /\ \A p \in Parts : state'[p] = IF pruned /\ p = "rest" THEN r[p] + 1 ELSE r[p]
  BY <1>2, <1>4, <1>5 DEF States
<1>7. \A p \in Parts : file[p] <= state'[p] /\ state'[p] <= file[p] + 1
  BY <1>1, <1>2, <1>4, <1>6
<1>8. \A c \in Chats : ~Active(state', c)
  BY <1>3, <1>6 DEF Active
<1>9. \/ writes' = <<>> /\ ~pruned /\ \A c \in Chats : ~Active(file, c)
      \/ writes' = <<state'["rest"]>>
  BY DEF Boot
<1>10. ASSUME ~pruned, \A c \in Chats : ~Active(file, c) PROVE state' = file
  <2>1. state' = Recovered(file)
    BY <1>5, <1>10 DEF r
  <2>2. \A p \in Parts : Recovered(file)[p] = file[p]
    BY <1>10 DEF Recovered, Parts
  <2>3. Recovered(file) = [p \in Parts |-> file[p]]
    BY <2>2 DEF Recovered
  <2>4. file = [p \in Parts |-> file[p]]
    BY <1>1 DEF States
  <2> QED
    BY <2>1, <2>3, <2>4
<1>11. state'["rest"] \in Nat
  BY <1>4, <1>6 DEF States
<1>12. /\ writes' \in Seq(Nat)
       /\ \/ writes' = <<>> /\ state' = file
          \/ Len(writes') = 1 /\ DOMAIN writes' = {1} /\ writes'[1] = state'["rest"]
  <2>1. CASE writes' = <<state'["rest"]>>
    BY <1>11, <2>1
  <2>2. CASE writes' = <<>> /\ ~pruned /\ \A c \in Chats : ~Active(file, c)
    BY <1>10, <2>2
  <2> QED
    BY <1>9, <2>1, <2>2
<1>13. /\ ~Up /\ phase' = "loading" /\ Up'
       /\ UNCHANGED <<tmp, file, broken, run, stop, ahead, due>>
  BY DEF Boot, Up, workVars, stopVars
<1>14. ~tmp.on /\ ~broken /\ stop = "no" /\ run = {}
  BY <1>13, NoChange DEF DownIsEmpty
<1> QED
  BY <1>6, <1>7, <1>8, <1>12, <1>13, <1>14

(* A change of the state moves it forward and is followed by its save.     *)
LEMMA ChangeIs ==
  ASSUME StoreTypes, DownIsEmpty, Changes
  PROVE  /\ state' \in States /\ writes' \in Seq(Nat)
         /\ \A p \in Parts : state[p] <= state'[p]
         /\ Up /\ UNCHANGED <<phase, tmp, file, broken, tg, begun, backlog, confirmed, stop,
                              ahead, due>>
         /\ \/ broken /\ writes' = writes
            \/ /\ ~broken /\ writes' # <<>>
               /\ Len(writes') = Len(writes) + 1 /\ DOMAIN writes' = 1..(Len(writes) + 1)
               /\ \A i \in 1..Len(writes) : writes'[i] = writes[i]
               /\ writes'[Len(writes) + 1] = state'["rest"]
<1>1. state \in States /\ "rest" \in Parts /\ \A p \in Parts : state[p] \in Nat
  BY DEF StoreTypes, States, Parts
<1>2. PICK p \in Parts : state' = [state EXCEPT ![p] = @ + 1] /\ Save(state'["rest"])
  <2>1. ASSUME ChangeState
        PROVE  state' = [state EXCEPT !["rest"] = @ + 1] /\ Save(state'["rest"])
    BY <2>1 DEF ChangeState
  <2>2. ASSUME NEW c \in Chats, RunStep(c)
        PROVE  c \in Parts /\ state' = [state EXCEPT ![c] = @ + 1] /\ Save(state'["rest"])
    <3>1. c \in Parts /\ c # "rest" /\ state' = [state EXCEPT ![c] = @ + 1]
      BY <2>2, Bounds DEF RunStep, StartRun, EndRun, Parts
    <3>2. state'["rest"] = state["rest"]
      BY <1>1, <3>1 DEF States
    <3> QED
      BY <2>2, <3>1, <3>2 DEF RunStep, StartRun, EndRun
  <2> QED
    BY <1>1, <2>1, <2>2 DEF Changes
<1>3. state' \in States /\ \A q \in Parts : state[q] <= state'[q]
  BY <1>1, <1>2 DEF States
<1>4. Up
  BY DEF Changes, RunStep, ChangeState, StartRun, EndRun, Handled, DownIsEmpty
<1>5. UNCHANGED <<phase, tmp, file, broken, tg, begun, backlog, confirmed, stop, ahead, due>>
  BY <1>2 DEF Save, Changes, RunStep, ChangeState, StartRun, EndRun, processVars, tgVars,
     workVars, stopVars
<1>6. state'["rest"] \in Nat /\ writes \in Seq(Nat)
  BY <1>1, <1>3 DEF States, StoreTypes
<1>7. CASE broken
  BY <1>2, <1>3, <1>4, <1>5, <1>6, <1>7 DEF Save
<1>8. CASE ~broken
  <2>1. writes' = Append(writes, state'["rest"])
    BY <1>2, <1>8 DEF Save
  <2>2. /\ writes' \in Seq(Nat) /\ writes' # <<>> /\ Len(writes') = Len(writes) + 1
        /\ \A i \in 1..Len(writes) : writes'[i] = writes[i]
        /\ writes'[Len(writes) + 1] = state'["rest"]
    BY <1>6, <2>1, AppendProperties
  <2>3. DOMAIN writes' = 1..(Len(writes) + 1)
    BY <2>2
  <2> QED
    BY <1>3, <1>4, <1>5, <1>8, <2>2, <2>3
<1> QED
  BY <1>7, <1>8

(* The write that begins is the first of the queue, with the sessions as   *)
(* they are.                                                               *)
LEMMA WriteBeginsIs ==
  ASSUME StoreTypes, WriteBegins
  PROVE  /\ writes # <<>> /\ ~tmp.on /\ writes' \in Seq(Nat)
         /\ tmp'.on /\ tmp' \in [of: States, on: BOOLEAN]
         /\ \A p \in Parts : tmp'.of[p] = IF p = "rest" THEN writes[1] ELSE state[p]
         /\ writes[1] = state["rest"] => tmp'.of = state
         /\ Len(writes) \in Nat \ {0} /\ DOMAIN writes = 1..Len(writes)
         /\ Len(writes') = Len(writes) - 1 /\ DOMAIN writes' = 1..(Len(writes) - 1)
         /\ \A i \in 1..(Len(writes) - 1) : writes'[i] = writes[i + 1]
         /\ UNCHANGED <<phase, state, file, broken, stop, ahead, due>>
<1>1. /\ writes # <<>> /\ writes' = RemoveAt(writes, 1) /\ ~tmp.on
      /\ tmp' = [of |-> [state EXCEPT !["rest"] = writes[1]], on |-> TRUE]
      /\ UNCHANGED <<phase, state, file, broken, stop, ahead, due>>
  BY DEF WriteBegins, IsNext, processVars, stopVars
<1>2. writes \in Seq(Nat) /\ state \in States /\ "rest" \in Parts
  BY DEF StoreTypes, Parts
<1>3. /\ writes' \in Seq(Nat) /\ writes[1] \in Nat /\ Len(writes') = Len(writes) - 1
      /\ \A i \in 1..(Len(writes) - 1) : writes'[i] = writes[i + 1]
  BY <1>1, <1>2, FirstRemoved
<1>4. Len(writes) \in Nat \ {0} /\ DOMAIN writes = 1..Len(writes)
  BY <1>1, <1>2
<1>5. DOMAIN writes' = 1..(Len(writes) - 1)
  BY <1>3
<1>6. /\ tmp'.on /\ tmp' \in [of: States, on: BOOLEAN]
      /\ \A p \in Parts : tmp'.of[p] = IF p = "rest" THEN writes[1] ELSE state[p]
  BY <1>1, <1>2, <1>3 DEF States
<1>7. writes[1] = state["rest"] => tmp'.of = state
  BY <1>1, <1>2 DEF States
<1> QED
  BY <1>1, <1>3, <1>4, <1>5, <1>6, <1>7

(* Every step keeps the types.                                             *)
LEMMA ProcessTypesStep == ProcessTypes /\ StoreTypes /\ [Next]_vars => ProcessTypes'
<1> SUFFICES ASSUME ProcessTypes, StoreTypes, [Next]_vars PROVE ProcessTypes'
  OBVIOUS
<1> USE Bounds
    DEF ProcessTypes, StoreTypes, processVars, workVars, stopVars
<1>1. CASE UNCHANGED <<processVars, http, stopVars>>
  BY <1>1
<1>2. ASSUME NEW pruned \in BOOLEAN, Boot(pruned)
      PROVE  ProcessTypes'
  BY <1>2 DEF Boot
<1>3. CASE AppCreated
  BY <1>3 DEF AppCreated, Underway
<1>4. CASE RelayOpens
  BY <1>4 DEF RelayOpens
<1>5. CASE RelayListens
  BY <1>5 DEF RelayListens
<1>6. CASE StartQueue
  BY <1>6 DEF StartQueue, Inbox
<1>7. CASE StartTelegram
  BY <1>7 DEF StartTelegram
<1>8. CASE ProcessEnds
  BY <1>8 DEF ProcessEnds
<1>9. CASE Signal
  BY <1>9 DEF Signal, StopBegins
<1>10. CASE TimerFires
  BY <1>10 DEF TimerFires, StopBegins
<1>11. CASE RelayClosed
  BY <1>11 DEF RelayClosed
<1>12. CASE Flush
  <2>1. Underway \in Nat
    BY DEF Underway
  <2>2. ahead' \in Nat
    BY <1>12, <2>1 DEF Flush, Awaited
  <2> QED
    BY <1>12, <2>2 DEF Flush
<1>13. CASE StopLogged
  BY <1>13 DEF StopLogged
<1>14. CASE WriteEnds
  BY <1>14 DEF WriteEnds
<1>15. CASE WriteFails
  BY <1>15 DEF WriteFails
<1>16. ASSUME NEW ch \in Channels, NEW u \in Users, AskStop(ch, u)
      PROVE  ProcessTypes'
  BY <1>16 DEF AskStop, Answered, Reading
<1>17. ASSUME NEW ch \in Channels, NEW u \in Users, ConfirmStop(ch, u)
      PROVE  ProcessTypes'
  BY <1>17 DEF ConfirmStop, Answered, Reading
<1>18. CASE ConfirmationExpires
  BY <1>18 DEF ConfirmationExpires
<1> QED
  BY <1>1, <1>2, <1>3, <1>4, <1>5, <1>6, <1>7, <1>8, <1>9, <1>10, <1>11, <1>12, <1>13,
     <1>14, <1>15, <1>16, <1>17, <1>18
  DEF Next, StopStep, WriteStep, TelegramStep, QueueStep, HandlerStep, RunStep, Crash,
      Exit, RunsDry, vars, processVars, storeVars, tgVars, lqVars, workVars, stopVars,
      BacklogDiscarded, ChangeState, CommandDone, DiscardFails, EndRun, Enqueue,
      EnqueueEnds, GetUpdates, PollEnds, PollOnce, PollingEnds, RefuseCommand, StartRun,
      TakeCommand, TakeUpdate, UpdateDone, WriteBegins

(* The state and its file.                                                 *)
LEMMA StoreTypesStep ==
  StoreTypes /\ DownIsEmpty /\ [Next]_vars => StoreTypes'
<1> SUFFICES ASSUME StoreTypes, DownIsEmpty, [Next]_vars PROVE StoreTypes'
  OBVIOUS
<1>1. CASE UNCHANGED <<state, storeVars, due>>
  BY <1>1 DEF StoreTypes, storeVars
<1>2. ASSUME NEW pruned \in BOOLEAN, Boot(pruned)
      PROVE  StoreTypes'
  BY <1>2, BootIs DEF StoreTypes
<1>3. CASE ProcessEnds
  <2>1. /\ state' = file /\ due' = Empty /\ writes' = <<>> /\ tmp' = NoWrite
        /\ broken' = FALSE /\ UNCHANGED file
    BY <1>3 DEF ProcessEnds
  <2>2. <<>> \in Seq(Nat)
    OBVIOUS
  <2> QED
    BY <2>1, <2>2, NoChange DEF StoreTypes
<1>4. CASE Flush
  BY <1>4 DEF Flush, StoreTypes, storeVars
<1>5. CASE WriteBegins
  BY <1>5, WriteBeginsIs DEF StoreTypes
<1>6. CASE WriteEnds
  BY <1>6, NoChange DEF WriteEnds, StoreTypes, storeVars
<1>7. CASE WriteFails
  BY <1>7, NoChange DEF WriteFails, StoreTypes, storeVars, stopVars
<1>8. ASSUME Changes
      PROVE  StoreTypes'
  BY <1>8, ChangeIs DEF StoreTypes
<1> QED
  BY <1>1, <1>2, <1>3, <1>4, <1>5, <1>6, <1>7, <1>8
  DEF Next, StopStep, WriteStep, TelegramStep, QueueStep, HandlerStep, RunStep, Crash,
      Exit, RunsDry, vars, processVars, storeVars, tgVars, lqVars, workVars, stopVars,
      Changes, AppCreated, AskStop, BacklogDiscarded, CommandDone, ConfirmStop,
      ConfirmationExpires, DiscardFails, Enqueue, EnqueueEnds, GetUpdates, PollEnds,
      PollOnce, PollingEnds, RefuseCommand, RelayClosed, RelayListens, RelayOpens,
      Signal, StartQueue, StartTelegram, StopLogged, TakeCommand, TakeUpdate,
      TimerFires, UpdateDone
(* The updates and the adapter that polls for them.                        *)
LEMMA TelegramTypesStep == TelegramTypes /\ [Next]_vars => TelegramTypes'
<1> SUFFICES ASSUME TelegramTypes, [Next]_vars PROVE TelegramTypes'
  OBVIOUS
<1> USE Bounds DEF TelegramTypes, Updates, tgVars
<1>1. CASE UNCHANGED tgVars
  BY <1>1
<1>2. CASE StartTelegram
  BY <1>2 DEF StartTelegram
<1>3. CASE ProcessEnds
  BY <1>3 DEF ProcessEnds
<1>4. CASE Flush
  BY <1>4 DEF Flush, MayFlush, Awaited, Underway
<1>5. CASE BacklogDiscarded
  <2>1. PICK n \in 1..MaxUpdates \cup {0} :
          /\ sent' = n /\ backlog' = n
          /\ tg' = [tg EXCEPT !.at = "loop",
                              !.offset = IF n > confirmed THEN n + 1 ELSE 0]
          /\ confirmed' = IF n > confirmed THEN n - 1 ELSE confirmed
    BY <1>5 DEF BacklogDiscarded, Sent, AfterBacklog
  <2> DEFINE k == IF n > confirmed THEN n + 1 ELSE 0
  <2>2. k \in 0..(MaxUpdates + 1)
    BY <2>1
  <2>4. tg' = [tg EXCEPT !.at = "loop", !.offset = k]
    BY <2>1
  <2> HIDE DEF k
  <2>3. confirmed' \in 0..MaxUpdates /\ sent' \in 0..MaxUpdates /\ backlog' \in 0..MaxUpdates
    BY <2>1
  <2> QED
    BY <2>2, <2>3, <2>4
<1>6. CASE DiscardFails
  BY <1>6 DEF DiscardFails
<1>7. CASE GetUpdates
  <2> DEFINE first == IF tg.offset > confirmed THEN tg.offset - 1 ELSE confirmed
  <2>1. first \in 0..MaxUpdates
    OBVIOUS
  <2>2. PICK n \in 1..MaxUpdates :
          /\ sent' = n /\ confirmed' = first /\ UNCHANGED backlog
          /\ UNCHANGED tg \/ tg' = [tg EXCEPT !.batch = (first + 1)..n]
    BY <1>7 DEF GetUpdates, Sent
  <2>3. (first + 1)..n \subseteq 1..MaxUpdates
    BY SMTT(30), <2>1
  <2> HIDE DEF first
  <2> QED
    BY SMTT(30), <2>1, <2>2, <2>3
<1>8. CASE PollingEnds
  BY <1>8 DEF PollingEnds
<1>9. CASE TakeUpdate
  <2>1. PICK u \in tg.batch : tg' = [tg EXCEPT !.offset = u + 1, !.batch = @ \ {u}]
    BY <1>9 DEF TakeUpdate
  <2>2. u + 1 \in 0..(MaxUpdates + 1) /\ tg.batch \ {u} \in SUBSET Updates
    OBVIOUS
  <2> QED
    BY <1>9, <2>1, <2>2 DEF TakeUpdate
<1> QED
  BY <1>1, <1>2, <1>3, <1>4, <1>5, <1>6, <1>7, <1>8, <1>9
  DEF Next, StopStep, WriteStep, TelegramStep, QueueStep, HandlerStep, RunStep, Crash,
      Exit, RunsDry, vars, processVars, storeVars, tgVars, lqVars, workVars, stopVars,
      AppCreated, AskStop, Boot, ChangeState, CommandDone, ConfirmStop,
      ConfirmationExpires, EndRun, Enqueue, EnqueueEnds, PollEnds, PollOnce,
      RefuseCommand, RelayClosed, RelayListens, RelayOpens, Signal, StartQueue,
      StartRun, StopLogged, TakeCommand, TimerFires, UpdateDone, WriteBegins, WriteEnds,
      WriteFails

(* The files of the command queue.                                         *)
LEMMA QueueTypesStep == QueueTypes /\ [Next]_vars => QueueTypes'
<1> SUFFICES ASSUME QueueTypes, [Next]_vars PROVE QueueTypes'
  OBVIOUS
<1> USE Bounds DEF QueueTypes, Commands, lqVars
<1>1. CASE UNCHANGED lqVars
  BY <1>1
<1>2. CASE StartQueue
  BY <1>2 DEF StartQueue, Inbox
<1>3. CASE StartTelegram
  BY <1>3 DEF StartTelegram
<1>4. CASE ProcessEnds
  BY <1>4 DEF ProcessEnds
<1>5. CASE Signal
  BY <1>5 DEF Signal, StopBegins
<1>6. CASE TimerFires
  BY <1>6 DEF TimerFires, StopBegins
<1>7. CASE PollOnce
  BY <1>7 DEF PollOnce, MayPoll, Inbox
<1>8. CASE RefuseCommand
  BY SMTT(30), <1>8 DEF RefuseCommand, IsFirst
<1>9. CASE TakeCommand
  <2>1. PICK c \in Commands : lq' = [lq EXCEPT !.targets = @ \ {c}]
    BY <1>9 DEF TakeCommand
  <2> QED
    BY <1>9, <2>1 DEF TakeCommand
<1>10. CASE PollEnds
  BY <1>10 DEF PollEnds
<1>11. ASSUME NEW dir \in {"processed", "failed"}, CommandDone(dir)
      PROVE  QueueTypes'
  BY <1>11 DEF CommandDone
<1>12. ASSUME NEW c \in Commands, Enqueue(c)
      PROVE  QueueTypes'
  BY <1>12 DEF Enqueue
<1>13. ASSUME NEW c \in Commands, EnqueueEnds(c)
      PROVE  QueueTypes'
  BY <1>13 DEF EnqueueEnds
<1> QED
  BY <1>1, <1>2, <1>3, <1>4, <1>5, <1>6, <1>7, <1>8, <1>9, <1>10, <1>11, <1>12, <1>13
  DEF Next, StopStep, WriteStep, TelegramStep, QueueStep, HandlerStep, RunStep, Crash,
      Exit, RunsDry, vars, processVars, storeVars, tgVars, lqVars, workVars, stopVars,
      AppCreated, AskStop, BacklogDiscarded, Boot, ChangeState, ConfirmStop,
      ConfirmationExpires, DiscardFails, EndRun, Flush, GetUpdates, PollingEnds,
      RelayClosed, RelayListens, RelayOpens, StartRun, StopLogged, TakeUpdate,
      UpdateDone, WriteBegins, WriteEnds, WriteFails

(* The messages in hand, and the runs.                                     *)
LEMMA HandlerTypesStep ==
  HandlerTypes /\ TelegramTypes /\ QueueTypes /\ [Next]_vars => HandlerTypes'
<1> SUFFICES ASSUME HandlerTypes, TelegramTypes, QueueTypes, [Next]_vars PROVE HandlerTypes'
  OBVIOUS
<1> USE Bounds DEF HandlerTypes, TelegramTypes, QueueTypes, Updates, Commands, Channels, Nothing,
        workVars
<1>1. CASE UNCHANGED <<doing, run, begun>>
  BY <1>1
<1>2. CASE ProcessEnds
  BY <1>2 DEF ProcessEnds
<1>3. CASE TakeUpdate
  BY <1>3 DEF TakeUpdate, Begin
<1>4. CASE UpdateDone
  BY <1>4 DEF UpdateDone
<1>5. CASE TakeCommand
  BY <1>5 DEF TakeCommand, IsFirst, Begin
<1>6. ASSUME NEW dir \in {"processed", "failed"}, CommandDone(dir)
      PROVE  HandlerTypes'
  BY <1>6 DEF CommandDone
<1>7. ASSUME NEW c \in Chats, StartRun(c)
      PROVE  HandlerTypes'
  BY <1>7 DEF StartRun, Save
<1>8. ASSUME NEW c \in Chats, EndRun(c)
      PROVE  HandlerTypes'
  BY <1>8 DEF EndRun, Save
<1>9. ASSUME NEW ch \in Channels, NEW u \in Users, AskStop(ch, u)
      PROVE  HandlerTypes'
  BY <1>9 DEF AskStop, Answered, Reading
<1>10. ASSUME NEW ch \in Channels, NEW u \in Users, ConfirmStop(ch, u)
      PROVE  HandlerTypes'
  BY <1>10 DEF ConfirmStop, Answered, Reading
<1> QED
  BY <1>1, <1>2, <1>3, <1>4, <1>5, <1>6, <1>7, <1>8, <1>9, <1>10
  DEF Next, StopStep, WriteStep, TelegramStep, QueueStep, HandlerStep, RunStep, Crash,
      Exit, RunsDry, vars, processVars, storeVars, tgVars, lqVars, workVars, stopVars,
      AppCreated, BacklogDiscarded, Boot, ChangeState, ConfirmationExpires,
      DiscardFails, Enqueue, EnqueueEnds, Flush, GetUpdates, PollEnds, PollOnce,
      PollingEnds, RefuseCommand, RelayClosed, RelayListens, RelayOpens, Signal,
      StartQueue, StartTelegram, StopLogged, TimerFires, WriteBegins, WriteEnds,
      WriteFails

(* Only files outlive a process.                                           *)
LEMMA DownStep == DownIsEmpty /\ [Next]_vars => DownIsEmpty'
<1> SUFFICES ASSUME DownIsEmpty, [Next]_vars PROVE DownIsEmpty'
  OBVIOUS
<1> USE NoChange DEF DownIsEmpty, Up, processVars, storeVars, tgVars, lqVars, workVars, stopVars,
        Channels, Nothing
<1>1. ASSUME NEW pruned \in BOOLEAN, Boot(pruned)
      PROVE  DownIsEmpty'
  BY <1>1 DEF Boot
<1>2. CASE AppCreated
  BY <1>2 DEF AppCreated, Underway
<1>3. CASE RelayOpens
  BY <1>3 DEF RelayOpens
<1>4. CASE RelayListens
  BY <1>4 DEF RelayListens
<1>5. CASE StartQueue
  BY <1>5 DEF StartQueue, Inbox
<1>6. CASE StartTelegram
  BY <1>6 DEF StartTelegram
<1>7. CASE ProcessEnds
  BY <1>7 DEF ProcessEnds
<1>8. CASE Signal
  BY <1>8 DEF Signal, StopBegins
<1>9. CASE TimerFires
  BY <1>9 DEF TimerFires, StopBegins
<1>10. CASE RelayClosed
  BY <1>10 DEF RelayClosed
<1>11. CASE Flush
  BY <1>11 DEF Flush, MayFlush, Awaited, Underway
<1>12. CASE StopLogged
  BY <1>12 DEF StopLogged
<1>13. CASE WriteBegins
  BY <1>13 DEF WriteBegins, IsNext
<1>14. CASE WriteEnds
  BY <1>14 DEF WriteEnds
<1>15. CASE WriteFails
  BY <1>15 DEF WriteFails
<1>16. CASE BacklogDiscarded
  BY <1>16 DEF BacklogDiscarded, Sent, AfterBacklog
<1>17. CASE DiscardFails
  BY <1>17 DEF DiscardFails
<1>18. CASE GetUpdates
  BY <1>18 DEF GetUpdates, Sent
<1>19. CASE PollingEnds
  BY <1>19 DEF PollingEnds
<1>20. CASE TakeUpdate
  BY <1>20 DEF TakeUpdate, Begin
<1>21. CASE UpdateDone
  BY <1>21 DEF UpdateDone
<1>22. CASE PollOnce
  BY <1>22 DEF PollOnce, MayPoll, Inbox
<1>23. CASE RefuseCommand
  BY <1>23 DEF RefuseCommand, IsFirst
<1>24. CASE TakeCommand
  BY <1>24 DEF TakeCommand, IsFirst, Begin
<1>25. CASE PollEnds
  BY <1>25 DEF PollEnds
<1>26. ASSUME NEW dir \in {"processed", "failed"}, CommandDone(dir)
      PROVE  DownIsEmpty'
  BY <1>26 DEF CommandDone
<1>27. ASSUME NEW c \in Commands, Enqueue(c)
      PROVE  DownIsEmpty'
  BY <1>27 DEF Enqueue
<1>28. ASSUME NEW c \in Commands, EnqueueEnds(c)
      PROVE  DownIsEmpty'
  BY <1>28 DEF EnqueueEnds
<1>29. CASE ChangeState
  BY <1>29 DEF ChangeState, Save, Handled
<1>30. ASSUME NEW c \in Chats, StartRun(c)
      PROVE  DownIsEmpty'
  BY <1>30 DEF StartRun, Save, Handled
<1>31. ASSUME NEW c \in Chats, EndRun(c)
      PROVE  DownIsEmpty'
  BY <1>31 DEF EndRun, Save
<1>32. ASSUME NEW ch \in Channels, NEW u \in Users, AskStop(ch, u)
      PROVE  DownIsEmpty'
  BY <1>32 DEF AskStop, Answered, Reading
<1>33. ASSUME NEW ch \in Channels, NEW u \in Users, ConfirmStop(ch, u)
      PROVE  DownIsEmpty'
  BY <1>33 DEF ConfirmStop, Answered, Reading
<1>34. CASE ConfirmationExpires
  BY <1>34 DEF ConfirmationExpires
<1>35. CASE UNCHANGED vars
  BY <1>35 DEF vars
<1> QED
  BY <1>1, <1>2, <1>3, <1>4, <1>5, <1>6, <1>7, <1>8, <1>9, <1>10, <1>11, <1>12, <1>13,
     <1>14, <1>15, <1>16, <1>17, <1>18, <1>19, <1>20, <1>21, <1>22, <1>23, <1>24, <1>25,
     <1>26, <1>27, <1>28, <1>29, <1>30, <1>31, <1>32, <1>33, <1>34, <1>35
  DEF Next, StopStep, WriteStep, TelegramStep, QueueStep, HandlerStep, RunStep, Crash,
      Exit, RunsDry, vars, processVars, storeVars, tgVars, lqVars, workVars, stopVars

(* Runs and the active requests come and go together.                     *)
LEMMA RunsStep ==
  StoreTypes /\ DownIsEmpty /\ RunsAreActive /\ [Next]_vars => RunsAreActive'
<1> SUFFICES ASSUME StoreTypes, DownIsEmpty, RunsAreActive, [Next]_vars PROVE RunsAreActive'
  OBVIOUS
<1> USE DEF RunsAreActive, processVars, workVars
<1>1. CASE UNCHANGED <<state, run, phase>>
  BY <1>1 DEF Up, Active
<1>2. ASSUME NEW pruned \in BOOLEAN, Boot(pruned)
      PROVE  RunsAreActive'
  <2>1. (\A c \in Chats : ~Active(state', c)) /\ run' = {}
    BY <1>2, BootIs
  <2> QED
    BY <2>1 DEF Active
<1>3. CASE AppCreated
  BY <1>3 DEF AppCreated, Up, Active
<1>4. CASE StartQueue
  BY <1>4 DEF StartQueue, Up, Active
<1>5. CASE StartTelegram
  BY <1>5 DEF StartTelegram, Up, Active
<1>6. CASE ProcessEnds
  BY <1>6 DEF ProcessEnds, Up
<1>7. CASE ChangeState
  <2>1. \A c \in Chats : state'[c] = state[c]
    BY <1>7, Bounds DEF ChangeState, StoreTypes, States, Parts
  <2> QED
    BY <1>7, <2>1 DEF ChangeState, Up, Active
<1>8. ASSUME NEW c \in Chats, StartRun(c)
      PROVE  RunsAreActive'
  <2>1. UNCHANGED phase /\ run' = run \cup {c} /\ c \notin run
    BY <1>8 DEF StartRun
  <2>2. c \in Parts /\ state[c] \in Nat /\ state' = [state EXCEPT ![c] = @ + 1]
    BY <1>8 DEF StartRun, StoreTypes, States, Parts
  <2>3. state'[c] = state[c] + 1 /\ \A d \in Chats \ {c} : state'[d] = state[d]
    BY <2>2 DEF StoreTypes, States, Parts
  <2> QED
    BY <2>1, <2>2, <2>3, Parity DEF Up, Active
<1>9. ASSUME NEW c \in Chats, EndRun(c)
      PROVE  RunsAreActive'
  <2>1. UNCHANGED phase /\ run' = run \ {c} /\ c \in run
    BY <1>9 DEF EndRun
  <2>2. c \in Parts /\ state[c] \in Nat /\ state' = [state EXCEPT ![c] = @ + 1]
    BY <1>9 DEF EndRun, StoreTypes, States, Parts
  <2>3. state'[c] = state[c] + 1 /\ \A d \in Chats \ {c} : state'[d] = state[d]
    BY <2>2 DEF StoreTypes, States, Parts
  <2> QED
    BY <2>1, <2>2, <2>3, Parity DEF Up, Active
<1> QED
  BY <1>1, <1>2, <1>3, <1>4, <1>5, <1>6, <1>7, <1>8, <1>9
  DEF Next, StopStep, WriteStep, TelegramStep, QueueStep, HandlerStep, RunStep, Crash,
      Exit, RunsDry, vars, processVars, storeVars, tgVars, lqVars, workVars, stopVars,
      AskStop, BacklogDiscarded, CommandDone, ConfirmStop, ConfirmationExpires,
      DiscardFails, Enqueue, EnqueueEnds, Flush, GetUpdates, PollEnds, PollOnce,
      PollingEnds, RefuseCommand, RelayClosed, RelayListens, RelayOpens, Signal,
      StopLogged, TakeCommand, TakeUpdate, TimerFires, UpdateDone, WriteBegins,
      WriteEnds, WriteFails

(* The numbers of the changes are numbers.                                 *)
LEMMA Numbers ==
  ASSUME StoreTypes
  PROVE  /\ \A p \in Parts : state[p] \in Nat /\ file[p] \in Nat /\ due[p] \in Nat
                             /\ tmp.of[p] \in Nat
         /\ \A i \in DOMAIN writes : writes[i] \in Nat
         /\ Len(writes) \in Nat /\ DOMAIN writes = 1..Len(writes)
         /\ (Len(writes) = 0 <=> writes = <<>>) /\ tmp.on \in BOOLEAN
         /\ "rest" \in Parts
<1>1. "rest" \in Parts
  BY DEF Parts
<1>2. \A p \in Parts : state[p] \in Nat /\ file[p] \in Nat /\ due[p] \in Nat
  BY DEF StoreTypes, States
<1>3. tmp.on \in BOOLEAN /\ tmp.of \in States
  BY DEF StoreTypes
<1>4. \A p \in Parts : tmp.of[p] \in Nat
  BY <1>3 DEF States
<1>5. writes \in Seq(Nat)
  BY DEF StoreTypes
<1> QED
  BY <1>1, <1>2, <1>3, <1>4, <1>5

(* Writes stay in the order of the saves.                                  *)
LEMMA WritesStep ==
  StoreTypes /\ DownIsEmpty /\ WritesInOrder /\ [Next]_vars => WritesInOrder'
<1> SUFFICES ASSUME StoreTypes, DownIsEmpty, WritesInOrder, [Next]_vars PROVE WritesInOrder'
  OBVIOUS
<1>1. CASE UNCHANGED <<state, writes, tmp, file>>
  BY <1>1 DEF WritesInOrder
<1>2. ASSUME NEW pruned \in BOOLEAN, Boot(pruned)
      PROVE  WritesInOrder'
  BY <1>2, BootIs, Numbers DEF WritesInOrder
<1>3. CASE ProcessEnds
  <2>1. state' = file /\ file' = file /\ writes' = <<>> /\ tmp' = NoWrite
    BY <1>3 DEF ProcessEnds
  <2> QED
    BY <2>1, Numbers, NoChange DEF WritesInOrder
<1>4. CASE WriteBegins
  <2>1. /\ writes # <<>> /\ ~tmp.on /\ tmp'.on
        /\ \A p \in Parts : tmp'.of[p] = IF p = "rest" THEN writes[1] ELSE state[p]
        /\ Len(writes) \in Nat \ {0} /\ DOMAIN writes = 1..Len(writes)
        /\ Len(writes') = Len(writes) - 1 /\ DOMAIN writes' = 1..(Len(writes) - 1)
        /\ \A i \in 1..(Len(writes) - 1) : writes'[i] = writes[i + 1]
        /\ UNCHANGED <<phase, state, file, broken, stop, ahead, due>>
    BY <1>4, WriteBeginsIs
  <2>2. \A i \in DOMAIN writes' : i + 1 \in DOMAIN writes /\ writes'[i] = writes[i + 1]
    BY <2>1
  <2>3. 1 \in DOMAIN writes /\ tmp'.of["rest"] = writes[1]
    BY <2>1, Numbers
  <2>4. \A i, j \in DOMAIN writes' : i <= j => writes'[i] <= writes'[j]
    BY <2>1, <2>2 DEF WritesInOrder
  <2>5. \A i \in DOMAIN writes' : tmp'.of["rest"] <= writes'[i] /\ file["rest"] <= writes'[i]
                                  /\ writes'[i] <= state["rest"]
    BY <2>1, <2>2, <2>3 DEF WritesInOrder
  <2>6. \A p \in Parts : file[p] <= tmp'.of[p] /\ tmp'.of[p] <= state[p]
    BY SMTT(30), <2>1, <2>3, Numbers DEF WritesInOrder
  <2>7. UNCHANGED <<file, state>>
    BY <2>1
  <2> QED
    BY <2>4, <2>5, <2>6, <2>7 DEF WritesInOrder
<1>5. CASE WriteEnds
  <2>1. tmp.on /\ file' = tmp.of /\ tmp' = NoWrite /\ UNCHANGED <<writes, state>>
    BY <1>5 DEF WriteEnds
  <2> QED
    BY <2>1, NoChange DEF WritesInOrder
<1>6. CASE WriteFails
  <2>1. writes' = <<>> /\ tmp' = NoWrite /\ UNCHANGED <<file, state>>
    BY <1>6 DEF WriteFails
  <2> QED
    BY <2>1, NoChange DEF WritesInOrder
<1>7. ASSUME Changes
      PROVE  WritesInOrder'
  <2>1. /\ \A p \in Parts : state[p] <= state'[p] /\ state'[p] \in Nat
        /\ Up /\ UNCHANGED <<phase, tmp, file, broken, stop, ahead, due>>
        /\ \/ broken /\ writes' = writes
           \/ /\ ~broken /\ writes' # <<>>
              /\ Len(writes') = Len(writes) + 1 /\ DOMAIN writes' = 1..(Len(writes) + 1)
              /\ \A i \in 1..Len(writes) : writes'[i] = writes[i]
              /\ writes'[Len(writes) + 1] = state'["rest"]
    BY <1>7, ChangeIs DEF States
  <2>2. \A i \in DOMAIN writes' :
          \/ i \in DOMAIN writes /\ writes'[i] = writes[i]
          \/ i = Len(writes) + 1 /\ writes'[i] = state'["rest"]
    BY <2>1, Numbers
  <2>3. \A i \in DOMAIN writes' : file["rest"] <= writes'[i] /\ writes'[i] <= state'["rest"]
                                  /\ (tmp.on => tmp.of["rest"] <= writes'[i])
    BY <2>1, <2>2, Numbers DEF WritesInOrder
  <2>4. \A i, j \in DOMAIN writes' : i <= j => writes'[i] <= writes'[j]
    BY <2>1, <2>2, Numbers DEF WritesInOrder
  <2>5. \A p \in Parts : file[p] <= state'[p] /\ (tmp.on => tmp.of[p] <= state'[p])
    BY <2>1, Numbers DEF WritesInOrder
  <2> QED
    BY <2>1, <2>3, <2>4, <2>5 DEF WritesInOrder
<1> QED
  BY <1>1, <1>2, <1>3, <1>4, <1>5, <1>6, <1>7
  DEF Next, StopStep, WriteStep, TelegramStep, QueueStep, HandlerStep, RunStep, Crash,
      Exit, RunsDry, vars, processVars, storeVars, tgVars, lqVars, workVars, stopVars,
      Changes, AppCreated, AskStop, BacklogDiscarded, CommandDone, ConfirmStop,
      ConfirmationExpires, DiscardFails, Enqueue, EnqueueEnds, Flush, GetUpdates,
      PollEnds, PollOnce, PollingEnds, RefuseCommand, RelayClosed, RelayListens,
      RelayOpens, Signal, StartQueue, StartTelegram, StopLogged, TakeCommand,
      TakeUpdate, TimerFires, UpdateDone

(* Every change is followed by its save.                                   *)
LEMMA LastStep ==
  StoreTypes /\ DownIsEmpty /\ LastIsCurrent /\ [Next]_vars => LastIsCurrent'
<1> SUFFICES ASSUME StoreTypes, DownIsEmpty, LastIsCurrent, [Next]_vars PROVE LastIsCurrent'
  OBVIOUS
<1>1. CASE UNCHANGED <<state, storeVars, phase>>
  BY <1>1 DEF LastIsCurrent, Up, storeVars
<1>2. ASSUME NEW pruned \in BOOLEAN, Boot(pruned)
      PROVE  LastIsCurrent'
  BY <1>2, BootIs DEF LastIsCurrent
<1>3. CASE AppCreated
  BY <1>3 DEF AppCreated, LastIsCurrent, Up, storeVars
<1>4. CASE StartQueue
  BY <1>4 DEF StartQueue, LastIsCurrent, Up, storeVars
<1>5. CASE StartTelegram
  BY <1>5 DEF StartTelegram, LastIsCurrent, Up, storeVars
<1>6. CASE ProcessEnds
  BY <1>6 DEF ProcessEnds, LastIsCurrent, Up
<1>7. CASE WriteBegins
  <2>1. /\ writes # <<>> /\ ~tmp.on /\ tmp'.on
        /\ \A p \in Parts : tmp'.of[p] = IF p = "rest" THEN writes[1] ELSE state[p]
        /\ Len(writes) \in Nat \ {0} /\ DOMAIN writes = 1..Len(writes)
        /\ Len(writes') = Len(writes) - 1 /\ DOMAIN writes' = 1..(Len(writes) - 1)
        /\ \A i \in 1..(Len(writes) - 1) : writes'[i] = writes[i + 1]
        /\ writes[1] = state["rest"] => tmp'.of = state
        /\ UNCHANGED <<phase, state, file, broken, stop, ahead, due>>
    BY <1>7, WriteBeginsIs
  <2>2. CASE writes' = <<>>
    <3>0. Len(writes') = 0
      BY <2>2
    <3>1. Len(writes) = 1
      <4>1. Len(writes) \in Nat /\ Len(writes') = Len(writes) - 1
        BY <2>1
      <4> QED
        BY <3>0, <4>1
    <3>2. Up /\ ~broken => tmp'.of = state
      BY <2>1, <3>1 DEF LastIsCurrent
    <3> QED
      BY <2>1, <2>2, <3>2 DEF LastIsCurrent, Up
  <2>3. CASE writes' # <<>>
    <3>1. writes' \in Seq(Nat)
      BY <1>7, WriteBeginsIs
    <3>2. Len(writes') \in 1..(Len(writes) - 1)
      BY <2>1, <2>3, <3>1
    <3>3. writes'[Len(writes')] = writes[Len(writes)]
      BY <2>1, <3>2
    <3> QED
      BY <2>1, <2>3, <3>3 DEF LastIsCurrent, Up
  <2> QED
    BY <2>2, <2>3
<1>8. CASE WriteEnds
  <2>1. tmp.on /\ file' = tmp.of /\ tmp' = NoWrite /\ UNCHANGED <<phase, writes, state, broken>>
    BY <1>8 DEF WriteEnds, processVars
  <2> QED
    BY <2>1, NoChange DEF LastIsCurrent, Up
<1>9. CASE WriteFails
  BY <1>9 DEF WriteFails, LastIsCurrent
<1>10. ASSUME Changes
      PROVE  LastIsCurrent'
  <2>1. /\ Up
        /\ Up /\ UNCHANGED <<phase, tmp, file, broken, stop, ahead, due>>
        /\ \/ broken /\ writes' = writes
           \/ /\ ~broken /\ writes' # <<>>
              /\ Len(writes') = Len(writes) + 1 /\ DOMAIN writes' = 1..(Len(writes) + 1)
              /\ \A i \in 1..Len(writes) : writes'[i] = writes[i]
              /\ writes'[Len(writes) + 1] = state'["rest"]
    BY <1>10, ChangeIs
  <2> QED
    BY <2>1 DEF LastIsCurrent, Up
<1> QED
  BY <1>1, <1>2, <1>3, <1>4, <1>5, <1>6, <1>7, <1>8, <1>9, <1>10
  DEF Next, StopStep, WriteStep, TelegramStep, QueueStep, HandlerStep, RunStep, Crash,
      Exit, RunsDry, vars, processVars, storeVars, tgVars, lqVars, workVars, stopVars,
      Changes, AskStop, BacklogDiscarded, CommandDone, ConfirmStop, ConfirmationExpires,
      DiscardFails, Enqueue, EnqueueEnds, Flush, GetUpdates, PollEnds, PollOnce,
      PollingEnds, RefuseCommand, RelayClosed, RelayListens, RelayOpens, Signal,
      StopLogged, TakeCommand, TakeUpdate, TimerFires, UpdateDone
(* What is due of the parts stays in what only moves forward.              *)
LEMMA DueStays ==
  ASSUME StoreTypes, NEW s \in States, NEW t \in States, DueIn(s),
         \A p \in Parts : s[p] <= t[p]
  PROVE  DueIn(t)
<1>1. \A p \in Parts : s[p] \in Nat /\ t[p] \in Nat /\ due[p] \in Nat
  BY DEF StoreTypes, States
<1> QED
  BY <1>1 DEF DueIn

(* How many writes there are.                                              *)
LEMMA UnderwayIs ==
  ASSUME StoreTypes
  PROVE  /\ Underway \in Nat
         /\ tmp.on => Underway = Len(writes) + 1
         /\ ~tmp.on => Underway = Len(writes)
<1>1. Len(writes) \in Nat
  BY Numbers
<1>2. CASE tmp.on
  BY <1>1, <1>2 DEF Underway
<1>3. CASE ~tmp.on
  <2>1. Underway = Len(writes) + 0
    BY <1>3 DEF Underway
  <2> HIDE DEF Underway
  <2>2. Underway = Len(writes)
    BY <1>1, <2>1
  <2> QED
    BY <1>1, <1>3, <2>2
<1> QED
  BY <1>2, <1>3

(* flush() is over when what it waits for is written.                      *)
LEMMA FlushStep ==
  StoreTypes /\ StoreTypes' /\ ProcessTypes /\ DownIsEmpty /\ WritesInOrder
    /\ LastIsCurrent /\ FlushAwaits /\ [Next]_vars => FlushAwaits'
<1> SUFFICES ASSUME StoreTypes, StoreTypes', ProcessTypes, DownIsEmpty, WritesInOrder,
                    LastIsCurrent, FlushAwaits, [Next]_vars
             PROVE  FlushAwaits'
  OBVIOUS
<1> /\ state \in States /\ file \in States /\ state' \in States /\ file' \in States
    /\ tmp.of \in States /\ ahead \in Nat
  BY DEF StoreTypes, ProcessTypes
<1>1. CASE UNCHANGED <<state, writes, tmp, file, stop, ahead, due>>
  BY <1>1 DEF FlushAwaits, DueIn, Underway
<1>2. ASSUME NEW pruned \in BOOLEAN, Boot(pruned)
      PROVE  FlushAwaits'
  BY <1>2, BootIs DEF FlushAwaits
<1>3. CASE ProcessEnds
  BY <1>3 DEF ProcessEnds, FlushAwaits
<1>4. CASE Signal
  BY <1>4 DEF Signal, StopBegins, FlushAwaits, DueIn, Underway, storeVars
<1>5. CASE TimerFires
  BY <1>5 DEF TimerFires, StopBegins, FlushAwaits, DueIn, Underway, storeVars
<1>6. CASE RelayClosed
  BY <1>6 DEF RelayClosed, FlushAwaits
<1>7. CASE Flush
  <2>1. /\ stop' = IF broken THEN "failed" ELSE "flushing"
        /\ ahead' = Underway /\ due' = state /\ UNCHANGED <<state, writes, tmp, file, broken>>
    BY <1>7 DEF Flush, Awaited, storeVars
  <2>2. Up
    BY <1>7 DEF Flush, MayFlush, DownIsEmpty
  <2>3. Underway' = Underway
    BY <2>1 DEF Underway
  <2>4. \A p \in Parts : state[p] <= state[p]
    BY Numbers
  <2>5. CASE broken
    BY <2>1, <2>5 DEF FlushAwaits
  <2>6. CASE ~broken /\ writes # <<>>
    <3>1. writes[Len(writes)] = state["rest"]
      BY <2>2, <2>6 DEF LastIsCurrent
    <3>2. Len(writes) \in Nat \ {0} /\ due'["rest"] <= writes[Len(writes)]
      BY <2>1, <2>4, <2>6, <3>1, Numbers
    <3>3. CASE tmp.on
      <4>1. ahead' > 1 /\ ahead' - 1 = Len(writes) /\ ahead' <= Underway'
        BY <2>1, <2>3, <3>2, <3>3, UnderwayIs
      <4> QED
        BY <2>1, <2>4, <2>6, <3>2, <3>3, <4>1 DEF FlushAwaits, DueIn
    <3>4. CASE ~tmp.on
      <4>1. ahead' > 0 /\ ahead' = Len(writes) /\ ahead' <= Underway'
        BY <2>1, <2>3, <3>2, <3>4, UnderwayIs
      <4> QED
        BY <2>1, <2>4, <2>6, <3>2, <3>4, <4>1 DEF FlushAwaits, DueIn
    <3> QED
      BY <3>3, <3>4
  <2>7. CASE ~broken /\ writes = <<>>
    <3>1. Len(writes) = 0
      BY <2>7
    <3>2. CASE tmp.on
      <4>1. ahead' = 1 /\ ahead' <= Underway'
        BY <2>1, <2>3, <3>1, <3>2, UnderwayIs
      <4>2. tmp.of = state
        BY <2>2, <2>7, <3>2 DEF LastIsCurrent
      <4> QED
        BY <2>1, <2>4, <2>7, <3>2, <4>1, <4>2 DEF FlushAwaits, DueIn
    <3>3. CASE ~tmp.on
      <4>1. ahead' = 0 /\ ahead' <= Underway'
        BY <2>1, <2>3, <3>1, <3>3, UnderwayIs
      <4>2. file = state
        BY <2>2, <2>7, <3>3 DEF LastIsCurrent
      <4> QED
        BY <2>1, <2>4, <2>7, <3>3, <4>1, <4>2 DEF FlushAwaits, DueIn
    <3> QED
      BY <3>2, <3>3
  <2> QED
    BY <2>5, <2>6, <2>7
<1>8. CASE StopLogged
  BY <1>8 DEF StopLogged, FlushAwaits, DueIn, Underway, storeVars
<1>9. CASE WriteBegins
  <2>1. /\ writes # <<>> /\ ~tmp.on /\ tmp'.on
        /\ \A p \in Parts : tmp'.of[p] = IF p = "rest" THEN writes[1] ELSE state[p]
        /\ Len(writes) \in Nat \ {0} /\ DOMAIN writes = 1..Len(writes)
        /\ Len(writes') = Len(writes) - 1 /\ DOMAIN writes' = 1..(Len(writes) - 1)
        /\ \A i \in 1..(Len(writes) - 1) : writes'[i] = writes[i + 1]
        /\ UNCHANGED <<phase, state, file, broken, stop, ahead, due>>
    BY <1>9, WriteBeginsIs
  <2>2. Underway' = Underway
    <3>1. Len(writes) \in Nat /\ Len(writes') \in Nat
      BY <2>1
    <3> QED
      BY <2>1, <3>1 DEF Underway
  <2>3. CASE stop = "flushing"
    <3>1. ahead = 1 => \A p \in Parts : due[p] <= tmp'.of[p]
      BY <2>1, <2>3, Numbers DEF FlushAwaits, DueIn
    <3>2. ahead > 1 => due["rest"] <= writes'[ahead - 1]
      <4>1. ahead > 1 => ahead - 1 \in 1..(Len(writes) - 1)
        BY <2>1, <2>3, UnderwayIs DEF FlushAwaits
      <4>2. ahead > 1 => writes'[ahead - 1] = writes[(ahead - 1) + 1]
        BY <2>1, <4>1
      <4>3. (ahead - 1) + 1 = ahead
        OBVIOUS
      <4> QED
        BY <2>1, <2>3, <4>2, <4>3 DEF FlushAwaits
    <3> QED
      BY <2>1, <2>2, <2>3, <3>1, <3>2 DEF FlushAwaits, DueIn
  <2>4. CASE stop # "flushing"
    BY <2>1, <2>4 DEF FlushAwaits, DueIn
  <2> QED
    BY <2>3, <2>4
<1>10. CASE WriteEnds
  <2>1. /\ tmp.on /\ file' = tmp.of /\ ~tmp'.on /\ UNCHANGED <<writes, state, stop, due>>
        /\ ahead' = IF ahead = 0 THEN 0 ELSE ahead - 1
    BY <1>10, NoChange DEF WriteEnds
  <2>2. DueIn(file) => DueIn(file')
    BY <2>1, DueStays DEF WritesInOrder
  <2>3. DueIn(file') <=> DueIn(tmp.of)
    BY <2>1
  <2>4. DueIn(state)' <=> DueIn(state)
    BY <2>1 DEF DueIn
  <2>5. DueIn(file)' <=> DueIn(file')
    BY <2>1 DEF DueIn
  <2>6. CASE stop = "flushing"
    <3>1. Underway = Len(writes) + 1 /\ Underway' = Len(writes) /\ Len(writes) \in Nat
      <4>1. Underway' = Len(writes) + 0
        BY <2>1 DEF Underway
      <4> HIDE DEF Underway
      <4> QED
        BY <2>1, <4>1, UnderwayIs, Numbers
    <3>2. CASE ahead = 0
      BY <2>1, <2>2, <2>4, <2>5, <2>6, <3>1, <3>2 DEF FlushAwaits
    <3>3. CASE ahead = 1
      BY <2>1, <2>3, <2>4, <2>5, <2>6, <3>1, <3>3 DEF FlushAwaits
    <3>4. CASE ahead > 1
      <4>1. ahead' = ahead - 1 /\ ahead' > 0 /\ ahead' <= Underway'
        BY <2>1, <2>6, <3>1, <3>4 DEF FlushAwaits
      <4>2. due["rest"] <= writes[ahead - 1]
        BY <2>1, <2>6, <3>4 DEF FlushAwaits
      <4>3. DueIn(state)
        BY <2>6 DEF FlushAwaits
      <4> QED
        BY <2>1, <2>4, <2>6, <4>1, <4>2, <4>3 DEF FlushAwaits
    <3> QED
      BY <3>2, <3>3, <3>4
  <2>7. CASE stop # "flushing"
    BY <2>1, <2>2, <2>4, <2>5, <2>7 DEF FlushAwaits
  <2> QED
    BY <2>6, <2>7
<1>11. CASE WriteFails
  <2>1. /\ tmp.on /\ writes' = <<>> /\ tmp' = NoWrite /\ UNCHANGED <<state, file, due, ahead>>
        /\ stop' = IF ahead > 0 THEN "failed" ELSE stop
    BY <1>11 DEF WriteFails
  <2>2. Underway' = 0
    BY <2>1, NoChange DEF Underway
  <2> QED
    BY <2>1, <2>2, NoChange DEF FlushAwaits, DueIn
<1>12. ASSUME Changes
      PROVE  FlushAwaits'
  <2>1. /\ \A p \in Parts : state[p] <= state'[p]
        /\ Up /\ UNCHANGED <<phase, tmp, file, broken, stop, ahead, due>>
        /\ \/ broken /\ writes' = writes
           \/ /\ ~broken /\ writes' # <<>>
              /\ Len(writes') = Len(writes) + 1 /\ DOMAIN writes' = 1..(Len(writes) + 1)
              /\ \A i \in 1..Len(writes) : writes'[i] = writes[i]
              /\ writes'[Len(writes) + 1] = state'["rest"]
    BY <1>12, ChangeIs
  <2>2. DueIn(state) => DueIn(state')
    BY <2>1, DueStays
  <2>3. /\ DueIn(state)' <=> DueIn(state')
        /\ DueIn(file)' <=> DueIn(file)
        /\ DueIn(tmp.of)' <=> DueIn(tmp.of)
    BY <2>1 DEF DueIn
  <2>4. Len(writes) <= Len(writes') /\ \A i \in DOMAIN writes : writes'[i] = writes[i]
    BY <2>1, Numbers
  <2>5. CASE stop = "flushing"
    <3>1. Underway \in Nat /\ Underway' \in Nat /\ Underway <= Underway'
      <4>1. Len(writes') \in Nat
        BY <2>1, Numbers
      <4> QED
        BY <2>1, <2>4, <4>1, Numbers DEF Underway
    <3>2. ahead <= Underway'
      BY <2>5, <3>1 DEF FlushAwaits
    <3>3. /\ tmp.on /\ ahead > 1 => ahead - 1 \in DOMAIN writes
          /\ ~tmp.on /\ ahead > 0 => ahead \in DOMAIN writes
      BY <2>5, Numbers, UnderwayIs DEF FlushAwaits
    <3>4. /\ tmp.on /\ ahead > 1 => writes'[ahead - 1] = writes[ahead - 1]
          /\ ~tmp.on /\ ahead > 0 => writes'[ahead] = writes[ahead]
      BY <2>4, <3>3
    <3> QED
      BY <2>1, <2>2, <2>3, <2>5, <3>2, <3>4 DEF FlushAwaits
  <2>6. CASE stop # "flushing"
    BY <2>1, <2>2, <2>3, <2>6 DEF FlushAwaits
  <2> QED
    BY <2>5, <2>6
<1>13. ASSUME NEW ch \in Channels, NEW u \in Users, ConfirmStop(ch, u)
      PROVE  FlushAwaits'
  BY <1>13 DEF ConfirmStop, FlushAwaits, DueIn, Underway, storeVars
<1> QED
  BY <1>1, <1>2, <1>3, <1>4, <1>5, <1>6, <1>7, <1>8, <1>9, <1>10, <1>11, <1>12, <1>13
  DEF Next, StopStep, WriteStep, TelegramStep, QueueStep, HandlerStep, RunStep, Crash,
      Exit, RunsDry, vars, processVars, storeVars, tgVars, lqVars, workVars, stopVars,
      Changes, AppCreated, AskStop, BacklogDiscarded, CommandDone, ConfirmationExpires,
      DiscardFails, Enqueue, EnqueueEnds, GetUpdates, PollEnds, PollOnce, PollingEnds,
      RefuseCommand, RelayListens, RelayOpens, StartQueue, StartTelegram, TakeCommand,
      TakeUpdate, UpdateDone
(* An update is begun once, and none of the backlog.                       *)
LEMMA UpdatesStep ==
  TelegramTypes /\ HandlerTypes /\ DownIsEmpty /\ UpdatesOnce /\ [Next]_vars => UpdatesOnce'
<1> SUFFICES ASSUME TelegramTypes, HandlerTypes, DownIsEmpty, UpdatesOnce, [Next]_vars
             PROVE  UpdatesOnce'
  OBVIOUS
<1> USE Bounds DEF TelegramTypes, HandlerTypes, DownIsEmpty, UpdatesOnce, Up, Channels, Updates,
        processVars, tgVars, workVars
<1>1. CASE UNCHANGED <<begun, tg, backlog, confirmed, phase>>
  BY <1>1
<1>2. ASSUME NEW pruned \in BOOLEAN, Boot(pruned)
      PROVE  UpdatesOnce'
  BY <1>2 DEF Boot
<1>3. CASE AppCreated
  BY <1>3 DEF AppCreated, Underway
<1>4. CASE StartQueue
  BY <1>4 DEF StartQueue, Inbox
<1>5. CASE StartTelegram
  BY <1>5 DEF StartTelegram
<1>6. CASE ProcessEnds
  BY <1>6 DEF ProcessEnds
<1>7. CASE Flush
  BY <1>7 DEF Flush, MayFlush, Awaited, Underway
<1>8. CASE BacklogDiscarded
  BY <1>8 DEF BacklogDiscarded, Sent, AfterBacklog
<1>9. CASE DiscardFails
  BY <1>9 DEF DiscardFails
<1>10. CASE GetUpdates
  <2> DEFINE first == IF tg.offset > confirmed THEN tg.offset - 1 ELSE confirmed
  <2>1. /\ first \in Nat /\ confirmed <= first /\ tg.offset <= first + 1
        /\ backlog <= first \/ backlog < tg.offset
    OBVIOUS
  <2>2. /\ tg.at = "loop" /\ confirmed' = first /\ UNCHANGED <<phase, begun, backlog>>
        /\ UNCHANGED tg \/ \E n \in Updates : tg' = [tg EXCEPT !.batch = (first + 1)..n]
    BY <1>10 DEF GetUpdates
  <2> HIDE DEF first
  <2>3. tg'.at = "loop" /\ tg'.offset = tg.offset
    BY <2>2
  <2>4. \A u \in tg'.batch : u \in tg.batch \/ (u \in Int /\ first + 1 <= u)
    BY SMTT(30), <2>1, <2>2
  <2>5. \A u \in tg'.batch : tg.offset <= u /\ backlog < u
    <3>1. tg.offset \in Nat /\ backlog \in Nat
      OBVIOUS
    <3>2. ASSUME NEW u \in Int, first + 1 <= u PROVE tg.offset <= u /\ backlog < u
      BY ONLY <2>1, <3>1, <3>2
    <3>3. \A u \in tg.batch : tg.offset <= u /\ backlog < u
      OBVIOUS
    <3> QED
      BY ONLY <2>4, <3>2, <3>3
  <2> QED
    BY <2>1, <2>2, <2>3, <2>5
<1>11. CASE PollingEnds
  BY <1>11 DEF PollingEnds
<1>12. CASE TakeUpdate
  <2>1. PICK u \in tg.batch :
          /\ \A v \in tg.batch : u <= v
          /\ begun' = begun \cup {<<"telegram", u>>}
          /\ tg' = [tg EXCEPT !.offset = u + 1, !.batch = @ \ {u}]
    BY <1>12 DEF TakeUpdate, Begin
  <2>2. /\ u \in Int /\ tg.offset <= u /\ backlog < u
        /\ tg.at = tg'.at /\ tg'.offset = u + 1 /\ tg'.batch = tg.batch \ {u}
        /\ UNCHANGED <<phase, confirmed, backlog>>
    BY <1>12, <2>1 DEF TakeUpdate
  <2>3. \A m \in begun' : m[1] = "telegram" => m[2] < tg'.offset /\ backlog < m[2]
    <3>1. ASSUME NEW m \in begun, m[1] = "telegram"
          PROVE  m[2] < u + 1 /\ backlog < m[2]
      <4>1. m[2] \in Nat /\ m[2] < tg.offset /\ backlog < m[2] /\ tg.offset \in Nat
        BY <3>1
      <4> QED
        BY ONLY <2>2, <4>1
    <3>2. backlog < u /\ u < u + 1
      BY <2>2
    <3> QED
      BY ONLY <2>1, <2>2, <3>1, <3>2
  <2>4. \A v \in tg'.batch : tg'.offset <= v /\ backlog < v
    <3>1. ASSUME NEW v \in tg.batch \ {u} PROVE v \in Int /\ u <= v /\ u # v /\ backlog < v
      BY <2>1, <3>1
    <3>2. ASSUME NEW v \in tg.batch \ {u} PROVE u + 1 <= v
      BY ONLY <2>2, <3>1
    <3> QED
      BY ONLY <2>2, <3>1, <3>2
  <2> QED
    BY <2>1, <2>2, <2>3, <2>4
<1>13. CASE TakeCommand
  BY <1>13 DEF TakeCommand, IsFirst, Begin
<1> QED
  BY <1>1, <1>2, <1>3, <1>4, <1>5, <1>6, <1>7, <1>8, <1>9, <1>10, <1>11, <1>12, <1>13
  DEF Next, StopStep, WriteStep, TelegramStep, QueueStep, HandlerStep, RunStep, Crash,
      Exit, RunsDry, vars, processVars, storeVars, tgVars, lqVars, workVars, stopVars,
      AskStop, ChangeState, CommandDone, ConfirmStop, ConfirmationExpires, EndRun,
      Enqueue, EnqueueEnds, PollEnds, PollOnce, RefuseCommand, RelayClosed,
      RelayListens, RelayOpens, Signal, StartRun, StopLogged, TimerFires, UpdateDone,
      WriteBegins, WriteEnds, WriteFails

(* A local command is begun once.                                          *)
LEMMA CommandsStep ==
  QueueTypes /\ HandlerTypes /\ DownIsEmpty /\ CommandsOnce /\ [Next]_vars => CommandsOnce'
<1> SUFFICES ASSUME QueueTypes, HandlerTypes, DownIsEmpty, CommandsOnce, [Next]_vars
             PROVE  CommandsOnce'
  OBVIOUS
<1> USE DEF QueueTypes, HandlerTypes, DownIsEmpty, CommandsOnce, Up, Channels, Commands, Nothing,
        processVars, lqVars, workVars
<1>1. CASE UNCHANGED <<lq, place, doing, begun, phase>>
  BY <1>1
<1>2. ASSUME NEW pruned \in BOOLEAN, Boot(pruned)
      PROVE  CommandsOnce'
  BY <1>2 DEF Boot
<1>3. CASE AppCreated
  BY <1>3 DEF AppCreated, Underway
<1>4. CASE StartQueue
  BY <1>4 DEF StartQueue, Inbox
<1>5. CASE StartTelegram
  BY <1>5 DEF StartTelegram
<1>6. CASE ProcessEnds
  BY <1>6 DEF ProcessEnds
<1>7. CASE Signal
  <2>1. /\ UNCHANGED <<phase, place, doing, begun>>
        /\ UNCHANGED lq \/ lq' = [lq EXCEPT !.running = FALSE, !.timer = FALSE]
    BY <1>7 DEF Signal, StopBegins
  <2>2. lq'.polling = lq.polling /\ lq'.targets = lq.targets /\ (lq'.timer => lq.timer)
    BY <2>1
  <2> QED
    BY <2>1, <2>2
<1>8. CASE TimerFires
  BY <1>8 DEF TimerFires, StopBegins
<1>9. CASE PollOnce
  BY <1>9 DEF PollOnce, MayPoll, Inbox
<1>10. CASE RefuseCommand
  BY <1>10 DEF RefuseCommand, IsFirst
<1>11. CASE TakeCommand
  BY <1>11 DEF TakeCommand, IsFirst, Begin
<1>12. CASE PollEnds
  BY <1>12 DEF PollEnds
<1>13. ASSUME NEW dir \in {"processed", "failed"}, CommandDone(dir)
      PROVE  CommandsOnce'
  BY <1>13 DEF CommandDone
<1>14. ASSUME NEW c \in Commands, Enqueue(c)
      PROVE  CommandsOnce'
  BY <1>14 DEF Enqueue
<1>15. ASSUME NEW c \in Commands, EnqueueEnds(c)
      PROVE  CommandsOnce'
  BY <1>15 DEF EnqueueEnds
<1>16. CASE TakeUpdate
  BY <1>16 DEF TakeUpdate, Begin
<1>17. CASE UpdateDone
  BY <1>17 DEF UpdateDone
<1>18. ASSUME NEW ch \in Channels, NEW u \in Users, AskStop(ch, u)
      PROVE  CommandsOnce'
  BY <1>18 DEF AskStop, Answered, Reading
<1>19. ASSUME NEW ch \in Channels, NEW u \in Users, ConfirmStop(ch, u)
      PROVE  CommandsOnce'
  BY <1>19 DEF ConfirmStop, Answered, Reading
<1> QED
  BY <1>1, <1>2, <1>3, <1>4, <1>5, <1>6, <1>7, <1>8, <1>9, <1>10, <1>11, <1>12, <1>13,
     <1>14, <1>15, <1>16, <1>17, <1>18, <1>19
  DEF Next, StopStep, WriteStep, TelegramStep, QueueStep, HandlerStep, RunStep, Crash,
      Exit, RunsDry, vars, processVars, storeVars, tgVars, lqVars, workVars, stopVars,
      BacklogDiscarded, ChangeState, ConfirmationExpires, DiscardFails, EndRun, Flush,
      GetUpdates, PollingEnds, RelayClosed, RelayListens, RelayOpens, StartRun,
      StopLogged, WriteBegins, WriteEnds, WriteFails

(* A handler that begins has a message this life did not begin before.     *)
LEMMA BeginsStep ==
  TelegramTypes /\ HandlerTypes /\ UpdatesOnce /\ CommandsOnce /\ [Next]_vars => BeginsOnce
<1> SUFFICES ASSUME TelegramTypes, HandlerTypes, UpdatesOnce, CommandsOnce, [Next]_vars
             PROVE  BeginsOnce
  OBVIOUS
<1> USE DEF HandlerTypes, BeginsOnce, Channels, Nothing, workVars
<1>1. CASE UNCHANGED doing
  BY <1>1
<1>2. CASE ProcessEnds
  BY <1>2 DEF ProcessEnds
<1>3. CASE TakeUpdate
  <2>1. PICK u \in tg.batch : Begin("telegram", u)
    BY <1>3 DEF TakeUpdate
  <2>2. u \in Int /\ tg.offset \in Int /\ tg.offset <= u
    BY Bounds DEF TelegramTypes, Updates, UpdatesOnce
  <2>3. <<"telegram", u>> \notin begun
    <3> SUFFICES ASSUME <<"telegram", u>> \in begun PROVE FALSE
      OBVIOUS
    <3> DEFINE m == <<"telegram", u>>
    <3>1. m[2] < tg.offset
      BY DEF UpdatesOnce
    <3> QED
      BY <2>2, <3>1
  <2>4. doing'["telegram"].id = u /\ doing'["local"] = doing["local"]
    BY <2>1 DEF Begin
  <2> QED
    BY <2>3, <2>4
<1>4. CASE UpdateDone
  BY <1>4 DEF UpdateDone
<1>5. CASE TakeCommand
  <2>1. PICK c \in lq.targets : place[c] # "partial" /\ Begin("local", c)
    BY <1>5 DEF TakeCommand, IsFirst
  <2>2. place[c] = "inbox" /\ <<"local", c>> \notin begun
    BY <2>1 DEF CommandsOnce
  <2>3. doing'["local"].id = c /\ doing'["telegram"] = doing["telegram"]
    BY <2>1 DEF Begin
  <2> QED
    BY <2>2, <2>3
<1>6. ASSUME NEW dir \in {"processed", "failed"}, CommandDone(dir)
      PROVE  BeginsOnce
  BY <1>6 DEF CommandDone
<1>7. ASSUME NEW ch \in Channels, NEW u \in Users, AskStop(ch, u)
      PROVE  BeginsOnce
  BY <1>7 DEF AskStop, Answered, Reading
<1>8. ASSUME NEW ch \in Channels, NEW u \in Users, ConfirmStop(ch, u)
      PROVE  BeginsOnce
  BY <1>8 DEF ConfirmStop, Answered, Reading
<1> QED
  BY <1>1, <1>2, <1>3, <1>4, <1>5, <1>6, <1>7, <1>8
  DEF Next, StopStep, WriteStep, TelegramStep, QueueStep, HandlerStep, RunStep, Crash,
      Exit, RunsDry, vars, processVars, storeVars, tgVars, lqVars, workVars, stopVars,
      AppCreated, BacklogDiscarded, Boot, ChangeState, ConfirmationExpires,
      DiscardFails, EndRun, Enqueue, EnqueueEnds, Flush, GetUpdates, PollEnds, PollOnce,
      PollingEnds, RefuseCommand, RelayClosed, RelayListens, RelayOpens, Signal,
      StartQueue, StartRun, StartTelegram, StopLogged, TimerFires, WriteBegins,
      WriteEnds, WriteFails

(* A step is one of the durable state, or leaves it unchanged.             *)
LEMMA DurableStep ==
  StoreTypes /\ StoreTypes' /\ DownIsEmpty /\ WritesInOrder /\ [Next]_vars
    => [Durable!Next]_(Durable!vars)
<1> SUFFICES ASSUME StoreTypes, StoreTypes', DownIsEmpty, WritesInOrder, [Next]_vars
             PROVE  [Durable!Next]_(Durable!vars)
  OBVIOUS
<1> /\ file \in [Parts -> Nat] /\ state \in [Parts -> Nat]
    /\ file' \in [Parts -> Nat] /\ state' \in [Parts -> Nat]
  BY DEF StoreTypes, States
<1>1. CASE UNCHANGED <<state, file, phase>>
  BY <1>1 DEF Up, Durable!vars
<1>2. ASSUME NEW pruned \in BOOLEAN, Boot(pruned)
      PROVE  [Durable!Next]_(Durable!vars)
  <2>1. /\ \A p \in Parts : file[p] <= state'[p] /\ state'[p] <= file[p] + 1
        /\ ~Up /\ Up' /\ UNCHANGED file
    BY <1>2, BootIs
  <2> QED
    BY <2>1 DEF Durable!Next, Durable!Load, Durable!Behind
<1>3. CASE AppCreated
  BY <1>3 DEF AppCreated, Up, Durable!vars, storeVars
<1>4. CASE StartQueue
  BY <1>4 DEF StartQueue, Up, Durable!vars, storeVars
<1>5. CASE StartTelegram
  BY <1>5 DEF StartTelegram, Up, Durable!vars, storeVars
<1>6. CASE ProcessEnds
  <2>1. state' = file /\ file' = file /\ ~Up'
    BY <1>6 DEF ProcessEnds, Up
  <2>2. CASE Up
    BY <2>1, <2>2 DEF Durable!Next, Durable!End
  <2>3. CASE ~Up
    BY <2>1, <2>3 DEF DownIsEmpty, Up, Durable!vars
  <2> QED
    BY <2>2, <2>3
<1>7. CASE WriteEnds
  <2>1. tmp.on /\ file' = tmp.of /\ UNCHANGED <<state, phase>>
    BY <1>7 DEF WriteEnds, processVars
  <2>2. Up /\ Up' = Up
    BY <2>1, NoChange DEF DownIsEmpty, Up
  <2>3. Durable!Behind(file, file') /\ Durable!Behind(file', state)
    BY <2>1 DEF WritesInOrder, Durable!Behind
  <2> QED
    BY <2>1, <2>2, <2>3 DEF Durable!Next, Durable!Write
<1>8. ASSUME Changes
      PROVE  [Durable!Next]_(Durable!vars)
  <2>1. /\ Up /\ UNCHANGED <<phase, file>>
        /\ \A p \in Parts : state[p] <= state'[p]
    BY <1>8, ChangeIs
  <2>2. Up' = Up /\ Durable!Behind(state, state')
    BY <2>1 DEF Up, Durable!Behind
  <2> QED
    BY <2>1, <2>2 DEF Durable!Next, Durable!Change
<1> QED
  BY <1>1, <1>2, <1>3, <1>4, <1>5, <1>6, <1>7, <1>8
  DEF Next, StopStep, WriteStep, TelegramStep, QueueStep, HandlerStep, RunStep, Crash,
      Exit, RunsDry, vars, processVars, storeVars, tgVars, lqVars, workVars, stopVars,
      Changes, AskStop, BacklogDiscarded, CommandDone, ConfirmStop, ConfirmationExpires,
      DiscardFails, Enqueue, EnqueueEnds, Flush, GetUpdates, PollEnds, PollOnce,
      PollingEnds, RefuseCommand, RelayClosed, RelayListens, RelayOpens, Signal,
      StopLogged, TakeCommand, TakeUpdate, TimerFires, UpdateDone, WriteBegins,
      WriteFails

(* It holds before the first process is started.                           *)
LEMMA InitInv == Init => IInv
<1> SUFFICES ASSUME Init PROVE IInv
  OBVIOUS
<1> USE Bounds
<1>1. ProcessTypes
  <2>1. lives \in 0..MaxLives /\ ahead \in Nat
    BY DEF Init
  <2>2. /\ phase = "down" /\ stop = "no" /\ http = "off" /\ signalled \in BOOLEAN
        /\ asker = Nobody
    BY DEF Init
  <2> QED
    BY <2>1, <2>2 DEF ProcessTypes
<1>2. StoreTypes
  <2>1. <<>> \in Seq(Nat)
    OBVIOUS
  <2> QED
    BY <2>1, NoChange DEF Init, StoreTypes
<1>3. TelegramTypes
  BY DEF Init, TelegramTypes, Updates
<1>4. QueueTypes
  BY DEF Init, QueueTypes, Commands
<1>5. HandlerTypes
  BY DEF Init, HandlerTypes, Nothing, Channels
<1>6. DownIsEmpty
  BY DEF Init, DownIsEmpty
<1>7. WritesInOrder
  BY NoChange DEF Init, WritesInOrder
<1>8. LastIsCurrent /\ FlushAwaits /\ RunsAreActive
  BY DEF Init, LastIsCurrent, FlushAwaits, RunsAreActive, Up
<1>9. UpdatesOnce
  BY DEF Init, UpdatesOnce
<1>10. CommandsOnce
  BY DEF Init, CommandsOnce, Channels, Nothing, Commands
<1> QED
  BY <1>1, <1>2, <1>3, <1>4, <1>5, <1>6, <1>7, <1>8, <1>9, <1>10, TypeParts
  DEF IInv, StoreInv, MessageInv

-----------------------------------------------------------------------------
(* The inductive invariant holds in every reachable state.                 *)
THEOREM Invariant == Spec => []IInv
<1>1. IInv /\ [Next]_vars => IInv'
  <2> SUFFICES ASSUME IInv, [Next]_vars PROVE IInv'
    OBVIOUS
  <2>1. /\ ProcessTypes /\ StoreTypes /\ TelegramTypes /\ QueueTypes /\ HandlerTypes
        /\ DownIsEmpty /\ WritesInOrder /\ LastIsCurrent /\ RunsAreActive /\ FlushAwaits
        /\ UpdatesOnce /\ CommandsOnce
    BY TypeParts DEF IInv, StoreInv, MessageInv
  <2>2. ProcessTypes' /\ StoreTypes' /\ TelegramTypes' /\ QueueTypes' /\ HandlerTypes'
    BY <2>1, ProcessTypesStep, StoreTypesStep, TelegramTypesStep, QueueTypesStep,
       HandlerTypesStep
  <2>3. DownIsEmpty' /\ WritesInOrder' /\ LastIsCurrent' /\ RunsAreActive' /\ FlushAwaits'
    BY <2>1, <2>2, DownStep, WritesStep, LastStep, RunsStep, FlushStep
  <2>4. UpdatesOnce' /\ CommandsOnce'
    BY <2>1, UpdatesStep, CommandsStep
  <2>5. TypeOK'
    BY <2>2 DEF TypeOK, ProcessTypes, StoreTypes, TelegramTypes, QueueTypes, HandlerTypes
  <2> QED
    BY <2>3, <2>4, <2>5 DEF IInv, StoreInv, MessageInv
<1> QED
  BY InitInv, <1>1, PTL DEF Spec

(* Every variable of the service keeps its type, over all its lives: among *)
(* others offsets, batches and the messages in hand stay within those that *)
(* were sent.                                                              *)
THEOREM TypeCorrect == Spec => []TypeOK
  BY Invariant, PTL DEF IInv

(* StateStore.persist chains every save to writeQueue, and every change is *)
(* followed by a save: when the queue is idle the file is current.         *)
THEOREM NothingIsLost == Spec => []NothingLeftUnsaved
<1>1. IInv => NothingLeftUnsaved
  <2> SUFFICES ASSUME IInv, Up, Underway = 0, ~broken PROVE file = state
    BY DEF NothingLeftUnsaved
  <2>1. StoreTypes /\ LastIsCurrent
    BY TypeParts DEF IInv, StoreInv
  <2>2. ~tmp.on /\ Len(writes) = 0
    BY <2>1, UnderwayIs, Numbers
  <2>3. writes = <<>>
    BY <2>1, <2>2, Numbers
  <2> QED
    BY <2>1, <2>2, <2>3 DEF LastIsCurrent
<1> QED
  BY <1>1, Invariant, PTL

(* createApp clears the active requests it loaded, and executeTask calls   *)
(* setActiveRequest at both ends of a run: whatever handlers, other runs,  *)
(* saves and a stop do meanwhile, a chat has an active request exactly     *)
(* while a run of this process is in Codex for it.                         *)
THEOREM ActiveRequestHasItsRun == Spec => []ActiveRequestHasARun
<1>1. IInv => ActiveRequestHasARun
  BY DEF IInv, StoreInv, RunsAreActive, ActiveRequestHasARun
<1> QED
  BY <1>1, Invariant, PTL

(* discardPendingUpdates moves the offset past everything that was sent.   *)
THEOREM BacklogIsDiscarded == Spec => []BacklogStaysDiscarded
<1>1. IInv => BacklogStaysDiscarded
  <2> SUFFICES ASSUME IInv, NEW m \in begun, m[1] = "telegram" PROVE m[2] > backlog
    BY DEF BacklogStaysDiscarded
  <2>1. backlog < m[2]
    BY DEF IInv, MessageInv, UpdatesOnce
  <2>2. backlog \in Int /\ m[2] \in Int
    BY Bounds DEF IInv, TypeOK
  <2> QED
    BY <2>1, <2>2
<1> QED
  BY <1>1, Invariant, PTL

(* stopInternal awaits flush(): the state it found is in the file when     *)
(* service_stop is logged, whatever runs that go on have changed since.    *)
THEOREM StopIsFlushed == Spec => []StopFlushes
<1>1. IInv => StopFlushes
  <2> SUFFICES ASSUME IInv, stop = "logged", NEW p \in Parts PROVE file[p] >= due[p]
    BY DEF StopFlushes
  <2>1. StoreTypes /\ due[p] <= file[p]
    BY TypeParts DEF IInv, StoreInv, FlushAwaits, DueIn
  <2> QED
    BY <2>1, Numbers
<1> QED
  BY <1>1, Invariant, PTL

(* The offset goes past an update before its handler runs, and polls of    *)
(* the command queue do not overlap: no handler begins a message again.    *)
THEOREM HandledOnce == Spec => HandledOncePerLife
<1>1. IInv /\ [Next]_vars =>
        [\A ch \in Channels :
           doing[ch] = Nothing /\ doing'[ch] # Nothing =>
             /\ <<ch, doing'[ch].id>> \notin begun
             /\ ch = "local" => place[doing'[ch].id] = "inbox"]_vars
  BY TypeParts, BeginsStep DEF IInv, MessageInv, BeginsOnce
<1> QED
  BY <1>1, Invariant, PTL DEF Spec, HandledOncePerLife

(* The service implements what CodeFox promises of its state: starting     *)
(* loads the file and moves at most one change past it, what is renamed    *)
(* into place lies between the file and memory, and an end of the process  *)
(* leaves the file as it is.                                               *)
THEOREM Implementation == Spec => ImplementsDurableState
<1>1. Init => Durable!Init
  BY DEF Init, Empty, Durable!Init, Up
<1>2. IInv /\ IInv' /\ [Next]_vars => [Durable!Next]_(Durable!vars)
  BY TypeParts, DurableStep DEF IInv, StoreInv, TypeOK, StoreTypes
<1> QED
  BY <1>1, <1>2, Invariant, PTL DEF Spec, ImplementsDurableState, Durable!Spec
=============================================================================
