--------------------------- MODULE ExternalRelay ---------------------------
(***************************************************************************)
(* The bridge through which external Codex clients reach ONE chat:         *)
(* the lease table of ExternalCodexIntegration, the approvals of           *)
(* ExternalCodexRelay, the HTTP server in front of them and the chat's own *)
(* approval record, which a user decides.  Handoff bundles and completions *)
(* use the same leases; what they do in the chat is module Handoff.        *)
(*                                                                         *)
(* An HTTP request is two steps: it arrives (the route table is rebuilt)   *)
(* and its body has been read (the handler runs).  An accepted event is    *)
(* two more: accepted, and, after the audit entry and the chat message     *)
(* were awaited, applied.  Bodies that fail a check on their data (client, *)
(* schema, class, timestamp, missing field) are refused before anything is *)
(* stored, as if they had not been sent.                                   *)
(*                                                                         *)
(* The contents of an event are its sequence number: the approval request  *)
(* with sequence n is "request n" wherever its summary is kept.            *)
(***************************************************************************)
EXTENDS Naturals

CONSTANTS
  Sessions,         \* session ids of the chat: one per repo and mode
  Keys,             \* approval keys clients use
  Channels,         \* sources of /approve and /deny: Telegram, local queue
  MaxLeases,        \* bound: binds granted
  MaxLeaseSeconds,  \* manifest.maxLeaseSeconds, in ticks
  MaxSequence,      \* bound: events of a lease
  MaxReading,       \* bound: requests whose body is being read
  None              \* undefined

ASSUME BoundsAreCounts ==
  {MaxLeases, MaxLeaseSeconds, MaxSequence, MaxReading} \subseteq Nat \ {0}
ASSUME NoneIsNoSession == None \notin Sessions

(* randomHex gives fresh ids; numbered in the order of the Map.            *)
Leases   == 1..MaxLeases
Requests == Leases \X Keys

VARIABLES
  context,      \* the session id deriveExternalRoutes finds, None without a repo
  routes,       \* ExternalCodexRelay.routes
  reading,      \* requests between setRoutes and the end of readJson
  leases,       \* integration.leases: session (None: not in the map), ttl, lastSequence
  granted,      \* leases handed out so far
  inflight,     \* approval requests whose relayEvent awaits audit and notify
  records,      \* relay.approvals: status and the request it is about
  approval,     \* the external approval in approvals.get(chatId), or None
  handler,      \* the approval each channel awaits the relay's audit for
  \* History, read by properties only:
  dropped,      \* leases whose records the relay gave up: revoked, or before a restart
  raced,        \* leases revoked while an event of theirs was in flight
  unshown       \* requests that came in while the chat had no repo

history   == <<dropped, raced, unshown>>
vars == <<context, routes, reading, leases, granted, inflight, records,
          approval, handler, history>>

NotInMap == [session |-> None, ttl |-> 0, last |-> 0]
NoRecord == [status |-> "none", seq |-> 0]

(* An approval request on its way, and as the chat keeps it.              *)
Approvals == [lease: Leases, key: Keys, seq: 1..MaxSequence]

TypeOK ==
  /\ context \in Sessions \cup {None}
  /\ routes \subseteq Sessions
  /\ reading \in 0..MaxReading
  /\ leases \in [Leases -> [session: Sessions \cup {None},
                            ttl: 0..MaxLeaseSeconds, last: 0..MaxSequence]]
  /\ granted \in 0..MaxLeases
  /\ inflight \subseteq Approvals
  /\ records \in [Requests -> [status: {"none", "pending", "approved", "denied"},
                               seq: 0..MaxSequence]]
  /\ approval \in Approvals \cup {None}
  /\ handler \in [Channels -> Requests \cup {None}]
  /\ dropped \subseteq Leases
  /\ raced \subseteq Leases
  /\ unshown \subseteq Requests

Init ==
  /\ context \in Sessions \cup {None}
  /\ routes = {} /\ reading = 0
  /\ leases = [l \in Leases |-> NotInMap] /\ granted = 0
  /\ inflight = {}
  /\ records = [p \in Requests |-> NoRecord]
  /\ approval = None
  /\ handler = [c \in Channels |-> None]
  /\ dropped = {} /\ raced = {} /\ unshown = {}

Known(l)   == leases[l].session # None
Expired(l) == Known(l) /\ leases[l].ttl = 0
Live(l)    == Known(l) /\ leases[l].ttl > 0
Routed(l)  == leases[l].session \in routes

-----------------------------------------------------------------------------
(* The chat and the clock.                                                 *)

(* /repo, /mode and the rest of the commands that change the session id.   *)
SelectContext(s) ==
  /\ context' = s
  /\ UNCHANGED <<routes, reading, leases, granted, inflight, records, approval,
                 handler, history>>

(* Time passes: ttl is expiresAt - now, never below zero.                  *)
Tick ==
  /\ leases' = [l \in Leases |->
       [leases[l] EXCEPT !.ttl = IF Live(l) THEN @ - 1 ELSE @]]
  /\ UNCHANGED <<context, routes, reading, granted, inflight, records, approval,
                 handler, history>>

-----------------------------------------------------------------------------
(* The HTTP server.                                                        *)

(* handleRequest up to readJson; a GET has no body to read.                *)
RequestArrives ==
  /\ routes' = {context} \ {None}
  /\ reading' \in {reading, reading + 1} /\ reading' <= MaxReading
  /\ UNCHANGED <<context, leases, granted, inflight, records, approval, handler,
                 history>>

BodyRead == reading > 0 /\ reading' = reading - 1

(* The body is too long, empty or no JSON, or a check refuses it.          *)
RefuseBody ==
  /\ BodyRead
  /\ UNCHANGED <<context, routes, leases, granted, inflight, records, approval,
                 handler, history>>

(* findActiveLeaseBySessionId: the leases that make a bind refused.        *)
BindsOverQuiet(s) == {l \in Leases : leases[l].session = s /\ Live(l) /\ leases[l].last > 0}
ActiveLeases(s)   == {l \in Leases : leases[l].session = s /\ Live(l)}

(* It walks the map up to the first of them and drops the expired leases   *)
(* it meets.                                                               *)
WithoutExpired(s) ==
  [l \in Leases |-> IF Expired(l) /\ \A a \in ActiveLeases(s) : l < a
                    THEN NotInMap ELSE leases[l]]

GrantsWhatIsAsked(seconds) == seconds
LeaseSeconds(seconds) ==
  IF seconds < MaxLeaseSeconds THEN seconds ELSE MaxLeaseSeconds

(* relay.bind and integration.bind, for a routed session: refused, because *)
(* the session is bound or by a later check of the body, or granted.       *)
Bind(s, seconds) ==
  /\ BodyRead
  /\ s \in routes
  /\ \/ leases' = WithoutExpired(s) /\ UNCHANGED granted
     \/ /\ ActiveLeases(s) = {}
        /\ granted < MaxLeases
        /\ granted' = granted + 1
        /\ leases' = [WithoutExpired(s) EXCEPT ![granted + 1] =
             [session |-> s, ttl |-> LeaseSeconds(seconds), last |-> 0]]
  /\ UNCHANGED <<context, routes, inflight, records, approval, handler, history>>

(* heartbeat: an expired lease stays in the map and is refused.            *)
Heartbeat(l) ==
  /\ BodyRead
  /\ Live(l)
  /\ leases' = [leases EXCEPT ![l].ttl = MaxLeaseSeconds]
  /\ UNCHANGED <<context, routes, granted, inflight, records, approval, handler,
                 history>>

(* relay.revokeLease, also of a lease that expired and is still in the map. *)
ApprovalsKept(l)       == records
RecordsAfterRevoke(l)  == [p \in Requests |-> IF p[1] = l THEN NoRecord ELSE records[p]]

Revoke(l) ==
  /\ BodyRead
  /\ Known(l)
  /\ leases' = [leases EXCEPT ![l] = NotInMap]
  /\ records' = RecordsAfterRevoke(l)
  /\ dropped' = dropped \cup {l}
  /\ raced' = IF \E e \in inflight : e.lease = l THEN raced \cup {l} ELSE raced
  /\ UNCHANGED <<context, routes, granted, inflight, approval, handler, unshown>>

(* acceptEvent and acceptHandoff find the lease expired: it is dropped     *)
(* from the map, its approvals stay in the relay.                          *)
RecordsGoWithLease(l) == RecordsAfterRevoke(l)
RecordsAfterExpiry(l) == records

ExpireOnUse(l) ==
  /\ BodyRead
  /\ Expired(l)
  /\ leases' = [leases EXCEPT ![l] = NotInMap]
  /\ records' = RecordsAfterExpiry(l)
  /\ UNCHANGED <<context, routes, granted, inflight, approval, handler,
                 history>>

(* relayEvent up to its awaits.  The sequence number is stored whether or  *)
(* not the session is still routed; only a routed event is applied.        *)
RecordedAtOnce(e) ==
  [records EXCEPT ![<<e.lease, e.key>>] = [status |-> "pending", seq |-> e.seq]]
RecordsAfterAccept(e) == records

AcceptApprovalRequest(l, n, key) ==
  LET e == [lease |-> l, seq |-> n, key |-> key] IN
  /\ BodyRead
  /\ Live(l)
  /\ n > leases[l].last
  /\ leases' = [leases EXCEPT ![l].last = n]
  /\ inflight' = IF Routed(l) THEN inflight \cup {e} ELSE inflight
  /\ records' = RecordsAfterAccept(e)
  /\ UNCHANGED <<context, routes, granted, approval, handler, history>>

(* Progress, blockers and completions only take a sequence number here.    *)
AcceptReport(l, n) ==
  /\ BodyRead
  /\ Live(l)
  /\ n > leases[l].last
  /\ leases' = [leases EXCEPT ![l].last = n]
  /\ UNCHANGED <<context, routes, granted, inflight, records, approval, handler,
                 history>>

(* relayEvent after its awaits, with onApprovalRequested: the relay's      *)
(* record and, with a repo selected, the chat's approval, in one step.     *)
ApplyApprovalRequest(e) ==
  LET p == <<e.lease, e.key>> IN
  /\ inflight' = inflight \ {e}
  /\ records' = [records EXCEPT ![p] = [status |-> "pending", seq |-> e.seq]]
  /\ IF context = None
       THEN unshown' = unshown \cup {p} /\ UNCHANGED approval
       ELSE /\ approval' = e
            /\ unshown' = unshown \ {p}
  /\ UNCHANGED <<context, routes, reading, leases, granted, handler,
                 dropped, raced>>

-----------------------------------------------------------------------------
(* The user's verdict: /approve and /deny on an external approval.         *)

Shown == <<approval.lease, approval.key>>

(* handleApprove or handleDeny and decideApproval up to its audit entry.   *)
(* A record that is gone or decided is "stale or unknown": nothing changes. *)
Decide(c, verdict) ==
  /\ handler[c] = None
  /\ approval # None
  /\ records[Shown].status = "pending"
  /\ records' = [records EXCEPT ![Shown].status = verdict]
  /\ handler' = [handler EXCEPT ![c] = Shown]
  /\ UNCHANGED <<context, routes, reading, leases, granted, inflight,
                 approval, history>>

(* The rest of the handler: it deletes whatever approval the chat has now. *)
DecisionRecorded(c) ==
  /\ handler[c] # None
  /\ handler' = [handler EXCEPT ![c] = None]
  /\ approval' = None
  /\ UNCHANGED <<context, routes, reading, leases, granted, inflight, records,
                 history>>

-----------------------------------------------------------------------------
(* The service ends and starts again: the relay keeps nothing, the chat's  *)
(* approval comes back from the state file unless it expired or was never  *)
(* written.                                                                *)
Restart ==
  /\ approval' \in {approval, None}
  /\ dropped' = 1..granted
  /\ routes' = {} /\ reading' = 0 /\ inflight' = {}
  /\ leases' = [l \in Leases |-> NotInMap]
  /\ records' = [p \in Requests |-> NoRecord]
  /\ handler' = [c \in Channels |-> None]
  /\ raced' = {} /\ unshown' = {}
  /\ UNCHANGED <<context, granted>>

Next ==
  \/ \E s \in Sessions \cup {None} : SelectContext(s)
  \/ Tick
  \/ RequestArrives
  \/ RefuseBody
  \/ \E s \in Sessions, n \in 1..(MaxLeaseSeconds + 1) : Bind(s, n)
  \/ \E l \in Leases : Heartbeat(l)
  \/ \E l \in Leases : Revoke(l)
  \/ \E l \in Leases : ExpireOnUse(l)
  \/ \E l \in Leases, n \in 1..MaxSequence, k \in Keys : AcceptApprovalRequest(l, n, k)
  \/ \E l \in Leases, n \in 1..MaxSequence : AcceptReport(l, n)
  \/ \E e \in inflight : ApplyApprovalRequest(e)
  \/ \E c \in Channels, v \in {"approved", "denied"} : Decide(c, v)
  \/ \E c \in Channels : DecisionRecorded(c)
  \/ Restart

Spec == Init /\ [][Next]_vars

(* What a user who goes on answering, and a service that goes on running,  *)
(* do sooner or later.  Clients promise nothing.                           *)
Answering ==
  \A c \in Channels : /\ WF_vars(\E v \in {"approved", "denied"} : Decide(c, v))
                      /\ WF_vars(DecisionRecorded(c))

AnsweringSpec == Spec /\ Answering

-----------------------------------------------------------------------------
(* Properties.                                                             *)

(* "One active external lease is allowed per CodeFox session id"           *)
(* (docs/OPERATIONS.md:172), although leases expire without an event,      *)
(* heartbeats extend them and a bind drops only some of the expired ones.  *)
OneLiveLeasePerSession ==
  \A l, m \in Leases :
    Live(l) /\ Live(m) /\ leases[l].session = leases[m].session => l = m

(* The lease table keeps what binding promises: SessionLease.  In          *)
(* particular no heartbeat, event or bind brings back a lease that was     *)
(* revoked, ran out or was lost in a restart.                              *)
Held == {<<l, leases[l].session>> : l \in {m \in Leases : Live(m)}}

Binding == INSTANCE SessionLease WITH held <- Held, given <- granted

ImplementsSessionLease == Binding!LeaseSpec

(* A verdict is about the request the user was shown: the relay's record   *)
(* never moves on to a newer request while the chat still shows the older  *)
(* one.  A request that came in while no repo was selected is not shown    *)
(* (external_approval_request_unbound) and is the exception.               *)
VerdictIsOnWhatWasShown ==
  [][\A p \in Requests :
       records[p].status = "pending" /\ records'[p].status \in {"approved", "denied"}
         => p = Shown /\ (records[p].seq = approval.seq \/ p \in unshown)]_vars

(* Revoking a lease forgets its approvals for good, unless a request of    *)
(* that lease was on its way when it was revoked.                          *)
RevokedLeaseLeavesNothing ==
  \A l \in dropped \ raced :
    \A k \in Keys : records[<<l, k>>] = NoRecord

(* What the chat shows as a pending external approval can be decided: its  *)
(* record waits in the relay, or a verdict on it is just being stored, or  *)
(* the relay gave the lease's records up.                                  *)
PendingApprovalIsKnown ==
  approval # None =>
    \/ records[Shown].status = "pending"
    \/ \E c \in Channels : handler[c] = Shown
    \/ approval.lease \in dropped

(* "Use /approve or /deny first." (src/core/controller.ts:2837, said of a  *)
(* pending approval that stands in the way of a request): a user who keeps *)
(* answering gets rid of it.                                               *)
PendingApprovalCanBeAnswered ==
  \A l \in Leases, k \in Keys, n \in 1..MaxSequence :
    LET a == [lease |-> l, key |-> k, seq |-> n] IN approval = a ~> approval # a
=============================================================================
