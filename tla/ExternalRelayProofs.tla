------------------------ MODULE ExternalRelayProofs ------------------------
(***************************************************************************)
(* Proofs about ExternalRelay, for any number of sessions, approval keys,  *)
(* channels, leases and events, and any lease time.                        *)
(***************************************************************************)
EXTENDS ExternalRelay, TLAPS

(* What is known of a lease bears an id that was given out.                *)
IdsAreGranted ==
  /\ \A l \in Leases : Known(l) => l <= granted
  /\ \A e \in inflight : e.lease <= granted
  /\ approval # None => approval.lease <= granted
  /\ \A l \in dropped : l <= granted

(* A lease that was given up is in the map no more, and what is still in   *)
(* flight for it was in flight when it was revoked.                        *)
DroppedIsGone ==
  /\ \A l \in dropped : ~Known(l)
  /\ \A e \in inflight : e.lease \in dropped => e.lease \in raced

(* The relay's pending record is the request the chat shows.               *)
RecordIsShown ==
  approval # None /\ records[Shown].status = "pending"
    => records[Shown].seq = approval.seq \/ Shown \in unshown

LeasesAndRecords ==
  /\ IdsAreGranted
  /\ DroppedIsGone
  /\ RecordIsShown
  /\ OneLiveLeasePerSession
  /\ RevokedLeaseLeavesNothing
  /\ PendingApprovalIsKnown

IInv == TypeOK /\ LeasesAndRecords

(* The invariant holds when the service first starts.                      *)
LEMMA InitInv == Init => IInv
  BY BoundsAreCounts, NoneIsNoSession
  DEF Init, IInv, LeasesAndRecords, TypeOK, IdsAreGranted, DroppedIsGone, RecordIsShown,
      OneLiveLeasePerSession, RevokedLeaseLeavesNothing, PendingApprovalIsKnown,
      Known, Live, NotInMap, NoRecord, Leases, Requests, Shown, Approvals

(* Every step keeps the types.                                             *)
LEMMA TypeStep == TypeOK /\ [Next]_vars => TypeOK'
<1> SUFFICES ASSUME TypeOK, [Next]_vars PROVE TypeOK'
  OBVIOUS
<1> USE BoundsAreCounts DEF TypeOK
<1>1. ASSUME NEW s \in Sessions \cup {None}, SelectContext(s) PROVE TypeOK'
  BY <1>1 DEF SelectContext, history
<1>2. CASE Tick
  <2>1. ASSUME NEW l \in Leases PROVE leases[l].ttl \in 0..MaxLeaseSeconds
    OBVIOUS
  <2>2. ASSUME NEW l \in Leases, Live(l) PROVE leases[l].ttl - 1 \in 0..MaxLeaseSeconds
    BY <2>1, <2>2 DEF Live
  <2>3. leases' \in [Leases -> [session: Sessions \cup {None}, ttl: 0..MaxLeaseSeconds,
                               last: 0..MaxSequence]]
    BY <2>1, <2>2, <1>2 DEF Tick
  <2> QED
    BY <1>2, <2>3 DEF Tick, history
<1>3. CASE RequestArrives
  BY <1>3 DEF RequestArrives, history
<1>4. CASE RefuseBody
  BY <1>4 DEF RefuseBody, BodyRead, history
<1>5. ASSUME NEW s \in Sessions, NEW n \in 1..(MaxLeaseSeconds + 1), Bind(s, n) PROVE TypeOK'
  <2> DEFINE Entries == [session: Sessions \cup {None}, ttl: 0..MaxLeaseSeconds,
                         last: 0..MaxSequence]
  <2>1. NotInMap \in Entries
    BY DEF NotInMap
  <2>2. WithoutExpired(s) \in [Leases -> Entries]
    BY <2>1 DEF WithoutExpired
  <2>3. LeaseSeconds(n) \in 0..MaxLeaseSeconds
    BY DEF LeaseSeconds
  <2>4. leases' \in [Leases -> Entries] /\ granted' \in 0..MaxLeases
    BY <1>5, <2>2, <2>3 DEF Bind
  <2> QED
    BY <1>5, <2>4 DEF Bind, BodyRead, history
<1>6. ASSUME NEW l \in Leases, Heartbeat(l) PROVE TypeOK'
  BY <1>6 DEF Heartbeat, BodyRead, history
<1>7. ASSUME NEW l \in Leases, Revoke(l) PROVE TypeOK'
  BY <1>7 DEF Revoke, RecordsAfterRevoke, BodyRead, NotInMap, NoRecord
<1>8. ASSUME NEW l \in Leases, ExpireOnUse(l) PROVE TypeOK'
  BY <1>8 DEF ExpireOnUse, RecordsAfterExpiry, BodyRead, NotInMap, history
<1>9. ASSUME NEW l \in Leases, NEW n \in 1..MaxSequence, NEW k \in Keys,
             AcceptApprovalRequest(l, n, k)
      PROVE TypeOK'
  BY <1>9 DEF AcceptApprovalRequest, RecordsAfterAccept, BodyRead, Approvals, history
<1>10. ASSUME NEW l \in Leases, NEW n \in 1..MaxSequence, AcceptReport(l, n) PROVE TypeOK'
  BY <1>10 DEF AcceptReport, BodyRead, history
<1>11. ASSUME NEW e \in inflight, ApplyApprovalRequest(e) PROVE TypeOK'
  BY <1>11 DEF ApplyApprovalRequest, Approvals, Requests
<1>12. ASSUME NEW c \in Channels, NEW v \in {"approved", "denied"}, Decide(c, v) PROVE TypeOK'
  BY <1>12 DEF Decide, Shown, Approvals, Requests, history
<1>13. ASSUME NEW c \in Channels, DecisionRecorded(c) PROVE TypeOK'
  BY <1>13 DEF DecisionRecorded, history
<1>14. CASE Restart
  BY <1>14 DEF Restart, NotInMap, NoRecord, Leases
<1>15. CASE UNCHANGED vars
  BY <1>15 DEF vars, history
<1> QED
  BY <1>1, <1>2, <1>3, <1>4, <1>5, <1>6, <1>7, <1>8, <1>9, <1>10, <1>11, <1>12, <1>13,
     <1>14, <1>15 DEF Next

(* Every step keeps what is said of leases, records and the chat's approval. *)
LEMMA LeasesAndRecordsStep == TypeOK /\ LeasesAndRecords /\ [Next]_vars => LeasesAndRecords'
<1> SUFFICES ASSUME TypeOK, LeasesAndRecords, [Next]_vars PROVE LeasesAndRecords'
  OBVIOUS
<1> USE BoundsAreCounts, NoneIsNoSession
    DEF TypeOK, LeasesAndRecords, IdsAreGranted, DroppedIsGone, RecordIsShown, OneLiveLeasePerSession,
        RevokedLeaseLeavesNothing, PendingApprovalIsKnown, Known, Live, Shown, history
<1>1. ASSUME NEW s \in Sessions \cup {None}, SelectContext(s) PROVE LeasesAndRecords'
  BY <1>1 DEF SelectContext
<1>2. CASE Tick
  BY <1>2 DEF Tick
<1>3. CASE RequestArrives
  BY <1>3 DEF RequestArrives
<1>4. CASE RefuseBody
  BY <1>4 DEF RefuseBody, BodyRead
<1>5. ASSUME NEW s \in Sessions, NEW n \in 1..(MaxLeaseSeconds + 1), Bind(s, n) PROVE LeasesAndRecords'
  <2>1. \A l \in Leases : WithoutExpired(s)[l] \in {leases[l], NotInMap}
    BY DEF WithoutExpired
  <2>2. CASE leases' = WithoutExpired(s) /\ UNCHANGED granted
    BY <1>5, <2>1, <2>2 DEF Bind, NotInMap
  <2>3. CASE /\ ActiveLeases(s) = {}
             /\ granted < MaxLeases
             /\ granted' = granted + 1
             /\ leases' = [WithoutExpired(s) EXCEPT ![granted + 1] =
                  [session |-> s, ttl |-> LeaseSeconds(n), last |-> 0]]
    <3>1. WithoutExpired(s) = [l \in Leases |-> WithoutExpired(s)[l]]
      BY DEF WithoutExpired
    <3>2. /\ granted + 1 \in Leases
          /\ leases'[granted + 1].session = s
          /\ \A l \in Leases \ {granted + 1} : leases'[l] \in {leases[l], NotInMap}
      BY <2>1, <2>3, <3>1 DEF Leases
    <3>3. \A l \in Leases : Live(l) => leases[l].session # s
      BY <2>3 DEF ActiveLeases
    <3>4. OneLiveLeasePerSession'
      BY <3>2, <3>3 DEF NotInMap
    <3>5. IdsAreGranted'
      BY <1>5, <2>3, <3>2 DEF Bind, NotInMap, Leases, Approvals
    <3>6. DroppedIsGone'
      <4>1. granted + 1 \notin dropped
        BY DEF Leases
      <4> QED
        BY <1>5, <3>2, <4>1 DEF Bind, NotInMap
    <3> QED
      BY <1>5, <3>4, <3>5, <3>6 DEF Bind, BodyRead
  <2> QED
    BY <1>5, <2>2, <2>3 DEF Bind
<1>6. ASSUME NEW l \in Leases, Heartbeat(l) PROVE LeasesAndRecords'
  BY <1>6 DEF Heartbeat, BodyRead
<1>7. ASSUME NEW l \in Leases, Revoke(l) PROVE LeasesAndRecords'
  BY <1>7 DEF Revoke, RecordsAfterRevoke, BodyRead, NotInMap, NoRecord, Requests, Approvals
<1>8. ASSUME NEW l \in Leases, ExpireOnUse(l) PROVE LeasesAndRecords'
  BY <1>8 DEF ExpireOnUse, RecordsAfterExpiry, BodyRead, NotInMap
<1>9. ASSUME NEW l \in Leases, NEW n \in 1..MaxSequence, NEW k \in Keys,
             AcceptApprovalRequest(l, n, k)
      PROVE LeasesAndRecords'
  BY <1>9 DEF AcceptApprovalRequest, RecordsAfterAccept, BodyRead, Approvals
<1>10. ASSUME NEW l \in Leases, NEW n \in 1..MaxSequence, AcceptReport(l, n) PROVE LeasesAndRecords'
  BY <1>10 DEF AcceptReport, BodyRead
<1>11. ASSUME NEW e \in inflight, ApplyApprovalRequest(e) PROVE LeasesAndRecords'
  BY <1>11 DEF ApplyApprovalRequest, Approvals, Requests, NoRecord
<1>12. ASSUME NEW c \in Channels, NEW v \in {"approved", "denied"}, Decide(c, v) PROVE LeasesAndRecords'
  <2>1. /\ approval \in Approvals /\ Shown \in Requests
        /\ approval' = approval
        /\ records[Shown].status = "pending"
        /\ records' = [records EXCEPT ![Shown].status = v]
        /\ handler' = [handler EXCEPT ![c] = Shown]
    BY <1>12 DEF Decide, Approvals, Requests
  <2>2. UNCHANGED <<granted, inflight, leases, history>>
    BY <1>12 DEF Decide
  <2>3. PendingApprovalIsKnown'
    BY <2>1
  <2>4. RecordIsShown'
    BY <2>1, <2>2
  <2>5. RevokedLeaseLeavesNothing'
    <3> SUFFICES ASSUME NEW l \in dropped \ raced, NEW k \in Keys, l \in Leases
                 PROVE records'[<<l, k>>] = NoRecord
      BY <2>2
    <3>1. records[<<l, k>>] = NoRecord /\ <<l, k>> \in Requests
      BY DEF Requests
    <3>2. <<l, k>> # Shown
      BY <2>1, <3>1 DEF NoRecord
    <3> QED
      BY <2>1, <3>1, <3>2
  <2> QED
    BY <2>1, <2>2, <2>3, <2>4, <2>5
<1>13. ASSUME NEW c \in Channels, DecisionRecorded(c) PROVE LeasesAndRecords'
  BY <1>13 DEF DecisionRecorded
<1>14. CASE Restart
  <2>1. /\ approval' \in {approval, None}
        /\ dropped' = 1..granted /\ inflight' = {} /\ granted' = granted
        /\ leases' = [l \in Leases |-> NotInMap]
        /\ records' = [p \in Requests |-> NoRecord]
    BY <1>14 DEF Restart
  <2>2. ASSUME approval' # None
        PROVE approval' \in Approvals /\ approval'.lease \in 1..granted /\ approval' = approval
    BY <2>1, <2>2 DEF Approvals, Leases
  <2>3. \A l \in Leases : leases'[l].session = None
    BY <2>1 DEF NotInMap
  <2>4. IdsAreGranted' /\ DroppedIsGone'
    BY <2>1, <2>2, <2>3 DEF Leases
  <2>5. OneLiveLeasePerSession'
    BY <2>3
  <2>6. RecordIsShown'
    <3>1. approval' # None => Shown' \in Requests
      BY <2>2 DEF Approvals, Requests
    <3> QED
      BY <2>1, <3>1 DEF NoRecord
  <2>7. RevokedLeaseLeavesNothing'
    <3> SUFFICES ASSUME NEW l \in dropped', NEW k \in Keys
                 PROVE records'[<<l, k>>] = NoRecord
      OBVIOUS
    <3>1. <<l, k>> \in Requests
      BY <2>1 DEF Requests, Leases
    <3> QED
      BY <2>1, <3>1
  <2>8. PendingApprovalIsKnown'
    BY <2>1, <2>2
  <2> QED
    BY <2>4, <2>5, <2>6, <2>7, <2>8
<1>15. CASE UNCHANGED vars
  BY <1>15 DEF vars
<1> QED
  BY <1>1, <1>2, <1>3, <1>4, <1>5, <1>6, <1>7, <1>8, <1>9, <1>10, <1>11, <1>12, <1>13,
     <1>14, <1>15 DEF Next

-----------------------------------------------------------------------------
(* The inductive invariant of the relay holds in every reachable state.    *)
THEOREM Invariant == Spec => []IInv
<1>1. IInv /\ [Next]_vars => IInv'
  BY TypeStep, LeasesAndRecordsStep DEF IInv
<1> QED
  BY InitInv, <1>1, PTL DEF Spec

(* Every variable keeps its type; in particular no more leases are handed  *)
(* out than there are ids and no lease lasts longer than the manifest says *)
(* (min of bind).                                                          *)
THEOREM TypeCorrect == Spec => []TypeOK
  BY Invariant, PTL DEF IInv

(* findActiveLeaseBySessionId and lazy expiry together keep the lease of a *)
(* session exclusive, for any number of clients and any timing.            *)
THEOREM LeaseIsExclusive == Spec => []OneLiveLeasePerSession
  BY Invariant, PTL DEF IInv, LeasesAndRecords

(* revokeLease leaves no approval of the lease behind, except one whose    *)
(* event was between acceptEvent and its callback at the time.             *)
THEOREM RevokedIsForgotten == Spec => []RevokedLeaseLeavesNothing
  BY Invariant, PTL DEF IInv, LeasesAndRecords

(* The chat's pending external approval has its record in the relay, is    *)
(* being decided, or belongs to a lease that was given up.                 *)
THEOREM PendingIsKnown == Spec => []PendingApprovalIsKnown
  BY Invariant, PTL DEF IInv, LeasesAndRecords

(* decideApproval stores a verdict on the request that the user was shown. *)
THEOREM VerdictMeetsItsRequest == Spec => VerdictIsOnWhatWasShown
<1>1. ASSUME IInv, [Next]_vars, NEW p \in Requests,
             records[p].status = "pending", records'[p].status \in {"approved", "denied"}
      PROVE  p = Shown /\ (records[p].seq = approval.seq \/ p \in unshown)
  <2> USE <1>1
  <2>1. \E c \in Channels, v \in {"approved", "denied"} : Decide(c, v)
    <3>1. ~ UNCHANGED records
      OBVIOUS
    <3>2. ASSUME NEW l \in Leases, Revoke(l) PROVE FALSE
      BY <3>2 DEF Revoke, RecordsAfterRevoke, NoRecord
    <3>3. ASSUME NEW e \in inflight, ApplyApprovalRequest(e) PROVE FALSE
      BY <3>3 DEF ApplyApprovalRequest, IInv, TypeOK
    <3>4. ASSUME Restart PROVE FALSE
      BY <3>4 DEF Restart, NoRecord
    <3> QED
      BY <3>1, <3>2, <3>3, <3>4
      DEF Next, vars, SelectContext, Tick, RequestArrives, RefuseBody, Bind, Heartbeat,
          ExpireOnUse, RecordsAfterExpiry, AcceptApprovalRequest, RecordsAfterAccept,
          AcceptReport, DecisionRecorded
  <2>2. approval # None /\ p = Shown /\ records[Shown].status = "pending"
    BY <2>1 DEF Decide, IInv, TypeOK
  <2> QED
    BY <2>2 DEF IInv, LeasesAndRecords, RecordIsShown
<1>2. IInv /\ [Next]_vars =>
        [\A p \in Requests :
           records[p].status = "pending" /\ records'[p].status \in {"approved", "denied"}
             => p = Shown /\ (records[p].seq = approval.seq \/ p \in unshown)]_vars
  BY <1>1
<1> QED
  BY <1>2, Invariant, PTL DEF Spec, VerdictIsOnWhatWasShown

-----------------------------------------------------------------------------
(* The lease table implements SessionLease.                                *)

(* A step that grants nothing, and after which only leases are live that   *)
(* were live before, gives leases up.                                      *)
LEMMA OnlyGivesUp ==
  ASSUME UNCHANGED granted,
         \A l \in Leases : Live(l)' => Live(l) /\ leases'[l].session = leases[l].session
  PROVE  Binding!LeaseNext
<1>1. Held' \subseteq Held
  BY DEF Held
<1> QED
  BY <1>1 DEF Binding!LeaseNext, Binding!GiveUp

(* A step that leaves the lease table alone gives nothing up.              *)
LEMMA TableRests ==
  ASSUME UNCHANGED <<leases, granted>>
  PROVE  Binding!LeaseNext
<1>1. \A l \in Leases : Live(l)' => Live(l) /\ leases'[l].session = leases[l].session
  BY DEF Live, Known
<1> QED
  BY <1>1, OnlyGivesUp

(* bind grants a new lease for a session that no lease holds.              *)
LEMMA BindGrants ==
  ASSUME TypeOK, IdsAreGranted,
         NEW s \in Sessions, NEW n \in 1..(MaxLeaseSeconds + 1), Bind(s, n)
  PROVE  Binding!LeaseNext
<1> USE BoundsAreCounts, NoneIsNoSession
<1>1. /\ WithoutExpired(s) = [l \in Leases |-> WithoutExpired(s)[l]]
      /\ \A l \in Leases : Live(l) => WithoutExpired(s)[l] = leases[l]
      /\ \A l \in Leases : ~Live(l) =>
            WithoutExpired(s)[l].session = None \/ WithoutExpired(s)[l].ttl = 0
  <2>1. leases \in [Leases -> [session: Sessions \cup {None},
                              ttl: 0..MaxLeaseSeconds, last: 0..MaxSequence]]
    BY DEF TypeOK
  <2> QED
    BY <2>1 DEF WithoutExpired, Expired, Live, Known, NotInMap
<1>2. CASE leases' = WithoutExpired(s) /\ UNCHANGED granted
  <2>1. \A l \in Leases : Live(l)' => Live(l) /\ leases'[l].session = leases[l].session
    BY <1>1, <1>2 DEF Live, Known
  <2> QED
    BY <1>2, <2>1, OnlyGivesUp
<1>3. CASE /\ ActiveLeases(s) = {}
           /\ granted < MaxLeases
           /\ granted' = granted + 1
           /\ leases' = [WithoutExpired(s) EXCEPT ![granted + 1] =
                [session |-> s, ttl |-> LeaseSeconds(n), last |-> 0]]
  <2>1. PICK g \in Leases : g = granted + 1 /\ LeaseSeconds(n) > 0
    BY <1>3 DEF TypeOK, Leases, LeaseSeconds
  <2>2. Live(g)' /\ leases'[g].session = s
    <3>1. leases'[g] = [session |-> s, ttl |-> LeaseSeconds(n), last |-> 0]
      BY <1>1, <1>3, <2>1
    <3> QED
      BY <2>1, <3>1 DEF Live, Known
  <2>3. \A l \in Leases \ {g} :
          /\ Live(l)' <=> Live(l)
          /\ Live(l) => leases'[l].session = leases[l].session
    <3>1. \A l \in Leases \ {g} : leases'[l] = WithoutExpired(s)[l]
      BY <1>1, <1>3, <2>1
    <3> QED
      BY <1>1, <3>1 DEF Live, Known
  <2>4. ~Live(g)
    BY <2>1 DEF Live, IdsAreGranted, TypeOK
  <2>5. Held' = Held \cup {<<granted + 1, s>>}
    BY <2>1, <2>2, <2>3, <2>4 DEF Held
  <2>6. \A h \in Held : h[2] # s
    BY <1>3 DEF Held, ActiveLeases
  <2> QED
    BY <1>3, <2>5, <2>6 DEF Binding!LeaseNext, Binding!Grant
<1> QED
  BY <1>2, <1>3 DEF Bind

(* Every step of the relay is a step of SessionLease.                      *)
LEMMA LeaseStep ==
  ASSUME IInv, [Next]_vars
  PROVE  [Binding!LeaseNext]_(Binding!leaseVars)
<1>1. /\ TypeOK /\ IdsAreGranted
      /\ leases \in [Leases -> [session: Sessions \cup {None},
                              ttl: 0..MaxLeaseSeconds, last: 0..MaxSequence]]
  BY DEF IInv, LeasesAndRecords, TypeOK
<1>2. CASE UNCHANGED <<leases, granted>>
  BY <1>1, <1>2, TableRests
<1>3. CASE Tick
  <2>1. \A l \in Leases : Live(l)' => Live(l) /\ leases'[l].session = leases[l].session
    BY <1>1, <1>3, BoundsAreCounts DEF Tick, Live, Known
  <2> QED
    BY <1>1, <1>3, <2>1, OnlyGivesUp DEF Tick
<1>4. ASSUME NEW s \in Sessions, NEW n \in 1..(MaxLeaseSeconds + 1), Bind(s, n)
      PROVE  Binding!LeaseNext
  BY <1>1, <1>4, BindGrants
<1>5. ASSUME NEW l \in Leases, leases' = [leases EXCEPT ![l] = NotInMap], UNCHANGED granted
      PROVE  Binding!LeaseNext
  <2>1. \A m \in Leases : Live(m)' => Live(m) /\ leases'[m].session = leases[m].session
    BY <1>1, <1>5 DEF NotInMap, Live, Known
  <2> QED
    BY <1>1, <1>5, <2>1, OnlyGivesUp
<1>6. ASSUME NEW l \in Leases, Live(l), UNCHANGED granted,
             \A m \in Leases : leases'[m].session = leases[m].session,
             \A m \in Leases \ {l} : leases'[m] = leases[m]
      PROVE  Binding!LeaseNext
  <2>1. \A m \in Leases : Live(m)' => Live(m) /\ leases'[m].session = leases[m].session
    BY <1>6 DEF Live, Known
  <2> QED
    BY <1>1, <1>6, <2>1, OnlyGivesUp
<1>7. ASSUME NEW l \in Leases, Heartbeat(l) PROVE Binding!LeaseNext
  BY <1>1, <1>6, <1>7 DEF Heartbeat
<1>8. ASSUME NEW l \in Leases, NEW n \in 1..MaxSequence, NEW k \in Keys,
             AcceptApprovalRequest(l, n, k)
      PROVE  Binding!LeaseNext
  BY <1>1, <1>6, <1>8 DEF AcceptApprovalRequest
<1>9. ASSUME NEW l \in Leases, NEW n \in 1..MaxSequence, AcceptReport(l, n)
      PROVE  Binding!LeaseNext
  BY <1>1, <1>6, <1>9 DEF AcceptReport
<1>10. CASE Restart
  <2>1. \A l \in Leases : ~Live(l)'
    BY <1>10 DEF Restart, NotInMap, Live, Known
  <2> QED
    BY <1>1, <1>10, <2>1, OnlyGivesUp DEF Restart
<1>11. CASE \E l \in Leases : Revoke(l) \/ ExpireOnUse(l)
  BY <1>5, <1>11 DEF Revoke, ExpireOnUse
<1> QED
  BY <1>2, <1>3, <1>4, <1>7, <1>8, <1>9, <1>10, <1>11
  DEF Next, vars, SelectContext, RequestArrives, RefuseBody, ApplyApprovalRequest, Decide,
      DecisionRecorded

(* bind, heartbeat, revokeLease and the lazy expiry keep what SessionLease *)
(* says: no lease ever comes back, and a session is never held twice.      *)
THEOREM Implementation == Spec => ImplementsSessionLease
<1>1. Init => Binding!LeaseInit
  BY DEF Init, Held, Live, NotInMap, Binding!LeaseInit
<1>2. IInv /\ [Next]_vars => [Binding!LeaseNext]_(Binding!leaseVars)
  BY LeaseStep
<1> QED
  BY <1>1, <1>2, Invariant, PTL DEF Spec, ImplementsSessionLease, Binding!LeaseSpec
=============================================================================
