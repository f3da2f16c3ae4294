--------------------------- MODULE HandoffProofs ---------------------------
(***************************************************************************)
(* Proofs about Handoff, for any number of channels, posts, bundles and    *)
(* items of work.                                                          *)
(***************************************************************************)
EXTENDS Handoff, FiniteSetTheorems, WellFoundedInduction, TLAPS

(* Where a post is before the relay or the ingest has made a decision.     *)
Early == {"idle", "reporting", "delivering", "bootstrapping", "duplicate"}

(* Inside continueHandoff, past its check of the captured state.           *)
Working  == {"registering", "aligning", "offering", "continuing"}
Captures == Working \cup {"noting", "accepting"}

-----------------------------------------------------------------------------
(* The inductive invariant.                                                *)

(* A revision is approved in its stage whenever it is in its status.       *)
StageFollowsStatus ==
  \A i \in DOMAIN workflow : workflow[i].status = "approved" => workflow[i].stage = "approved"

(* What a post carries from one await to the next.                         *)
Carries(o) ==
  /\ op[o].at \in Early \ {"idle"} => op[o].lease \in Leases
  /\ op[o].at \in {"delivering", "bootstrapping", "duplicate"} => op[o].bundle \in Bundles
  /\ op[o].at = "duplicate" => <<op[o].lease, op[o].bundle>> \in delivered

PostsCarry == \A o \in Actors : Carries(o)

(* A handoff state tells the truth about the past, whichever copy of it    *)
(* one looks at: the chat's own or one that was captured before an await.  *)
Truthful(st) ==
  /\ st \in HandoffStates
  /\ ~st.confirm => st.bundle \in accepted
  /\ ~st.waiting => st.bundle \in finished
  /\ <<st.lease, st.bundle>> \in delivered
  /\ st.receipt <= receipts

StatesTruthful ==
  /\ handoff # None => Truthful(handoff)
  /\ \A o \in Actors :
       /\ op[o].at \in Captures => Truthful(op[o].state)
       /\ op[o].at \in Working => ~op[o].state.confirm /\ ~op[o].state.waiting
       /\ op[o].at \in {"offering", "continuing"} => op[o].item \in Items

(* A receipt was written by a post of its own.                             *)
Decided == {p \in Posts : op[p].at \notin Early}
ReceiptsHavePosts == receipts <= Cardinality(Decided)

(* An operation that will begin the continuation of receipt r once its     *)
(* audit entry is written, and whether an acceptance still would.          *)
Owing(rec) == \/ rec.at = "noting" /\ ~rec.state.confirm
              \/ rec.at = "accepting" /\ ~rec.state.waiting
Owes(rec, r)   == Owing(rec) /\ rec.state.receipt = r
Pending(r)     == {o \in Actors : Owes(op[o], r)}
Acceptable(r)  == handoff # None /\ handoff.receipt = r /\ handoff.confirm /\ ~handoff.waiting
Credit(r)      == IF Acceptable(r) THEN 1 ELSE 0

(* A report of completion is spent once: on a continuation that began, on  *)
(* one that is about to, or it waits for the acceptance.                   *)
ReportsCoverBegun ==
  \A r \in Receipts :
    /\ IsFiniteSet(Pending(r))
    /\ begun[r] + Cardinality(Pending(r)) + Credit(r) <= reports[r]
    /\ r > receipts => reports[r] = 0

(* A state that nothing holds back any more has been continued, or is      *)
(* about to be.                                                            *)
Continued(r) == begun[r] > 0 \/ Pending(r) # {}

ReadyIsContinued ==
  /\ handoff # None /\ ~handoff.confirm /\ ~handoff.waiting => Continued(handoff.receipt)
  /\ \A o \in Actors : op[o].at \in Working => Continued(op[o].state.receipt)

IInv ==
  /\ TypeOK
  /\ StageFollowsStatus
  /\ PostsCarry
  /\ StatesTruthful
  /\ ReceiptsHavePosts
  /\ ReportsCoverBegun
  /\ ReadyIsContinued
  /\ WorkFollowsHandshake

-----------------------------------------------------------------------------
(* The model's operators.                                                  *)

(* resolveOutstandingHandoffWork finds an item whenever one is left.       *)
LEMMA FirstOutstandingIs ==
  ASSUME NEW st, Outstanding(st) # {}
  PROVE  FirstOutstanding(st) \in Outstanding(st)
<1>1. Outstanding(st) \subseteq Nat
  BY DEF Outstanding, Items
<1>2. PICK i \in Outstanding(st) :
        \A j \in Outstanding(st) : ~(<<j, i>> \in OpToRel(<, Nat))
  BY <1>1, WFMin, NatLessThanWellFounded
<1>3. ASSUME NEW j \in Outstanding(st)
      PROVE  i <= j
  <2> DEFINE pair == <<j, i>>
  <2>1. pair \in Nat \X Nat /\ pair[1] = j /\ pair[2] = i
    BY <1>1
  <2>2. ~(pair \in {ss \in Nat \X Nat : ss[1] < ss[2]})
    BY <1>2 DEF OpToRel
  <2>3. ~(pair[1] < pair[2])
    BY <2>1, <2>2
  <2> QED
    BY <1>1, <2>1, <2>3
<1> QED
  BY <1>3 DEF FirstOutstanding

(* Where a step leaves the operation that takes it, and the others.        *)
Moves(o, rec) ==
  /\ op' \in [Actors -> Ops]
  /\ op'[o] = rec
  /\ \A q \in Actors \ {o} : op'[q] = op[q]

(* What Goes does to the operations.                                       *)
LEMMA GoesIs ==
  ASSUME TypeOK, NEW o \in Actors, NEW rec \in Ops, Goes(o, rec)
  PROVE  Moves(o, rec)
  BY DEF TypeOK, Goes, Moves

(* The records that operations are left with.                              *)
LEMMA RecordsAreOps ==
  /\ Idle \in Ops /\ [Idle EXCEPT !.at = "done"] \in Ops
  /\ \A st \in HandoffStates, auto \in BOOLEAN, item \in Items \cup {0}, phase \in Phases :
       Captured(st, auto, item, phase) \in Ops
<1>1. Idle \in Ops
  BY DEF Idle, Ops, Phases
<1>2. [Idle EXCEPT !.at = "done"] \in Ops
  BY <1>1 DEF Ops, Phases
<1>3. ASSUME NEW st \in HandoffStates, NEW auto \in BOOLEAN, NEW item \in Items \cup {0},
             NEW phase \in Phases
      PROVE  Captured(st, auto, item, phase) \in Ops
  BY <1>1, <1>3 DEF Ops, Captured
<1> QED
  BY <1>1, <1>2, <1>3

(* What a captured record holds.                                           *)
LEMMA CapturedIs ==
  ASSUME NEW st, NEW auto, NEW item, NEW phase
  PROVE  LET rec == Captured(st, auto, item, phase)
         IN  rec.at = phase /\ rec.state = st /\ rec.auto = auto /\ rec.item = item
  BY DEF Captured, Idle

(* The operation is over, and what it captured is dropped.                 *)
Ended(o) ==
  /\ Moves(o, op'[o])
  /\ op'[o].at = IF o \in Posts THEN "done" ELSE "idle"

(* An operation that ends is idle again, a post is done.                   *)
LEMMA EndsIs ==
  ASSUME TypeOK, NEW o \in Actors, Ends(o)
  PROVE  Ended(o)
<1>1. CASE o \in Posts
  <2>1. Moves(o, [Idle EXCEPT !.at = "done"])
    BY <1>1, RecordsAreOps, GoesIs DEF Ends
  <2> QED
    BY <1>1, <2>1 DEF Ended, Moves, Idle
<1>2. CASE o \notin Posts
  <2>1. Moves(o, Idle)
    BY <1>2, RecordsAreOps, GoesIs DEF Ends
  <2> QED
    BY <1>2, <2>1 DEF Ended, Moves, Idle
<1> QED
  BY <1>1, <1>2

(* What continueHandoff makes of a captured state up to its next await.    *)
WorksOn(o, st) ==
  /\ ~st.confirm /\ ~st.waiting
  /\ Moves(o, op'[o]) /\ op'[o].at \in Working /\ op'[o].state = st
  /\ op'[o].at \in {"offering", "continuing"} => op'[o].item \in Items
  /\ handoff' = handoff \/ \E done \in SUBSET Items : handoff' = [st EXCEPT !.continued = done]
  /\ op'[o].at = "continuing" => MatchesApproved(workflow, SpecRef) \/ op[o].at = "offering"

Proceeds(o, st) ==
  /\ UNCHANGED <<workflow, relayVars>>
  /\ \/ Ended(o) /\ UNCHANGED handoff
     \/ WorksOn(o, st)

(* Asking for an item writes the captured state back.                      *)
LEMMA RequestWorkIs ==
  ASSUME TypeOK, NEW o \in Actors, NEW st \in HandoffStates, NEW auto \in BOOLEAN,
         NEW item \in Items, ~st.confirm, ~st.waiting,
         MatchesApproved(workflow, SpecRef) \/ op[o].at = "offering",
         RequestWork(o, st, auto, item)
  PROVE  WorksOn(o, st)
<1>1. Captured(st, auto, item, "continuing") \in Ops
  BY RecordsAreOps DEF Phases
<1>2. Moves(o, Captured(st, auto, item, "continuing"))
  BY <1>1, GoesIs DEF RequestWork
<1>3. \E done \in SUBSET Items : handoff' = [st EXCEPT !.continued = done]
  <2>1. st.continued \cup {item} \in SUBSET Items
    BY DEF HandoffStates
  <2> QED
    BY <2>1 DEF RequestWork
<1>4. op'[o].at = "continuing" /\ op'[o].state = st /\ op'[o].item = item
  BY <1>2, CapturedIs DEF Moves
<1>5. Moves(o, op'[o])
  BY <1>2 DEF Moves
<1> QED
  BY <1>3, <1>4, <1>5 DEF WorksOn, Working

(* From the repo check on, under the spec of now.                          *)
LEMMA SettleIs ==
  ASSUME TypeOK, NEW o \in Actors, NEW st \in HandoffStates, NEW auto \in BOOLEAN,
         NEW item \in Items \cup {0}, ~st.confirm, ~st.waiting,
         Settle(o, st, auto, item)
  PROVE  Proceeds(o, st)
<1>1. UNCHANGED <<workflow, relayVars>>
  BY DEF Settle
<1>2. CASE Ends(o) /\ UNCHANGED handoff
  BY <1>1, <1>2, EndsIs DEF Proceeds
<1>3. CASE /\ SpecStillHolds(auto) /\ item \in Outstanding(st)
           /\ RequestWork(o, st, auto, item)
  BY <1>1, <1>3, RequestWorkIs DEF Proceeds, SpecStillHolds, Outstanding
<1>4. CASE /\ SpecStillHolds(auto) /\ Outstanding(st) # {}
           /\ RequestWork(o, st, auto, FirstOutstanding(st))
  <2>1. FirstOutstanding(st) \in Items
    BY <1>4, FirstOutstandingIs DEF Outstanding
  <2> QED
    BY <1>1, <1>4, <2>1, RequestWorkIs DEF Proceeds, SpecStillHolds
<1>5. CASE /\ Outstanding(st) # {} /\ UNCHANGED handoff
           /\ Goes(o, Captured(st, auto, FirstOutstanding(st), "offering"))
  <2>1. FirstOutstanding(st) \in Items
    BY <1>5, FirstOutstandingIs DEF Outstanding
  <2>2. Captured(st, auto, FirstOutstanding(st), "offering") \in Ops
    BY <2>1, RecordsAreOps DEF Phases
  <2>3. Moves(o, Captured(st, auto, FirstOutstanding(st), "offering"))
    BY <1>5, <2>2, GoesIs
  <2>4. WorksOn(o, st)
    BY <1>5, <2>1, <2>3, CapturedIs DEF WorksOn, Moves, Working
  <2> QED
    BY <1>1, <2>4 DEF Proceeds
<1> QED
  BY <1>2, <1>3, <1>4, <1>5 DEF Settle

(* The whole of continueHandoff up to its first await.                     *)
LEMMA ContinueHandoffIs ==
  ASSUME TypeOK, NEW o \in Actors, NEW st \in HandoffStates, NEW auto \in BOOLEAN,
         NEW item \in Items \cup {0}, ContinueHandoff(o, st, auto, item)
  PROVE  Proceeds(o, st)
<1>1. CASE st.confirm \/ st.waiting
  BY <1>1, EndsIs DEF ContinueHandoff, Proceeds
<1>2. CASE ~st.confirm /\ ~st.waiting /\ Settle(o, st, auto, item)
  BY <1>2, SettleIs
<1>3. ASSUME ~st.confirm, ~st.waiting, NEW phase \in {"registering", "aligning"},
             Goes(o, Captured(st, auto, item, phase)),
             UNCHANGED <<handoff, workflow, relayVars>>
      PROVE  Proceeds(o, st)
  <2>1. Captured(st, auto, item, phase) \in Ops
    BY RecordsAreOps DEF Phases
  <2>2. Moves(o, Captured(st, auto, item, phase))
    BY <1>3, <2>1, GoesIs
  <2>3. WorksOn(o, st)
    BY <1>3, <2>2, CapturedIs DEF WorksOn, Moves, Working
  <2> QED
    BY <1>3, <2>3 DEF Proceeds
<1> QED
  BY <1>1, <1>2, <1>3 DEF ContinueHandoff

-----------------------------------------------------------------------------
(* The steps, by what they do to the chat's handoff and to the state that  *)
(* an operation captured.                                                  *)

Untouched == UNCHANGED <<handoff, op, counters>>
Dismissed == handoff' = None /\ UNCHANGED <<op, counters>>

(* o holds no state any more, and dropped none that owed a continuation.   *)
Rests(o) ==
  /\ ~Owing(op[o]) /\ Moves(o, op'[o]) /\ op'[o].at \notin Captures
  /\ op'[o].at \in Early => op[o].at \in Early \/ o \notin Posts
  /\ Carries(o)'
  /\ UNCHANGED <<handoff, counters>>

Notes(o) ==
  /\ op[o].at \notin Captures /\ Moves(o, op'[o])
  /\ op'[o].at = "noting" /\ op'[o].state = handoff'
  /\ handoff # None /\ handoff' = Noted(handoff) /\ handoff.bundle \in finished'
  /\ Report(handoff.receipt) /\ UNCHANGED <<receipts, begun>>

Receives(o) ==
  /\ o \in Posts /\ op[o].at \in Early /\ Moves(o, op'[o]) /\ op'[o].at = "done"
  /\ \E l \in Leases, b \in Bundles, waiting \in BOOLEAN :
       /\ Receive(l, b, waiting)
       /\ <<l, b>> \in delivered'
       /\ ~waiting => b \in finished'
  /\ UNCHANGED begun

Accepts(o) ==
  /\ op[o].at \notin Captures /\ Moves(o, op'[o])
  /\ op'[o].at = "accepting" /\ op'[o].state = handoff'
  /\ handoff # None /\ handoff.confirm
  /\ handoff' = [handoff EXCEPT !.confirm = FALSE] /\ handoff.bundle \in accepted'
  /\ UNCHANGED counters

Begins(o) ==
  /\ Owing(op[o]) /\ Proceeds(o, op[o].state)
  /\ Begin(op[o].state.receipt) /\ UNCHANGED <<receipts, reports>>

GoesOn(o) ==
  /\ \/ op[o].at \in Working /\ Proceeds(o, op[o].state)
     \/ op[o].at \notin Captures /\ handoff # None /\ Proceeds(o, handoff)
  /\ UNCHANGED counters

(* History is only added to, and work is that of an operation.             *)
Grows ==
  /\ accepted \subseteq accepted' /\ delivered \subseteq delivered'
  /\ finished \subseteq finished'
  /\ \/ UNCHANGED started
     \/ \E o \in Actors :
          /\ op[o].at = "continuing"
          /\ started' = started \cup {<<op[o].state.bundle, op[o].item>>}

StepOf(o) ==
  Rests(o) \/ Notes(o) \/ Receives(o) \/ Accepts(o) \/ Begins(o) \/ GoesOn(o)

(* An operation that owed no continuation may end.                         *)
LEMMA EndedRests ==
  ASSUME TypeOK, NEW o \in Actors, ~Owing(op[o]), Ends(o), UNCHANGED <<handoff, counters>>
  PROVE  Rests(o)
<1>1. Ended(o)
  BY EndsIs
<1>2. Moves(o, op'[o]) /\ op'[o].at \in {"done", "idle"} /\ (op'[o].at = "idle" => o \notin Posts)
  BY <1>1 DEF Ended
<1>3. Carries(o)'
  BY <1>2 DEF Carries, Early
<1>4. op'[o].at \in Early => op[o].at \in Early \/ o \notin Posts
  BY <1>2 DEF Early
<1> QED
  BY <1>2, <1>3, <1>4 DEF Rests, Captures, Working

(* noteExternalCompletion up to its audit entry.                           *)
LEMMA NoteCompletionIs ==
  ASSUME TypeOK, NEW o \in Actors, op[o].at \notin Captures, handoff # None,
         NoteCompletion(o), handoff.bundle \in finished', UNCHANGED <<receipts, begun>>
  PROVE  Notes(o)
<1>1. handoff \in HandoffStates
  BY DEF TypeOK
<1>2. Noted(handoff) \in HandoffStates
  BY <1>1 DEF Noted, HandoffStates
<1>3. Captured(Noted(handoff), TRUE, 0, "noting") \in Ops
  BY <1>2, RecordsAreOps DEF Phases
<1>4. Moves(o, Captured(Noted(handoff), TRUE, 0, "noting"))
  BY <1>3, GoesIs DEF NoteCompletion
<1>5. Moves(o, op'[o]) /\ op'[o].at = "noting" /\ op'[o].state = Noted(handoff)
  BY <1>4 DEF Moves, Captured, Idle
<1> QED
  BY <1>5 DEF NoteCompletion, Notes

(* An ingest is refused, notes a completion, or receives a bundle.         *)
LEMMA IngestIs ==
  ASSUME TypeOK, NEW p \in Posts, op[p].at \in Early, NEW l \in Leases, NEW b \in Bundles,
         NEW latest \in BOOLEAN, Ingest(p, l, b, latest), UNCHANGED begun
  PROVE  /\ Rests(p) \/ Notes(p) \/ Receives(p)
         /\ delivered' \in SUBSET (Leases \X Bundles) /\ finished' \in SUBSET Bundles
         /\ delivered \subseteq delivered' /\ finished \subseteq finished'
<1>1. p \in Actors /\ op[p].at \notin Captures /\ ~Owing(op[p])
  BY DEF Actors, Early, Captures, Working, Owing
<1>2. CASE /\ Ends(p)
           /\ UNCHANGED <<handoff, receipts, reports, delivered, finished>>
  BY <1>1, <1>2, EndedRests DEF counters, TypeOK
<1>3. CASE /\ delivered' = delivered \cup {<<l, b>>}
           /\ finished' = IF latest \/ l \in completions THEN finished \cup {b} ELSE finished
           /\ \/ /\ Duplicate(b) /\ latest
                 /\ NoteCompletion(p)
                 /\ UNCHANGED receipts
              \/ /\ Duplicate(b) /\ ~latest
                 /\ Goes(p, [Idle EXCEPT !.at = "duplicate", !.lease = l, !.bundle = b])
                 /\ UNCHANGED <<handoff, receipts, reports>>
              \/ /\ ~Duplicate(b)
                 /\ Receive(l, b, ~latest)
                 /\ Ends(p)
  <2>1. /\ delivered' \in SUBSET (Leases \X Bundles) /\ finished' \in SUBSET Bundles
        /\ delivered \subseteq delivered' /\ finished \subseteq finished'
        /\ <<l, b>> \in delivered' /\ (latest => b \in finished')
    BY <1>3 DEF TypeOK
  <2>2. CASE Duplicate(b) /\ latest /\ NoteCompletion(p) /\ UNCHANGED receipts
    <3>1. handoff # None /\ handoff.bundle = b
      BY <2>2 DEF Duplicate
    <3> QED
      BY <1>1, <2>1, <2>2, <3>1, NoteCompletionIs
  <2>3. CASE /\ Goes(p, [Idle EXCEPT !.at = "duplicate", !.lease = l, !.bundle = b])
             /\ UNCHANGED <<handoff, receipts, reports>>
    <3> DEFINE rec == [Idle EXCEPT !.at = "duplicate", !.lease = l, !.bundle = b]
    <3>1. rec \in Ops /\ rec.at = "duplicate" /\ rec.lease = l /\ rec.bundle = b
      <4>1. rec \in Ops
        BY RecordsAreOps DEF Ops, Phases
      <4> QED
        BY <4>1 DEF Idle
    <3>2. Moves(p, rec)
      BY <1>1, <2>3, <3>1, GoesIs
    <3>3. Moves(p, op'[p]) /\ op'[p] = rec
      BY <3>2 DEF Moves
    <3>4. Carries(p)'
      BY <2>1, <3>1, <3>3 DEF Carries
    <3>5. Rests(p)
      BY <1>1, <2>3, <3>1, <3>3, <3>4 DEF Rests, counters, Captures, Working
    <3> QED
      BY <2>1, <3>5
  <2>4. CASE Receive(l, b, ~latest) /\ Ends(p)
    <3>1. Moves(p, op'[p]) /\ op'[p].at = "done"
      BY <1>1, <2>4, EndsIs DEF Ended
    <3>2. Receives(p)
      BY <2>1, <2>4, <3>1 DEF Receives
    <3> QED
      BY <2>1, <3>2
  <2> QED
    BY <1>3, <2>2, <2>3, <2>4
<1> QED
  BY <1>2, <1>3 DEF Ingest

(* Every step is one of these, and adds to the history only.               *)
LEMMA StepKinds ==
  ASSUME IInv, Next
  PROVE  Grows /\ (Untouched \/ Dismissed \/ \E o \in Actors : StepOf(o))
<1> USE DEF IInv
<1>1. CASE \/ SpecDraft \/ SpecClarify \/ SpecClear \/ \E force \in BOOLEAN : SpecApprove(force)
           \/ Bind \/ RevokeLease \/ LeaseExpires \/ DropLapsed
  BY <1>1 DEF SpecDraft, SpecClarify, SpecClear, SpecApprove, Bind, RevokeLease, LeaseExpires,
              DropLapsed, SpecUnchanged, history, Untouched, Grows, counters
<1>2. ASSUME NEW p \in Posts, NEW rec \in Ops, Open(p), Goes(p, rec),
             UNCHANGED <<handoff, history>>,
             rec.at \in {"reporting", "delivering"}, rec.lease \in Leases,
             rec.at = "delivering" => rec.bundle \in Bundles
      PROVE  Rests(p) /\ Grows
  <2>1. p \in Actors /\ op[p].at = "idle"
    BY <1>2 DEF Open, At, Actors
  <2>2. Moves(p, rec)
    BY <1>2, <2>1, GoesIs
  <2>3. Moves(p, op'[p]) /\ op'[p] = rec
    BY <2>2 DEF Moves
  <2>4. Carries(p)'
    BY <1>2, <2>3 DEF Carries
  <2> QED
    BY <1>2, <2>1, <2>3, <2>4
    DEF Rests, Grows, history, counters, Owing, Captures, Working, Early
<1>3. ASSUME NEW p \in Posts, PostCompletion(p)
      PROVE  Rests(p) /\ Grows
  <2> DEFINE rec == [Idle EXCEPT !.at = "reporting", !.lease = lease]
  <2>1. lease \in Leases
    BY <1>3 DEF PostCompletion, Open, TypeOK
  <2>2. rec \in Ops
    BY <2>1, RecordsAreOps DEF Ops, Phases
  <2>3. rec.at = "reporting" /\ rec.lease = lease
    BY DEF Idle
  <2> QED
    BY <1>2, <1>3, <2>1, <2>2, <2>3 DEF PostCompletion
<1>4. ASSUME NEW p \in Posts, NEW b \in Bundles, PostHandoff(p, b)
      PROVE  Rests(p) /\ Grows
  <2> DEFINE rec == [Idle EXCEPT !.at = "delivering", !.lease = lease, !.bundle = b]
  <2>1. lease \in Leases
    BY <1>4 DEF PostHandoff, Open, TypeOK
  <2>2. rec \in Ops
    BY <2>1, RecordsAreOps DEF Ops, Phases
  <2>3. rec.at = "delivering" /\ rec.lease = lease /\ rec.bundle = b
    BY DEF Idle
  <2> QED
    BY <1>2, <1>4, <2>1, <2>2, <2>3 DEF PostHandoff
<1>5. ASSUME NEW p \in Posts, CompletionApplied(p)
      PROVE  (Rests(p) \/ Notes(p)) /\ Grows
  <2>1. p \in Actors /\ op[p].at = "reporting"
    BY <1>5 DEF CompletionApplied, At, Actors
  <2>2. op[p].at \notin Captures /\ ~Owing(op[p])
    BY <2>1 DEF Captures, Working, Owing
  <2>3. Grows
    BY <1>5 DEF CompletionApplied, Grows
  <2>4. CASE handoff # None /\ handoff.lease = op[p].lease /\ NoteCompletion(p)
    <3>1. <<handoff.lease, handoff.bundle>> \in delivered /\ handoff.bundle \in Bundles
      BY <2>4 DEF StatesTruthful, Truthful, TypeOK, HandoffStates
    <3>2. handoff.bundle \in finished'
      BY <1>5, <2>4, <3>1 DEF CompletionApplied
    <3> QED
      BY <1>5, <2>1, <2>2, <2>3, <2>4, <3>2, NoteCompletionIs DEF CompletionApplied
  <2>5. CASE Ends(p) /\ UNCHANGED <<handoff, reports>>
    <3>1. UNCHANGED <<handoff, counters>>
      BY <1>5, <2>5 DEF CompletionApplied, counters
    <3> QED
      BY <2>1, <2>2, <2>3, <2>5, <3>1, EndedRests
  <2> QED
    BY <1>5, <2>4, <2>5 DEF CompletionApplied
<1>6. ASSUME NEW p \in Posts, HandoffApplied(p)
      PROVE  (Rests(p) \/ Notes(p) \/ Receives(p)) /\ Grows
  <2> DEFINE latest == op[p].lease \in completions
             rec == [op[p] EXCEPT !.at = "bootstrapping", !.latest = latest]
  <2>1. /\ p \in Actors /\ op[p].at = "delivering" /\ op[p].at \in Early
        /\ op[p].lease \in Leases /\ op[p].bundle \in Bundles /\ op[p] \in Ops
    <3>1. p \in Actors /\ op[p].at = "delivering" /\ op[p].at \in Early
      BY <1>6 DEF HandoffApplied, At, Actors, Early
    <3> QED
      BY <3>1 DEF PostsCarry, Carries, Early, TypeOK
  <2>7. latest \in BOOLEAN
    OBVIOUS
  <2>2. CASE /\ Goes(p, rec)
             /\ UNCHANGED <<handoff, receipts, reports, delivered, finished>>
    <3>1. rec \in Ops /\ rec.at = "bootstrapping" /\ rec.lease = op[p].lease
          /\ rec.bundle = op[p].bundle
      <4> HIDE DEF latest
      <4>1. rec \in Ops
        BY <2>1, <2>7 DEF Ops, Phases
      <4> QED
        BY <2>1, <2>7, <4>1 DEF Ops
    <3>2. Moves(p, rec)
      BY <2>1, <2>2, <3>1, GoesIs
    <3>3. Moves(p, op'[p]) /\ op'[p] = rec
      BY <3>2 DEF Moves
    <3>4. Carries(p)'
      BY <2>1, <3>1, <3>3 DEF Carries
    <3>5. ~Owing(op[p]) /\ op'[p].at \notin Captures
      BY <2>1, <3>1, <3>3 DEF Owing, Captures, Working
    <3> QED
      BY <1>6, <2>1, <2>2, <3>3, <3>4, <3>5 DEF HandoffApplied, Rests, Grows, counters
  <2>3. CASE Ingest(p, op[p].lease, op[p].bundle, latest)
    <3>1. UNCHANGED <<begun, accepted, started>>
      BY <1>6 DEF HandoffApplied
    <3> QED
      BY <2>1, <2>3, <2>7, <3>1, IngestIs DEF Grows
  <2> QED
    BY <1>6, <2>2, <2>3 DEF HandoffApplied
<1>7. ASSUME NEW p \in Posts, SpecBootstrapped(p)
      PROVE  (Rests(p) \/ Notes(p) \/ Receives(p)) /\ Grows
  <2>1. /\ op[p].at \in Early /\ op[p].lease \in Leases /\ op[p].bundle \in Bundles
        /\ op[p].latest \in BOOLEAN
    <3>1. p \in Actors /\ op[p].at = "bootstrapping"
      BY <1>7 DEF SpecBootstrapped, At, Actors
    <3> QED
      BY <3>1 DEF PostsCarry, Carries, Early, TypeOK, Ops
  <2>2. Ingest(p, op[p].lease, op[p].bundle, op[p].latest) /\ UNCHANGED <<begun, accepted, started>>
    BY <1>7 DEF SpecBootstrapped
  <2> QED
    BY <2>1, <2>2, IngestIs DEF Grows
<1>8. ASSUME NEW p \in Posts, DuplicateLogged(p)
      PROVE  (Rests(p) \/ Receives(p)) /\ Grows
  <2>1. p \in Actors /\ op[p].at = "duplicate" /\ Ends(p)
    BY <1>8 DEF DuplicateLogged, At, Actors
  <2>2. /\ op[p].lease \in Leases /\ op[p].bundle \in Bundles
        /\ <<op[p].lease, op[p].bundle>> \in delivered
    BY <2>1 DEF PostsCarry, Carries, Early
  <2>3. op[p].at \in Early /\ ~Owing(op[p])
    BY <2>1 DEF Early, Owing
  <2>4. Grows /\ delivered' = delivered
    BY <1>8 DEF DuplicateLogged, Grows
  <2>5. CASE /\ Receive(op[p].lease, op[p].bundle, FALSE)
             /\ finished' = finished \cup {op[p].bundle}
    <3>1. Moves(p, op'[p]) /\ op'[p].at = "done"
      BY <2>1, EndsIs DEF Ended
    <3> QED
      BY <1>8, <2>2, <2>3, <2>4, <2>5, <3>1 DEF DuplicateLogged, Receives
  <2>6. CASE UNCHANGED <<handoff, receipts, reports, finished>>
    <3>1. UNCHANGED <<handoff, counters>>
      BY <1>8, <2>6 DEF DuplicateLogged, counters
    <3> QED
      BY <2>1, <2>3, <2>4, <3>1, EndedRests
  <2> QED
    BY <1>8, <2>5, <2>6 DEF DuplicateLogged
<1>9. ASSUME NEW o \in Actors, CompletionLogged(o)
      PROVE  (Rests(o) \/ Begins(o)) /\ Grows
  <2>1. op[o].at = "noting" /\ op[o].state \in HandoffStates
    BY <1>9 DEF CompletionLogged, At, StatesTruthful, Truthful, Captures
  <2>2. Grows /\ UNCHANGED <<receipts, reports>>
    BY <1>9 DEF CompletionLogged, Grows
  <2>3. CASE op[o].state.confirm
    <3>1. Ends(o) /\ UNCHANGED <<handoff, counters>>
      BY <1>9, <2>2, <2>3 DEF CompletionLogged, NotedTooEarly, counters
    <3>2. ~Owing(op[o])
      BY <2>1, <2>3 DEF Owing
    <3> QED
      BY <2>2, <3>1, <3>2, EndedRests
  <2>4. CASE ~op[o].state.confirm
    <3>1. Begin(op[o].state.receipt) /\ ContinueHandoff(o, op[o].state, TRUE, 0)
      BY <1>9, <2>4 DEF CompletionLogged, NotedTooEarly
    <3>2. Proceeds(o, op[o].state)
      BY <2>1, <3>1, ContinueHandoffIs
    <3> QED
      BY <2>1, <2>2, <2>4, <3>1, <3>2 DEF Begins, Owing
  <2> QED
    BY <2>3, <2>4
<1>10. ASSUME NEW c \in Channels, Accept(c)
       PROVE  Accepts(c) /\ Grows
  <2> DEFINE st == [handoff EXCEPT !.confirm = FALSE]
             rec == Captured(st, TRUE, 0, "accepting")
  <2>1. c \in Actors /\ op[c].at = "idle" /\ handoff # None /\ handoff.confirm
    BY <1>10 DEF Accept, At, Actors
  <2>2. st \in HandoffStates
    BY <2>1 DEF TypeOK, HandoffStates
  <2>3. rec \in Ops
    BY <2>2, RecordsAreOps DEF Phases
  <2>4. Goes(c, rec) /\ handoff' = st
    BY <1>10 DEF Accept
  <2>5. Moves(c, rec)
    BY <2>1, <2>3, <2>4, GoesIs
  <2>6. Moves(c, op'[c]) /\ op'[c].at = "accepting" /\ op'[c].state = st
    BY <2>5 DEF Moves, Captured, Idle
  <2>7. op[c].at \notin Captures
    BY <2>1 DEF Captures, Working
  <2> QED
    BY <1>10, <2>1, <2>4, <2>6, <2>7 DEF Accept, Accepts, Grows
<1>11. ASSUME NEW c \in Channels, AcceptanceLogged(c)
       PROVE  (Rests(c) \/ Begins(c)) /\ Grows
  <2>1. c \in Actors /\ op[c].at = "accepting" /\ op[c].state \in HandoffStates
    BY <1>11 DEF AcceptanceLogged, At, Actors, StatesTruthful, Truthful, Captures
  <2>2. Grows /\ UNCHANGED <<receipts, reports>>
    BY <1>11 DEF AcceptanceLogged, Grows
  <2>3. CASE op[c].state.waiting
    <3>1. Ends(c) /\ UNCHANGED <<handoff, counters>>
      BY <1>11, <2>2, <2>3 DEF AcceptanceLogged, StillWaiting, counters
    <3>2. ~Owing(op[c])
      BY <2>1, <2>3 DEF Owing
    <3> QED
      BY <2>1, <2>2, <3>1, <3>2, EndedRests
  <2>4. CASE ~op[c].state.waiting
    <3>1. Begin(op[c].state.receipt) /\ ContinueHandoff(c, op[c].state, TRUE, 0)
      BY <1>11, <2>4 DEF AcceptanceLogged, StillWaiting
    <3>2. Proceeds(c, op[c].state)
      BY <2>1, <3>1, ContinueHandoffIs
    <3> QED
      BY <2>1, <2>2, <2>4, <3>1, <3>2 DEF Begins, Owing
  <2> QED
    BY <2>3, <2>4
<1>12. ASSUME NEW c \in Channels, Dismiss(c)
       PROVE  Dismissed /\ Grows
  BY <1>12 DEF Dismiss, Dismissed, Grows, history, counters
<1>13. ASSUME NEW c \in Channels, NEW i \in Items \cup {0}, Continue(c, i)
       PROVE  GoesOn(c) /\ Grows
  <2>1. c \in Actors /\ op[c].at = "idle" /\ handoff # None /\ handoff \in HandoffStates
    BY <1>13 DEF Continue, At, Actors, TypeOK
  <2>2. Proceeds(c, handoff)
    BY <1>13, <2>1, ContinueHandoffIs DEF Continue
  <2>3. op[c].at \notin Captures
    BY <2>1 DEF Captures, Working
  <2> QED
    BY <1>13, <2>1, <2>2, <2>3 DEF Continue, GoesOn, Grows, history
<1>14. ASSUME NEW o \in Actors, op[o].at \in Working
       PROVE  /\ op[o].state \in HandoffStates /\ ~op[o].state.confirm /\ ~op[o].state.waiting
              /\ op[o] \in Ops /\ op[o].auto \in BOOLEAN /\ op[o].item \in Items \cup {0}
              /\ op[o].at \in {"offering", "continuing"} => op[o].item \in Items
              /\ op[o].at \in Captures /\ ~Owing(op[o])
  BY <1>14 DEF StatesTruthful, Truthful, Captures, Working, Owing, TypeOK, Ops
<1>15. ASSUME NEW o \in Actors, RepoRegistered(o)
       PROVE  (Rests(o) \/ GoesOn(o)) /\ Grows
  <2>1. op[o].at = "registering" /\ op[o].at \in Working
    BY <1>15 DEF RepoRegistered, At, Working
  <2>2. Grows /\ UNCHANGED counters
    BY <1>15 DEF RepoRegistered, Grows, history
  <2>3. CASE Ends(o) /\ UNCHANGED handoff
    BY <1>14, <2>1, <2>2, <2>3, EndedRests
  <2>4. CASE handoff' = op[o].state /\ Goes(o, [op[o] EXCEPT !.at = "aligning"])
    <3> DEFINE rec == [op[o] EXCEPT !.at = "aligning"]
               st == op[o].state
    <3>1. rec \in Ops /\ rec.at = "aligning" /\ rec.state = st
      BY <1>14, <2>1 DEF Ops, Phases
    <3>2. Moves(o, rec)
      BY <2>4, <3>1, GoesIs
    <3>3. Moves(o, op'[o]) /\ op'[o] = rec
      BY <3>2 DEF Moves
    <3>4. \E done \in SUBSET Items : handoff' = [st EXCEPT !.continued = done]
      <4>1. st \in HandoffStates
        BY <1>14, <2>1
      <4>2. st.continued \in SUBSET Items /\ st = [st EXCEPT !.continued = st.continued]
        BY <4>1 DEF HandoffStates
      <4> QED
        BY <2>4, <4>2
    <3>5. WorksOn(o, st)
      BY <1>14, <2>1, <3>1, <3>3, <3>4 DEF WorksOn, Working
    <3> QED
      BY <1>15, <2>1, <2>2, <3>5 DEF RepoRegistered, GoesOn, Proceeds
  <2> QED
    BY <1>15, <2>3, <2>4 DEF RepoRegistered
<1>16. ASSUME NEW o \in Actors, RepoAligned(o)
       PROVE  GoesOn(o) /\ Grows
  <2>1. op[o].at \in Working /\ Settle(o, op[o].state, op[o].auto, op[o].item)
    BY <1>16 DEF RepoAligned, At, Working
  <2>2. Proceeds(o, op[o].state)
    BY <1>14, <2>1, SettleIs
  <2> QED
    BY <1>16, <2>1, <2>2 DEF RepoAligned, GoesOn, Grows, history
<1>17. ASSUME NEW o \in Actors, ChoiceShown(o)
       PROVE  GoesOn(o) /\ Grows
  <2>1. /\ op[o].at = "offering" /\ op[o].at \in Working
        /\ RequestWork(o, op[o].state, op[o].auto, op[o].item)
    BY <1>17 DEF ChoiceShown, At, Working
  <2>2. WorksOn(o, op[o].state)
    BY <1>14, <2>1, RequestWorkIs
  <2> QED
    BY <1>17, <2>1, <2>2 DEF ChoiceShown, GoesOn, Proceeds, Grows, history
<1>18. ASSUME NEW o \in Actors, WorkRequested(o)
       PROVE  Rests(o) /\ Grows
  <2>1. op[o].at = "continuing" /\ op[o].at \in Working
    BY <1>18 DEF WorkRequested, At, Working
  <2> QED
    BY <1>14, <1>18, <2>1, EndedRests DEF WorkRequested, Grows
<1> QED
  BY <1>1, <1>3, <1>4, <1>5, <1>6, <1>7, <1>8, <1>9, <1>10, <1>11, <1>12, <1>13, <1>15, <1>16,
     <1>17, <1>18 DEF Next, StepOf, Actors

-----------------------------------------------------------------------------
(* The workflow of the chat.                                               *)

Sound(w) ==
  /\ w \in Seq(Revisions)
  /\ \A i \in DOMAIN w : w[i].status = "approved" => w[i].stage = "approved"

Keeps(w, next) ==
  \A i \in DOMAIN w : w[i].status = "approved" => i \in DOMAIN next /\ next[i] = w[i]

(* The current revision of a workflow that has one.                        *)
LEMMA CurrentIs ==
  ASSUME NEW w, Sound(w), w # NoWorkflow
  PROVE  Len(w) \in Nat \ {0} /\ DOMAIN w = 1..Len(w) /\ GetCurrentRevision(w) \in Revisions
<1>1. w \in Seq(Revisions) /\ w # << >>
  BY DEF Sound, NoWorkflow
<1>2. Len(w) \in Nat \ {0} /\ DOMAIN w = 1..Len(w)
  BY <1>1
<1> QED
  BY <1>1, <1>2 DEF GetCurrentRevision

(* A further revision leaves the earlier ones alone.                       *)
LEMMA AppendIsSound ==
  ASSUME NEW w, Sound(w), NEW r \in Revisions, r.status = "approved" => r.stage = "approved"
  PROVE  Sound(Append(w, r)) /\ Keeps(w, Append(w, r))
<1>1. w \in Seq(Revisions) /\ DOMAIN w = 1..Len(w) /\ Len(w) \in Nat
  BY DEF Sound
<1>2. /\ Append(w, r) \in Seq(Revisions)
      /\ DOMAIN Append(w, r) = 1..(Len(w) + 1)
      /\ \A i \in 1..Len(w) : Append(w, r)[i] = w[i]
      /\ Append(w, r)[Len(w) + 1] = r
  BY <1>1
<1>3. ASSUME NEW i \in 1..(Len(w) + 1)
      PROVE  i \in 1..Len(w) \/ i = Len(w) + 1
  BY <1>1
<1> QED
  BY <1>1, <1>2, <1>3 DEF Sound, Keeps

(* createInitialWorkflow                                                   *)
LEMMA InitialIsSound ==
  Sound(CreateInitialWorkflow) /\ CreateInitialWorkflow # NoWorkflow
<1> DEFINE raw == [version |-> 0, stage |-> "raw", status |-> "draft",
                   empty |-> Sections \ {"REQUEST", "ASSUMPTIONS", "QUESTIONS"}]
           first == [version |-> 1, stage |-> "interpreted", status |-> "draft", empty |-> {}]
<1>1. raw \in Revisions /\ first \in Revisions
  BY DEF Revisions
<1>2. raw.status = "draft" /\ first.status = "draft"
  OBVIOUS
<1> HIDE DEF raw, first
<1>3. CreateInitialWorkflow = <<raw, first>>
  BY DEF CreateInitialWorkflow, raw, first
<1>4. <<raw, first>> \in Seq(Revisions) /\ Len(<<raw, first>>) = 2
  BY <1>1
<1>5. \A i \in DOMAIN <<raw, first>> : <<raw, first>>[i] \in {raw, first}
  OBVIOUS
<1> QED
  BY <1>2, <1>3, <1>4, <1>5 DEF Sound, NoWorkflow

(* addClarification                                                        *)
LEMMA ClarificationIsSound ==
  ASSUME NEW w, Sound(w), w # NoWorkflow
  PROVE  Sound(AddClarification(w)) /\ Keeps(w, AddClarification(w))
<1> DEFINE cur == GetCurrentRevision(w)
           empty == (cur.empty \ {"CONTEXT"}) \cup {"ASSUMPTIONS", "QUESTIONS"}
           version == cur.version + 1
           later == [cur EXCEPT !.version = version, !.stage = "clarified"]
           r == [later EXCEPT !.status = "draft", !.empty = empty]
<1>1. cur \in Revisions
  BY CurrentIs
<1> HIDE DEF cur
<1>2. r \in Revisions /\ r.status = "draft"
  <2>1. empty \in SUBSET Sections
    BY <1>1 DEF Revisions, Sections
  <2>2. version \in Nat
    BY <1>1 DEF Revisions
  <2> HIDE DEF empty, version
  <2>3. later \in Revisions
    BY <1>1, <2>2 DEF Revisions
  <2> HIDE DEF later
  <2> QED
    BY <2>1, <2>3 DEF Revisions
<1>3. AddClarification(w) = Append(w, r)
  BY DEF AddClarification, NextRevision, cur
<1> HIDE DEF r
<1> QED
  BY <1>2, <1>3, AppendIsSound

(* approveCurrentRevision                                                  *)
LEMMA ApprovalIsSound ==
  ASSUME NEW w, Sound(w), w # NoWorkflow
  PROVE  /\ Sound(ApproveCurrentRevision(w)) /\ Keeps(w, ApproveCurrentRevision(w))
         /\ ApproveCurrentRevision(w) # NoWorkflow
         /\ GetCurrentRevision(ApproveCurrentRevision(w)).status = "approved"
         /\ GetCurrentRevision(ApproveCurrentRevision(w)).stage = "approved"
<1> DEFINE n == Len(w)
           r == [w[n] EXCEPT !.stage = "approved", !.status = "approved"]
           next == [w EXCEPT ![n] = r]
<1>1. n \in Nat \ {0} /\ DOMAIN w = 1..n /\ w[n] \in Revisions /\ w \in Seq(Revisions)
  BY CurrentIs DEF GetCurrentRevision, Sound
<1> HIDE DEF n
<1>2. r \in Revisions /\ r.status = "approved" /\ r.stage = "approved"
  BY <1>1 DEF Revisions
<1>3. w[n].status = "approved" => r = w[n]
  <2> SUFFICES ASSUME w[n].status = "approved"
               PROVE  r = w[n]
    OBVIOUS
  <2>1. w[n].stage = "approved"
    BY <1>1 DEF Sound
  <2> QED
    BY <1>1, <2>1 DEF Revisions
<1>4. ApproveCurrentRevision(w) = next
  BY DEF ApproveCurrentRevision, n
<1> HIDE DEF r
<1>5. next \in Seq(Revisions) /\ DOMAIN next = 1..n /\ Len(next) = n
  BY <1>1, <1>2 DEF n
<1>6. next[n] = r /\ \A i \in (1..n) \ {n} : next[i] = w[i]
  BY <1>1
<1> HIDE DEF next
<1>7. Sound(next) /\ Keeps(w, next)
  BY <1>1, <1>2, <1>3, <1>5, <1>6 DEF Sound, Keeps
<1> QED
  BY <1>1, <1>2, <1>4, <1>5, <1>6, <1>7 DEF GetCurrentRevision, NoWorkflow

(* The workflow an ingest makes for a chat without one.                    *)
LEMMA BootstrapIsSound == Sound(BootstrappedWorkflow(SpecRef))
<1> DEFINE first == ApproveCurrentRevision(CreateInitialWorkflow)
           r == [GetCurrentRevision(first) EXCEPT !.version = SpecRef]
<1>1. /\ Sound(first) /\ first # NoWorkflow
      /\ GetCurrentRevision(first).status = "approved"
      /\ GetCurrentRevision(first).stage = "approved"
  BY InitialIsSound, ApprovalIsSound
<1>2. GetCurrentRevision(first) \in Revisions
  BY <1>1, CurrentIs
<1> HIDE DEF first
<1>3. r \in Revisions /\ (r.status = "approved" => r.stage = "approved")
  BY <1>1, <1>2, BoundsAreCounts DEF Revisions
<1> HIDE DEF r
<1>4. Sound(Append(first, r))
  BY <1>1, <1>3, AppendIsSound
<1> QED
  BY <1>1, <1>4 DEF BootstrappedWorkflow, first, r

(* /spec draft and /spec clear apart, a step keeps what was approved.      *)
LEMMA WorkflowStep ==
  ASSUME TypeOK, StageFollowsStatus, Next
  PROVE  /\ Sound(workflow')
         /\ workflow' \in {NoWorkflow, CreateInitialWorkflow} \/ Keeps(workflow, workflow')
<1>1. Sound(workflow)
  BY DEF TypeOK, StageFollowsStatus, Sound
<1>2. Keeps(workflow, workflow)
  BY DEF Keeps
<1>3. CASE SpecDraft
  BY <1>3, InitialIsSound DEF SpecDraft
<1>4. CASE SpecClarify
  BY <1>1, <1>4, ClarificationIsSound DEF SpecClarify
<1>5. CASE \E force \in BOOLEAN : SpecApprove(force)
  BY <1>1, <1>5, ApprovalIsSound DEF SpecApprove
<1>6. CASE SpecClear
  BY <1>6 DEF SpecClear, NoWorkflow, Sound
<1>7. ASSUME NEW p \in Posts, HandoffApplied(p)
      PROVE  Sound(workflow') /\ Keeps(workflow, workflow')
  <2>1. CASE UNCHANGED workflow
    BY <1>1, <1>2, <2>1
  <2>2. CASE workflow = NoWorkflow /\ workflow' = BootstrappedWorkflow(SpecRef)
    BY <2>2, BootstrapIsSound DEF NoWorkflow, Keeps
  <2> QED
    BY <1>7, <2>1, <2>2 DEF HandoffApplied
<1>8. ASSUME UNCHANGED workflow
      PROVE  Sound(workflow') /\ Keeps(workflow, workflow')
  BY <1>1, <1>2, <1>8
<1>9. ASSUME NEW o \in Actors, NEW st, NEW auto, NEW item, ContinueHandoff(o, st, auto, item)
      PROVE  UNCHANGED workflow
  BY <1>9 DEF ContinueHandoff, Settle
<1>10. ASSUME NEW o \in Actors, CompletionLogged(o)
       PROVE  UNCHANGED workflow
  BY <1>9, <1>10 DEF CompletionLogged
<1>11. ASSUME NEW c \in Channels, AcceptanceLogged(c)
       PROVE  UNCHANGED workflow
  BY <1>9, <1>11 DEF AcceptanceLogged, Actors
<1>12. ASSUME NEW c \in Channels, NEW i \in Items \cup {0}, Continue(c, i)
       PROVE  UNCHANGED workflow
  BY <1>9, <1>12 DEF Continue, Actors
<1>13. ASSUME NEW o \in Actors, RepoAligned(o)
       PROVE  UNCHANGED workflow
  BY <1>13 DEF RepoAligned, Settle
<1>14. CASE \/ Bind \/ RevokeLease \/ LeaseExpires \/ DropLapsed
            \/ \E p \in Posts : PostCompletion(p)
            \/ \E p \in Posts, b \in Bundles : PostHandoff(p, b)
            \/ \E p \in Posts : CompletionApplied(p)
            \/ \E p \in Posts : SpecBootstrapped(p)
            \/ \E p \in Posts : DuplicateLogged(p)
            \/ \E c \in Channels : Accept(c)
            \/ \E c \in Channels : Dismiss(c)
            \/ \E o \in Actors : RepoRegistered(o)
            \/ \E o \in Actors : ChoiceShown(o)
            \/ \E o \in Actors : WorkRequested(o)
  <2>1. UNCHANGED workflow
    BY <1>14 DEF Bind, RevokeLease, LeaseExpires, DropLapsed, PostCompletion, PostHandoff,
       CompletionApplied, SpecBootstrapped, DuplicateLogged, Accept, Dismiss, RepoRegistered, ChoiceShown,
       WorkRequested
  <2> QED
    BY <1>8, <2>1
<1> QED
  BY <1>3, <1>4, <1>5, <1>6, <1>7, <1>8, <1>10, <1>11, <1>12, <1>13, <1>14 DEF Next

-----------------------------------------------------------------------------
(* The parts of the invariant, one after the other.                        *)

(* A step of an operation moves that operation only.                       *)
LEMMA MovesOn ==
  ASSUME IInv, NEW o \in Actors, StepOf(o)
  PROVE  /\ Moves(o, op'[o])
         /\ o \in Posts /\ op[o].at \notin Early => op'[o].at \notin Early
<1>1. CASE Rests(o)
  BY <1>1 DEF Rests
<1>2. CASE Notes(o) \/ Accepts(o)
  BY <1>2 DEF Notes, Accepts, Early
<1>3. CASE Receives(o)
  BY <1>3 DEF Receives
<1>4. ASSUME NEW st, Proceeds(o, st)
      PROVE  /\ Moves(o, op'[o])
             /\ o \in Posts => op'[o].at \notin Early
  BY <1>4 DEF Proceeds, Ended, WorksOn, Working, Early
<1>5. CASE Begins(o) \/ GoesOn(o)
  BY <1>4, <1>5 DEF Begins, GoesOn
<1> QED
  BY <1>1, <1>2, <1>3, <1>5 DEF StepOf

(* Every receipt has room: the post that writes it had decided nothing.    *)
LEMMA ReceiptsStep ==
  ASSUME IInv, Untouched \/ Dismissed \/ \E o \in Actors : StepOf(o)
  PROVE  /\ ReceiptsHavePosts' /\ receipts' \in 0..Cardinality(Posts)
         /\ \A o \in Actors : Receives(o) => receipts + 1 \in Receipts
<1> USE DEF IInv
<1>1. IsFiniteSet(Posts) /\ Cardinality(Posts) \in Nat /\ receipts \in Nat
  BY ActorsAreDistinct, FS_CardinalityType DEF TypeOK
<1>2. /\ Decided \subseteq Posts /\ Decided' \subseteq Posts
      /\ IsFiniteSet(Decided) /\ IsFiniteSet(Decided')
      /\ Cardinality(Decided) \in Nat /\ Cardinality(Decided') \in Nat
      /\ Cardinality(Decided') <= Cardinality(Posts)
  <2>1. Decided \subseteq Posts /\ Decided' \subseteq Posts
    BY DEF Decided
  <2> QED
    BY <1>1, <2>1, FS_Subset, FS_CardinalityType
<1>3. ASSUME Decided \subseteq Decided', receipts' = receipts
      PROVE  ReceiptsHavePosts' /\ receipts' \in 0..Cardinality(Posts)
  <2>1. Cardinality(Decided) <= Cardinality(Decided')
    BY <1>2, <1>3, FS_Subset
  <2> QED
    BY <1>1, <1>2, <1>3, <2>1 DEF ReceiptsHavePosts
<1>4. ASSUME NEW o \in Actors, StepOf(o)
      PROVE  Decided \subseteq Decided'
  BY <1>4, MovesOn DEF Decided, Moves, Actors
<1>5. ASSUME NEW o \in Actors, Receives(o)
      PROVE  ReceiptsHavePosts' /\ receipts' \in 0..Cardinality(Posts) /\ receipts + 1 \in Receipts
  <2>1. o \in Decided' /\ o \notin Decided
    BY <1>5 DEF Receives, Decided, Early
  <2>2. Decided \cup {o} \subseteq Decided'
    BY <1>4, <1>5, <2>1 DEF StepOf
  <2>3. Cardinality(Decided \cup {o}) = Cardinality(Decided) + 1
    BY <1>2, <2>1, FS_AddElement
  <2>4. Cardinality(Decided \cup {o}) <= Cardinality(Decided')
    BY <1>2, <2>2, FS_Subset
  <2>5. receipts' = receipts + 1
    BY <1>5 DEF Receives, Receive
  <2> QED
    BY <1>1, <1>2, <2>3, <2>4, <2>5 DEF ReceiptsHavePosts, Receipts
<1>6. CASE Untouched \/ Dismissed
  <2>1. Decided \subseteq Decided' /\ receipts' = receipts
    BY <1>6 DEF Untouched, Dismissed, Decided, counters
  <2> QED
    BY <1>3, <1>5, <2>1
<1>7. ASSUME NEW o \in Actors, StepOf(o), ~Receives(o)
      PROVE  receipts' = receipts
  BY <1>7 DEF StepOf, Rests, Notes, Accepts, Begins, GoesOn, counters
<1> QED
  BY <1>3, <1>4, <1>5, <1>6, <1>7

(* Whatever is written to the chat is a handoff state.                     *)
LEMMA HandoffTyped ==
  ASSUME IInv, Next
  PROVE  /\ op' \in [Actors -> Ops] /\ handoff' \in HandoffStates \cup {None}
         /\ receipts' \in 0..Cardinality(Posts)
         /\ reports' \in [Receipts -> Nat] /\ begun' \in [Receipts -> Nat]
<1> USE DEF IInv
<1>1. /\ op \in [Actors -> Ops] /\ handoff \in HandoffStates \cup {None}
      /\ reports \in [Receipts -> Nat] /\ begun \in [Receipts -> Nat]
  BY DEF TypeOK
<1>2. receipts' \in 0..Cardinality(Posts)
  BY StepKinds, ReceiptsStep
<1>3. CASE Untouched \/ Dismissed
  BY <1>1, <1>2, <1>3 DEF Untouched, Dismissed, counters
<1>4. ASSUME NEW o \in Actors, StepOf(o)
      PROVE  /\ op' \in [Actors -> Ops] /\ handoff' \in HandoffStates \cup {None}
             /\ reports' \in [Receipts -> Nat] /\ begun' \in [Receipts -> Nat]
  <2>1. op' \in [Actors -> Ops]
    BY <1>4, MovesOn DEF Moves
  <2>2. ASSUME NEW r \in Receipts
        PROVE  /\ Report(r) => reports' \in [Receipts -> Nat]
               /\ Begin(r) => begun' \in [Receipts -> Nat]
    BY <1>1 DEF Report, Begin
  <2>3. CASE Rests(o)
    BY <1>1, <2>1, <2>3 DEF Rests, counters
  <2>4. CASE Notes(o)
    <3>1. handoff \in HandoffStates /\ handoff.receipt \in Receipts
      BY <1>1, <2>4 DEF Notes, HandoffStates
    <3>2. handoff' \in HandoffStates
      BY <2>4, <3>1 DEF Notes, Noted, HandoffStates
    <3> QED
      BY <1>1, <2>1, <2>2, <2>4, <3>1, <3>2 DEF Notes
  <2>5. CASE Receives(o)
    <3>1. PICK l \in Leases, b \in Bundles, waiting \in BOOLEAN : Receive(l, b, waiting)
      BY <2>5 DEF Receives
    <3>2. receipts + 1 \in Receipts
      BY <1>4, <2>5, ReceiptsStep
    <3>3. handoff' \in HandoffStates
      BY <3>1, <3>2 DEF Receive, NewState, AsksUser, HandoffStates
    <3>4. reports' \in [Receipts -> Nat]
      BY <1>1, <2>2, <3>1, <3>2 DEF Receive
    <3> QED
      BY <1>1, <2>1, <2>5, <3>3, <3>4 DEF Receives
  <2>6. CASE Accepts(o)
    <3>1. handoff' \in HandoffStates
      BY <1>1, <2>6 DEF Accepts, HandoffStates
    <3> QED
      BY <1>1, <2>1, <2>6, <3>1 DEF Accepts, counters
  <2>7. ASSUME NEW st \in HandoffStates, Proceeds(o, st)
        PROVE  handoff' \in HandoffStates \cup {None}
    BY <1>1, <2>7 DEF Proceeds, WorksOn, HandoffStates
  <2>8. CASE Begins(o)
    <3>1. op[o].state \in HandoffStates /\ op[o].state.receipt \in Receipts
      BY <2>8 DEF Begins, Owing, StatesTruthful, Truthful, Captures, HandoffStates
    <3> QED
      BY <1>1, <2>1, <2>2, <2>7, <2>8, <3>1 DEF Begins
  <2>9. CASE GoesOn(o)
    <3>1. op[o].at \in Working => op[o].state \in HandoffStates
      BY DEF StatesTruthful, Truthful, Captures
    <3> QED
      BY <1>1, <2>1, <2>7, <2>9, <3>1 DEF GoesOn, counters
  <2> QED
    BY <1>4, <2>3, <2>4, <2>5, <2>6, <2>8, <2>9 DEF StepOf
<1> QED
  BY <1>2, <1>3, <1>4, StepKinds

(* What a step does to the leases and to the completions of the relay.      *)
LEMMA RelayMoves ==
  ASSUME IInv, Next
  PROVE  \/ Bind \/ RevokeLease \/ LeaseExpires \/ DropLapsed
         \/ UNCHANGED <<lease, lapsed, granted>> /\ completions' \subseteq Leases
<1> DEFINE Goal == UNCHANGED <<lease, lapsed, granted>> /\ completions' \subseteq Leases
<1>1. ASSUME NEW p \in Posts, CompletionApplied(p) PROVE Goal
  <2>1. p \in Actors /\ op[p].at = "reporting"
    BY <1>1 DEF CompletionApplied, At, Actors
  <2>2. op[p].lease \in Leases
    BY <2>1 DEF IInv, PostsCarry, Carries, Early
  <2>3. completions \subseteq Leases
    BY DEF IInv, TypeOK
  <2> QED
    BY <1>1, <2>2, <2>3 DEF CompletionApplied
<1>2. CASE UNCHANGED relayVars
  BY <1>2 DEF relayVars, IInv, TypeOK
<1>3. ASSUME NEW o, NEW st, NEW auto, NEW item, ContinueHandoff(o, st, auto, item)
      PROVE  UNCHANGED relayVars
  BY <1>3 DEF ContinueHandoff, Settle
<1>4. CASE \/ \E o \in Actors : CompletionLogged(o)
           \/ \E c \in Channels : AcceptanceLogged(c)
           \/ \E c \in Channels, i \in Items \cup {0} : Continue(c, i)
  BY <1>2, <1>3, <1>4 DEF CompletionLogged, AcceptanceLogged, Continue
<1>5. CASE \E o \in Actors : RepoAligned(o)
  BY <1>2, <1>5 DEF RepoAligned, Settle
<1>6. CASE \/ SpecDraft \/ SpecClarify \/ SpecClear \/ \E force \in BOOLEAN : SpecApprove(force)
           \/ \E p \in Posts : PostCompletion(p)
           \/ \E p \in Posts, b \in Bundles : PostHandoff(p, b)
           \/ \E p \in Posts : HandoffApplied(p)
           \/ \E p \in Posts : SpecBootstrapped(p)
           \/ \E p \in Posts : DuplicateLogged(p)
           \/ \E c \in Channels : Accept(c)
           \/ \E c \in Channels : Dismiss(c)
           \/ \E o \in Actors : RepoRegistered(o)
           \/ \E o \in Actors : ChoiceShown(o)
           \/ \E o \in Actors : WorkRequested(o)
  <2>1. UNCHANGED relayVars
    BY <1>6 DEF SpecDraft, SpecClarify, SpecClear, SpecApprove, SpecUnchanged, PostCompletion,
       PostHandoff, HandoffApplied, SpecBootstrapped, DuplicateLogged, Accept, Dismiss,
       RepoRegistered, ChoiceShown, WorkRequested
  <2> QED
    BY <1>2, <2>1
<1> QED
  BY <1>1, <1>4, <1>5, <1>6 DEF Next

(* A step keeps TypeOK.                                                    *)
LEMMA TypeStep ==
  ASSUME IInv, Next
  PROVE  TypeOK' /\ StageFollowsStatus'
<1> USE DEF IInv
<1>1. workflow' \in Seq(Revisions) /\ StageFollowsStatus'
  BY WorkflowStep DEF Sound, StageFollowsStatus
<1>2. /\ lease' \in Leases \cup {0} /\ lapsed' \in Leases \cup {0}
      /\ granted' \in 0..MaxLeases /\ completions' \subseteq Leases
  <2>1. /\ lease \in Leases \cup {0} /\ lapsed \in Leases \cup {0}
        /\ granted \in 0..MaxLeases /\ completions \subseteq Leases
    BY DEF TypeOK
  <2>2. CASE Bind
    BY <2>1, <2>2, BoundsAreCounts DEF Bind, Leases
  <2>3. CASE RevokeLease \/ LeaseExpires \/ DropLapsed
    BY <2>1, <2>3 DEF RevokeLease, LeaseExpires, DropLapsed
  <2> QED
    BY <2>1, <2>2, <2>3, RelayMoves
<1>3. /\ accepted' \subseteq Bundles /\ delivered' \subseteq Leases \X Bundles
      /\ finished' \subseteq Bundles
  <2>1. /\ accepted \subseteq Bundles /\ delivered \subseteq Leases \X Bundles
        /\ finished \subseteq Bundles
    BY DEF TypeOK
  <2>2. ASSUME NEW p \in Posts, CompletionApplied(p)
        PROVE  accepted' = accepted /\ delivered' = delivered /\ finished' \subseteq Bundles
    BY <2>1, <2>2 DEF CompletionApplied
  <2>3. ASSUME NEW p \in Posts, NEW l \in Leases, NEW b \in Bundles, NEW latest,
               Ingest(p, l, b, latest), UNCHANGED accepted
        PROVE  /\ accepted' \subseteq Bundles /\ delivered' \subseteq Leases \X Bundles
               /\ finished' \subseteq Bundles
    <3>1. CASE UNCHANGED <<delivered, finished>>
      BY <2>1, <2>3, <3>1
    <3>2. CASE /\ delivered' = delivered \cup {<<l, b>>}
               /\ finished' = IF latest \/ l \in completions THEN finished \cup {b} ELSE finished
      BY <2>1, <2>3, <3>2
    <3> QED
      BY <2>3, <3>1, <3>2 DEF Ingest
  <2>4. ASSUME NEW p \in Posts, op[p].at \in {"delivering", "bootstrapping", "duplicate"}
        PROVE  op[p].lease \in Leases /\ op[p].bundle \in Bundles
    BY <2>4 DEF PostsCarry, Carries, Early, Actors
  <2>5. CASE \E p \in Posts : HandoffApplied(p) \/ SpecBootstrapped(p)
    <3>1. PICK p \in Posts : HandoffApplied(p) \/ SpecBootstrapped(p)
      BY <2>5
    <3>2. op[p].lease \in Leases /\ op[p].bundle \in Bundles /\ UNCHANGED accepted
      BY <2>4, <3>1 DEF HandoffApplied, SpecBootstrapped, At
    <3>3. CASE UNCHANGED <<delivered, finished>>
      BY <2>1, <3>2, <3>3
    <3>4. CASE \/ Ingest(p, op[p].lease, op[p].bundle, op[p].lease \in completions)
               \/ Ingest(p, op[p].lease, op[p].bundle, op[p].latest)
      BY <2>3, <3>2, <3>4
    <3> QED
      BY <3>1, <3>3, <3>4 DEF HandoffApplied, SpecBootstrapped
  <2>6. ASSUME NEW p \in Posts, DuplicateLogged(p)
        PROVE  accepted' = accepted /\ delivered' = delivered /\ finished' \subseteq Bundles
    <3>1. op[p].bundle \in Bundles
      BY <2>4, <2>6 DEF DuplicateLogged, At
    <3>2. accepted' = accepted /\ delivered' = delivered
      BY <2>6 DEF DuplicateLogged
    <3>3. finished' = finished \cup {op[p].bundle} \/ finished' = finished
      BY <2>6 DEF DuplicateLogged
    <3> QED
      BY <2>1, <3>1, <3>2, <3>3
  <2>7. ASSUME NEW c \in Channels, Accept(c)
        PROVE  accepted' \subseteq Bundles /\ UNCHANGED <<delivered, finished>>
    BY <2>1, <2>7 DEF Accept, TypeOK, HandoffStates
  <2>8. CASE \/ SpecDraft \/ SpecClarify \/ SpecClear \/ \E force \in BOOLEAN : SpecApprove(force)
             \/ Bind \/ RevokeLease \/ LeaseExpires \/ DropLapsed
             \/ \E p \in Posts : PostCompletion(p)
             \/ \E p \in Posts, b \in Bundles : PostHandoff(p, b)
             \/ \E o \in Actors : CompletionLogged(o)
             \/ \E c \in Channels : AcceptanceLogged(c)
             \/ \E c \in Channels : Dismiss(c)
             \/ \E c \in Channels, i \in Items \cup {0} : Continue(c, i)
             \/ \E o \in Actors : RepoRegistered(o)
             \/ \E o \in Actors : RepoAligned(o)
             \/ \E o \in Actors : ChoiceShown(o)
             \/ \E o \in Actors : WorkRequested(o)
    <3>1. UNCHANGED <<accepted, delivered, finished>>
      BY <2>8 DEF SpecDraft, SpecClarify, SpecClear, SpecApprove, SpecUnchanged, Bind, RevokeLease,
         LeaseExpires, DropLapsed, PostCompletion, PostHandoff, CompletionLogged, AcceptanceLogged, Dismiss,
         Continue, RepoRegistered, RepoAligned, ChoiceShown, WorkRequested, history
    <3> QED
      BY <2>1, <3>1
  <2> QED
    BY <2>1, <2>2, <2>5, <2>6, <2>7, <2>8 DEF Next
<1>4. started' \subseteq Bundles \X Items
  <2>1. started \subseteq Bundles \X Items
    BY DEF TypeOK
  <2>2. ASSUME NEW o \in Actors, op[o].at = "continuing"
        PROVE  op[o].state.bundle \in Bundles /\ op[o].item \in Items
    BY <2>2 DEF StatesTruthful, Truthful, Captures, Working, HandoffStates
  <2> QED
    BY <2>1, <2>2, StepKinds DEF Grows
<1> QED
  BY <1>1, <1>2, <1>3, <1>4, HandoffTyped DEF TypeOK

(* A step keeps PostsCarry.                                                *)
LEMMA PostsCarryStep ==
  ASSUME IInv, Next
  PROVE  PostsCarry'
<1> USE DEF IInv
<1>1. ASSUME NEW q \in Actors, op'[q] = op[q]
      PROVE  Carries(q)'
  BY <1>1, StepKinds DEF PostsCarry, Carries, Grows
<1>2. CASE Untouched \/ Dismissed
  BY <1>1, <1>2 DEF Untouched, Dismissed, PostsCarry
<1>3. ASSUME NEW o \in Actors, StepOf(o)
      PROVE  PostsCarry'
  <2>1. \A q \in Actors \ {o} : op'[q] = op[q]
    BY <1>3, MovesOn DEF Moves
  <2>2. Rests(o) => Carries(o)'
    BY DEF Rests
  <2>3. ASSUME op'[o].at \notin Early \ {"idle"}
        PROVE  Carries(o)'
    BY <2>3 DEF Carries, Early
  <2>4. ~Rests(o) => op'[o].at \notin Early \ {"idle"}
    BY <1>3 DEF StepOf, Notes, Receives, Accepts, Begins, GoesOn, Proceeds, Ended, WorksOn, Early,
       Working
  <2>5. Carries(o)'
    BY <2>2, <2>3, <2>4
  <2> QED
    BY <1>1, <2>1, <2>5 DEF PostsCarry
<1> QED
  BY <1>2, <1>3, StepKinds

(* Truthful and Continued in the next state, of any state and receipt.     *)
TruthfulThen(st) ==
  /\ st \in HandoffStates
  /\ ~st.confirm => st.bundle \in accepted'
  /\ ~st.waiting => st.bundle \in finished'
  /\ <<st.lease, st.bundle>> \in delivered'
  /\ st.receipt <= receipts'

PendingThen(r)   == {q \in Actors : Owes(op'[q], r)}
ContinuedThen(r) == begun'[r] > 0 \/ PendingThen(r) # {}

(* A state that is truthful stays so, as the history grows.                *)
LEMMA TruthfulStays ==
  ASSUME IInv, Next
  PROVE  \A st : Truthful(st) => TruthfulThen(st)
<1>1. Grows
  BY StepKinds
<1>2. receipts \in Nat /\ receipts' \in {receipts, receipts + 1}
  <2>1. receipts \in Nat
    BY DEF IInv, TypeOK
  <2>2. Untouched \/ Dismissed \/ \E o \in Actors : StepOf(o)
    BY StepKinds
  <2>3. ASSUME NEW o \in Actors, StepOf(o)
        PROVE  receipts' \in {receipts, receipts + 1}
    BY <2>3 DEF StepOf, Rests, Notes, Receives, Receive, Accepts, Begins, GoesOn, counters
  <2> QED
    BY <2>1, <2>2, <2>3 DEF Untouched, Dismissed, counters
<1> QED
  BY <1>1, <1>2 DEF Grows, Truthful, TruthfulThen, HandoffStates, Receipts

(* A step keeps StatesTruthful.                                            *)
LEMMA TruthStep ==
  ASSUME IInv, Next
  PROVE  StatesTruthful'
<1> USE DEF IInv
<1> SUFFICES /\ handoff' # None => TruthfulThen(handoff')
             /\ \A q \in Actors :
                  /\ op'[q].at \in Captures => TruthfulThen(op'[q].state)
                  /\ op'[q].at \in Working => ~op'[q].state.confirm /\ ~op'[q].state.waiting
                  /\ op'[q].at \in {"offering", "continuing"} => op'[q].item \in Items
  BY DEF StatesTruthful, Truthful, TruthfulThen
<1>1. handoff # None => TruthfulThen(handoff)
  BY TruthfulStays DEF StatesTruthful
<1>2. ASSUME NEW q \in Actors, op'[q] = op[q]
      PROVE  /\ op'[q].at \in Captures => TruthfulThen(op'[q].state)
             /\ op'[q].at \in Working => ~op'[q].state.confirm /\ ~op'[q].state.waiting
             /\ op'[q].at \in {"offering", "continuing"} => op'[q].item \in Items
  BY <1>2, TruthfulStays DEF StatesTruthful
<1>3. CASE Untouched \/ Dismissed
  BY <1>1, <1>2, <1>3 DEF Untouched, Dismissed
<1>4. ASSUME NEW o \in Actors, StepOf(o)
      PROVE  /\ handoff' # None => TruthfulThen(handoff')
             /\ op'[o].at \in Captures => TruthfulThen(op'[o].state)
             /\ op'[o].at \in Working => ~op'[o].state.confirm /\ ~op'[o].state.waiting
             /\ op'[o].at \in {"offering", "continuing"} => op'[o].item \in Items
  <2>1. CASE Rests(o)
    BY <1>1, <2>1 DEF Rests, Captures, Working
  <2>2. CASE Notes(o)
    <3>1. TruthfulThen(handoff')
      BY <1>1, <2>2 DEF Notes, Noted, TruthfulThen, HandoffStates
    <3> QED
      BY <2>2, <3>1 DEF Notes, Working
  <2>3. CASE Receives(o)
    <3>1. PICK l \in Leases, b \in Bundles, waiting \in BOOLEAN :
            Receive(l, b, waiting) /\ <<l, b>> \in delivered' /\ (~waiting => b \in finished')
      BY <2>3 DEF Receives
    <3>2. receipts + 1 \in Receipts /\ receipts' = receipts + 1
      BY <1>4, <2>3, <3>1, ReceiptsStep DEF Receive
    <3>3. TruthfulThen(handoff')
      BY <3>1, <3>2 DEF Receive, NewState, AsksUser, TruthfulThen, HandoffStates, Receipts
    <3> QED
      BY <2>3, <3>3 DEF Receives, Captures, Working
  <2>4. CASE Accepts(o)
    <3>1. TruthfulThen(handoff')
      BY <1>1, <2>4 DEF Accepts, TruthfulThen, HandoffStates
    <3> QED
      BY <2>4, <3>1 DEF Accepts, Working
  <2>5. ASSUME NEW st, TruthfulThen(st), Proceeds(o, st)
        PROVE  /\ handoff' # None => TruthfulThen(handoff')
               /\ op'[o].at \in Captures => TruthfulThen(op'[o].state)
               /\ op'[o].at \in Working => ~op'[o].state.confirm /\ ~op'[o].state.waiting
               /\ op'[o].at \in {"offering", "continuing"} => op'[o].item \in Items
    <3>1. CASE Ended(o) /\ UNCHANGED handoff
      BY <1>1, <3>1 DEF Ended, Captures, Working
    <3>2. CASE WorksOn(o, st)
      <4>1. \A done \in SUBSET Items : TruthfulThen([st EXCEPT !.continued = done])
        BY <2>5 DEF TruthfulThen, HandoffStates
      <4> QED
        BY <1>1, <2>5, <3>2, <4>1 DEF WorksOn
    <3> QED
      BY <2>5, <3>1, <3>2 DEF Proceeds
  <2>6. CASE Begins(o)
    <3>1. TruthfulThen(op[o].state)
      BY <2>6, TruthfulStays DEF Begins, Owing, StatesTruthful, Captures
    <3> QED
      BY <2>5, <2>6, <3>1 DEF Begins
  <2>7. CASE GoesOn(o)
    <3>1. op[o].at \in Working => TruthfulThen(op[o].state)
      BY TruthfulStays DEF StatesTruthful, Captures
    <3> QED
      BY <1>1, <2>5, <2>7, <3>1 DEF GoesOn
  <2> QED
    BY <1>4, <2>1, <2>2, <2>3, <2>4, <2>6, <2>7 DEF StepOf
<1> QED
  BY <1>2, <1>3, <1>4, StepKinds, MovesOn DEF Moves

(* What a step does to the set of operations that owe a continuation.      *)
LEMMA PendingIs ==
  ASSUME NEW o \in Actors, Moves(o, op'[o]), NEW r, IsFiniteSet(Pending(r))
  PROVE  /\ IsFiniteSet(PendingThen(r)) /\ Cardinality(Pending(r)) \in Nat
         /\ Cardinality(PendingThen(r)) \in Nat
         /\ Owes(op'[o], r) => Cardinality(PendingThen(r)) <= Cardinality(Pending(r)) + 1
         /\ ~Owes(op'[o], r) => Cardinality(PendingThen(r)) <= Cardinality(Pending(r))
         /\ Owes(op[o], r) /\ ~Owes(op'[o], r) =>
              Cardinality(PendingThen(r)) = Cardinality(Pending(r)) - 1
<1>1. \A q \in Actors \ {o} : Owes(op'[q], r) <=> Owes(op[q], r)
  BY DEF Moves
<1>0. Cardinality(Pending(r)) \in Nat
  BY FS_CardinalityType
<1>2. CASE Owes(op'[o], r)
  <2>1. PendingThen(r) = Pending(r) \cup {o}
    BY <1>1, <1>2 DEF Pending, PendingThen
  <2>2. /\ IsFiniteSet(Pending(r) \cup {o})
        /\ Cardinality(Pending(r) \cup {o}) \in
             {Cardinality(Pending(r)), Cardinality(Pending(r)) + 1}
    BY FS_AddElement
  <2> QED
    BY <1>0, <1>2, <2>1, <2>2
<1>3. CASE ~Owes(op'[o], r)
  <2>1. PendingThen(r) = Pending(r) \ {o}
    BY <1>1, <1>3 DEF Pending, PendingThen
  <2>2. o \in Pending(r) <=> Owes(op[o], r)
    BY DEF Pending
  <2>3. /\ IsFiniteSet(Pending(r) \ {o})
        /\ Cardinality(Pending(r) \ {o}) =
             IF o \in Pending(r) THEN Cardinality(Pending(r)) - 1 ELSE Cardinality(Pending(r))
    BY FS_RemoveElement
  <2>4. Cardinality(Pending(r) \ {o}) \in Nat
    BY <2>3, FS_CardinalityType
  <2> QED
    BY <1>0, <1>3, <2>1, <2>2, <2>3, <2>4
<1> QED
  BY <1>2, <1>3

AcceptableThen(r) ==
  handoff' # None /\ handoff'.receipt = r /\ handoff'.confirm /\ ~handoff'.waiting

Covered(r) ==
  /\ IsFiniteSet(PendingThen(r))
  /\ begun'[r] + Cardinality(PendingThen(r)) + (IF AcceptableThen(r) THEN 1 ELSE 0) <= reports'[r]
  /\ r > receipts' => reports'[r] = 0

(* A step keeps ReportsCoverBegun.                                         *)
LEMMA ReportsStep ==
  ASSUME IInv, Next
  PROVE  ReportsCoverBegun'
<1> USE DEF IInv
<1> SUFFICES ASSUME NEW r \in Receipts
             PROVE  Covered(r)
  BY DEF ReportsCoverBegun, Covered, Pending, PendingThen, Credit, Acceptable, AcceptableThen
<1>1. /\ IsFiniteSet(Pending(r)) /\ Cardinality(Pending(r)) \in Nat
      /\ begun[r] \in Nat /\ reports[r] \in Nat /\ r \in Nat /\ receipts \in Nat
      /\ begun[r] + Cardinality(Pending(r)) + Credit(r) <= reports[r]
      /\ Credit(r) \in {0, 1}
      /\ r > receipts => reports[r] = 0
  BY FS_CardinalityType DEF ReportsCoverBegun, Credit, TypeOK, Receipts
<1>2. handoff # None => handoff \in HandoffStates /\ handoff.receipt <= receipts
  BY DEF StatesTruthful, Truthful
<1>3. CASE Untouched \/ Dismissed
  <2>1. PendingThen(r) = Pending(r)
    BY <1>3 DEF Untouched, Dismissed, Pending, PendingThen
  <2>2. AcceptableThen(r) => Acceptable(r)
    BY <1>3 DEF Untouched, Dismissed, Acceptable, AcceptableThen
  <2> QED
    BY <1>1, <1>3, <2>1, <2>2 DEF Untouched, Dismissed, counters, Covered, Credit
<1>4. ASSUME NEW o \in Actors, StepOf(o)
      PROVE  Covered(r)
  <2>1. /\ IsFiniteSet(PendingThen(r)) /\ Cardinality(PendingThen(r)) \in Nat
        /\ Owes(op'[o], r) => Cardinality(PendingThen(r)) <= Cardinality(Pending(r)) + 1
        /\ ~Owes(op'[o], r) => Cardinality(PendingThen(r)) <= Cardinality(Pending(r))
        /\ Owes(op[o], r) /\ ~Owes(op'[o], r) =>
             Cardinality(PendingThen(r)) = Cardinality(Pending(r)) - 1
    BY <1>1, <1>4, MovesOn, PendingIs
  <2>2. CASE Rests(o)
    <3>1. ~Owes(op'[o], r)
      BY <2>2 DEF Rests, Owes, Owing, Captures
    <3>2. AcceptableThen(r) <=> Acceptable(r)
      BY <2>2 DEF Rests, Acceptable, AcceptableThen
    <3> QED
      BY <1>1, <2>1, <2>2, <3>1, <3>2 DEF Rests, counters, Covered, Credit
  <2>3. CASE Notes(o)
    <3>1. handoff'.receipt = handoff.receipt /\ handoff'.confirm = handoff.confirm
      BY <1>2, <2>3 DEF Notes, Noted, HandoffStates
    <3>2. Owes(op'[o], r) => ~handoff.confirm /\ handoff.receipt = r
      BY <2>3, <3>1 DEF Notes, Owes, Owing
    <3>3. AcceptableThen(r) => handoff.confirm /\ handoff.receipt = r
      BY <3>1 DEF AcceptableThen
    <3>4. UNCHANGED <<receipts, begun>>
      BY <2>3 DEF Notes
    <3>5. CASE handoff.receipt = r
      <4>1. reports'[r] = reports[r] + 1
        BY <2>3, <3>5 DEF Notes, Report, TypeOK
      <4>2. r <= receipts
        BY <1>2, <2>3, <3>5 DEF Notes
      <4> QED
        BY <1>1, <2>1, <3>2, <3>3, <3>4, <4>1, <4>2 DEF Covered
    <3>6. CASE handoff.receipt # r
      <4>1. reports'[r] = reports[r]
        BY <2>3, <3>6 DEF Notes, Report, TypeOK
      <4> QED
        BY <1>1, <2>1, <3>2, <3>3, <3>4, <3>6, <4>1 DEF Covered
    <3> QED
      BY <3>5, <3>6
  <2>4. CASE Receives(o)
    <3>1. PICK l \in Leases, b \in Bundles, waiting \in BOOLEAN : Receive(l, b, waiting)
      BY <2>4 DEF Receives
    <3>2. /\ receipts' = receipts + 1 /\ receipts + 1 \in Receipts /\ begun' = begun
          /\ handoff'.receipt = receipts + 1 /\ handoff'.waiting = waiting
      BY <1>4, <2>4, <3>1, ReceiptsStep DEF Receives, Receive, NewState
    <3>3. ~Owes(op'[o], r)
      BY <2>4 DEF Receives, Owes, Owing
    <3>4. CASE r = receipts + 1
      <4>1. reports'[r] = IF waiting THEN 0 ELSE 1
        BY <1>1, <3>1, <3>2, <3>4 DEF Receive, Report, TypeOK
      <4>2. AcceptableThen(r) => ~waiting
        BY <3>2 DEF AcceptableThen
      <4> QED
        BY <1>1, <2>1, <3>2, <3>3, <3>4, <4>1, <4>2 DEF Covered
    <3>5. CASE r # receipts + 1
      <4>1. reports'[r] = reports[r]
        BY <3>1, <3>2, <3>5 DEF Receive, Report, TypeOK
      <4>2. ~AcceptableThen(r)
        BY <3>2, <3>5 DEF AcceptableThen
      <4> QED
        BY <1>1, <2>1, <3>2, <3>3, <3>5, <4>1, <4>2 DEF Covered
    <3> QED
      BY <3>4, <3>5
  <2>5. CASE Accepts(o)
    <3>1. /\ handoff'.receipt = handoff.receipt /\ handoff'.waiting = handoff.waiting
          /\ ~handoff'.confirm
      BY <1>2, <2>5 DEF Accepts, HandoffStates
    <3>2. Owes(op'[o], r) => Acceptable(r)
      BY <2>5, <3>1 DEF Accepts, Owes, Owing, Acceptable
    <3>3. ~AcceptableThen(r)
      BY <3>1 DEF AcceptableThen
    <3> QED
      BY <1>1, <2>1, <2>5, <3>2, <3>3 DEF Accepts, counters, Covered, Credit
  <2>6. ASSUME NEW st \in HandoffStates, Proceeds(o, st)
        PROVE  ~Owes(op'[o], r) /\ (AcceptableThen(r) => Acceptable(r))
    <3>1. op'[o].at \notin {"noting", "accepting"}
      BY <2>6 DEF Proceeds, Ended, WorksOn, Working
    <3>2. handoff' = handoff \/ ~handoff'.confirm
      BY <2>6 DEF Proceeds, WorksOn, HandoffStates
    <3> QED
      BY <3>1, <3>2 DEF Owes, Owing, Acceptable, AcceptableThen
  <2>7. CASE Begins(o)
    <3>1. op[o].state \in HandoffStates /\ op[o].state.receipt \in Receipts
      BY <2>7 DEF Begins, Owing, StatesTruthful, Truthful, Captures, HandoffStates
    <3>2. ~Owes(op'[o], r) /\ (AcceptableThen(r) => Acceptable(r))
      BY <2>6, <2>7, <3>1 DEF Begins
    <3>3. UNCHANGED <<receipts, reports>>
      BY <2>7 DEF Begins
    <3>4. CASE op[o].state.receipt = r
      <4>1. begun'[r] = begun[r] + 1 /\ Owes(op[o], r)
        BY <2>7, <3>4 DEF Begins, Begin, Owes, TypeOK
      <4> QED
        BY <1>1, <2>1, <3>2, <3>3, <4>1 DEF Covered, Credit
    <3>5. CASE op[o].state.receipt # r
      <4>1. begun'[r] = begun[r]
        BY <2>7, <3>5 DEF Begins, Begin, TypeOK
      <4> QED
        BY <1>1, <2>1, <3>2, <3>3, <4>1 DEF Covered, Credit
    <3> QED
      BY <3>4, <3>5
  <2>8. CASE GoesOn(o)
    <3>1. op[o].at \in Working => op[o].state \in HandoffStates
      BY DEF StatesTruthful, Truthful, Captures
    <3>2. ~Owes(op'[o], r) /\ (AcceptableThen(r) => Acceptable(r))
      BY <1>2, <2>6, <2>8, <3>1 DEF GoesOn
    <3> QED
      BY <1>1, <2>1, <2>8, <3>2 DEF GoesOn, counters, Covered, Credit
  <2> QED
    BY <1>4, <2>2, <2>3, <2>4, <2>5, <2>7, <2>8 DEF StepOf
<1> QED
  BY <1>3, <1>4, StepKinds

(* What has been continued, or is about to be, stays so.                   *)
LEMMA ContinuedStays ==
  ASSUME IInv, Next, NEW r \in Receipts, Continued(r)
  PROVE  ContinuedThen(r)
<1> USE DEF IInv
<1>1. begun[r] \in Nat
  BY DEF TypeOK
<1>2. CASE Untouched \/ Dismissed
  BY <1>2 DEF Untouched, Dismissed, counters, Continued, ContinuedThen, Pending, PendingThen
<1>3. ASSUME NEW o \in Actors, StepOf(o)
      PROVE  ContinuedThen(r)
  <2>1. \A q \in Actors \ {o} : op'[q] = op[q]
    BY <1>3, MovesOn DEF Moves
  <2>2. CASE ~Owes(op[o], r) /\ begun' = begun
    BY <2>1, <2>2 DEF Continued, ContinuedThen, Pending, PendingThen
  <2>3. CASE Begins(o)
    <3>1. op[o].state.receipt \in Receipts
      BY <2>3 DEF Begins, Owing, StatesTruthful, Truthful, Captures, HandoffStates
    <3>2. CASE op[o].state.receipt = r
      <4>1. begun'[r] = begun[r] + 1
        BY <2>3, <3>2 DEF Begins, Begin, TypeOK
      <4> QED
        BY <1>1, <4>1 DEF ContinuedThen
    <3>3. CASE op[o].state.receipt # r
      <4>1. ~Owes(op[o], r) /\ begun'[r] = begun[r]
        BY <2>3, <3>3 DEF Begins, Begin, Owes, TypeOK
      <4> QED
        BY <2>1, <4>1 DEF Continued, ContinuedThen, Pending, PendingThen
    <3> QED
      BY <3>2, <3>3
  <2>4. CASE Rests(o) \/ Notes(o) \/ Receives(o) \/ Accepts(o) \/ GoesOn(o)
    <3>1. begun' = begun
      BY <2>4 DEF Rests, Notes, Receives, Accepts, GoesOn, counters
    <3>2. ~Owing(op[o])
      BY <2>4 DEF Rests, Notes, Receives, Accepts, GoesOn, Owing, Captures, Working, Early
    <3> QED
      BY <2>2, <3>1, <3>2 DEF Owes
  <2> QED
    BY <1>3, <2>3, <2>4 DEF StepOf
<1> QED
  BY <1>2, <1>3, StepKinds

(* A step keeps ReadyIsContinued.                                          *)
LEMMA ReadyStep ==
  ASSUME IInv, Next
  PROVE  ReadyIsContinued'
<1> USE DEF IInv
<1> DEFINE Ready(h) == h # None /\ ~h.confirm /\ ~h.waiting
<1> SUFFICES /\ Ready(handoff') => ContinuedThen(handoff'.receipt)
             /\ \A q \in Actors : op'[q].at \in Working => ContinuedThen(op'[q].state.receipt)
  BY DEF ReadyIsContinued, Continued, ContinuedThen, Pending, PendingThen
<1>1. handoff # None => handoff \in HandoffStates /\ handoff.receipt \in Receipts
  BY DEF TypeOK, HandoffStates
<1>2. Ready(handoff) => ContinuedThen(handoff.receipt)
  BY <1>1, ContinuedStays DEF ReadyIsContinued
<1>3. ASSUME NEW q \in Actors, op[q].at \in Working
      PROVE  /\ op[q].state \in HandoffStates /\ ~op[q].state.confirm /\ ~op[q].state.waiting
             /\ ContinuedThen(op[q].state.receipt)
  <2>1. op[q].state \in HandoffStates /\ ~op[q].state.confirm /\ ~op[q].state.waiting
    BY <1>3 DEF StatesTruthful, Truthful, Captures
  <2>2. op[q].state.receipt \in Receipts
    BY <2>1 DEF HandoffStates
  <2> QED
    BY <1>3, <2>1, <2>2, ContinuedStays DEF ReadyIsContinued
<1> HIDE DEF Ready
<1>4. CASE Untouched \/ Dismissed
  BY <1>2, <1>3, <1>4 DEF Untouched, Dismissed, Ready
<1>5. ASSUME NEW o \in Actors, StepOf(o)
      PROVE  /\ Ready(handoff') => ContinuedThen(handoff'.receipt)
             /\ op'[o].at \in Working => ContinuedThen(op'[o].state.receipt)
  <2>1. CASE Rests(o)
    BY <1>2, <2>1 DEF Rests, Captures
  <2>2. CASE Notes(o)
    <3>1. Ready(handoff') => Owes(op'[o], handoff'.receipt)
      BY <2>2 DEF Notes, Owes, Owing, Ready
    <3> QED
      BY <2>2, <3>1 DEF Notes, Working, ContinuedThen, PendingThen
  <2>3. CASE Receives(o)
    <3>1. handoff'.confirm
      BY <2>3 DEF Receives, Receive, NewState, AsksUser
    <3> QED
      BY <2>3, <3>1 DEF Receives, Working, Ready
  <2>4. CASE Accepts(o)
    <3>1. Ready(handoff') => Owes(op'[o], handoff'.receipt)
      BY <2>4 DEF Accepts, Owes, Owing, Ready
    <3> QED
      BY <2>4, <3>1 DEF Accepts, Working, ContinuedThen, PendingThen
  <2>5. ASSUME NEW st \in HandoffStates, Proceeds(o, st),
               ~st.confirm /\ ~st.waiting => ContinuedThen(st.receipt)
        PROVE  /\ Ready(handoff') => ContinuedThen(handoff'.receipt)
               /\ op'[o].at \in Working => ContinuedThen(op'[o].state.receipt)
    <3>1. CASE Ended(o) /\ UNCHANGED handoff
      BY <1>2, <3>1 DEF Ended, Working
    <3>2. CASE WorksOn(o, st)
      <4>1. ContinuedThen(st.receipt)
        BY <2>5, <3>2 DEF WorksOn
      <4>2. handoff' = handoff \/ handoff'.receipt = st.receipt
        BY <3>2 DEF WorksOn, HandoffStates
      <4> QED
        BY <1>2, <3>2, <4>1, <4>2 DEF WorksOn
    <3> QED
      BY <2>5, <3>1, <3>2 DEF Proceeds
  <2>6. CASE Begins(o)
    <3>1. op[o].state \in HandoffStates /\ op[o].state.receipt \in Receipts
      BY <2>6 DEF Begins, Owing, StatesTruthful, Truthful, Captures, HandoffStates
    <3>2. begun'[op[o].state.receipt] > 0
      BY <2>6, <3>1 DEF Begins, Begin, TypeOK
    <3>3. ContinuedThen(op[o].state.receipt)
      BY <3>2 DEF ContinuedThen
    <3> QED
      BY <2>5, <2>6, <3>1, <3>3 DEF Begins
  <2>7. CASE GoesOn(o)
    <3>1. CASE op[o].at \in Working /\ Proceeds(o, op[o].state)
      BY <1>3, <2>5, <3>1
    <3>2. CASE handoff # None /\ Proceeds(o, handoff)
      BY <1>1, <1>2, <2>5, <3>2 DEF Ready
    <3> QED
      BY <2>7, <3>1, <3>2 DEF GoesOn
  <2> QED
    BY <1>5, <2>1, <2>2, <2>3, <2>4, <2>6, <2>7 DEF StepOf
<1> QED
  BY <1>3, <1>4, <1>5, StepKinds, MovesOn DEF Moves

(* A step keeps WorkFollowsHandshake.                                      *)
LEMMA HandshakeStep ==
  ASSUME IInv, Next
  PROVE  WorkFollowsHandshake'
<1> USE DEF IInv
<1>1. Grows
  BY StepKinds
<1>2. ASSUME NEW o \in Actors, op[o].at = "continuing"
      PROVE  op[o].state.bundle \in accepted /\ op[o].state.bundle \in finished
  BY <1>2 DEF StatesTruthful, Truthful, Captures, Working
<1>3. ASSUME NEW w \in started'
      PROVE  w[1] \in accepted /\ w[1] \in finished
  BY <1>1, <1>2, <1>3 DEF Grows, WorkFollowsHandshake
<1> QED
  BY <1>1, <1>3 DEF Grows, WorkFollowsHandshake

-----------------------------------------------------------------------------
(* The theorems.                                                           *)

(* The initial states satisfy IInv.                                        *)
LEMMA InitIsInductive == Init => IInv
<1> SUFFICES ASSUME Init
             PROVE  IInv
  OBVIOUS
<1>1. op = [o \in Actors |-> Idle] /\ \A o \in Actors : op[o].at = "idle"
  BY DEF Init, Idle
<1>2. Cardinality(Posts) \in Nat
  BY ActorsAreDistinct, FS_CardinalityType
<1>3. TypeOK
  <2>1. op \in [Actors -> Ops]
    BY <1>1, RecordsAreOps
  <2> QED
    BY <1>2, <2>1, BoundsAreCounts DEF Init, TypeOK, NoWorkflow
<1>4. StageFollowsStatus
  BY DEF Init, StageFollowsStatus, NoWorkflow
<1>5. PostsCarry /\ StatesTruthful
  BY <1>1 DEF Init, PostsCarry, Carries, StatesTruthful, Captures, Working
<1>6. ReceiptsHavePosts
  <2>1. Decided = {}
    BY <1>1 DEF Decided, Early, Actors
  <2> QED
    BY <2>1, FS_EmptySet DEF Init, ReceiptsHavePosts
<1>7. ReportsCoverBegun
  <2> SUFFICES ASSUME NEW r \in Receipts
               PROVE  /\ IsFiniteSet(Pending(r))
                      /\ begun[r] + Cardinality(Pending(r)) + Credit(r) <= reports[r]
                      /\ reports[r] = 0
    BY DEF ReportsCoverBegun
  <2>1. Pending(r) = {}
    BY <1>1 DEF Pending, Owes, Owing
  <2>2. Credit(r) = 0 /\ begun[r] = 0 /\ reports[r] = 0
    BY DEF Init, Credit, Acceptable
  <2> QED
    BY <2>1, <2>2, FS_EmptySet
<1>8. ReadyIsContinued /\ WorkFollowsHandshake
  BY <1>1 DEF Init, ReadyIsContinued, Working, WorkFollowsHandshake
<1> QED
  BY <1>3, <1>4, <1>5, <1>6, <1>7, <1>8 DEF IInv

(* Every step keeps IInv.                                                  *)
LEMMA NextIsInductive == IInv /\ [Next]_vars => IInv'
<1> SUFFICES ASSUME IInv, [Next]_vars
             PROVE  IInv'
  OBVIOUS
<1>1. CASE Next
  <2>1. ReceiptsHavePosts'
    BY <1>1, StepKinds, ReceiptsStep
  <2> QED
    BY <1>1, <2>1, TypeStep, PostsCarryStep, TruthStep, ReportsStep, ReadyStep, HandshakeStep
    DEF IInv
<1>2. CASE UNCHANGED vars
  BY <1>2 DEF vars, relayVars, history, counters, IInv, TypeOK, StageFollowsStatus, PostsCarry,
     Carries, StatesTruthful, Truthful, ReceiptsHavePosts, Decided, ReportsCoverBegun, Pending,
     Credit, Acceptable, ReadyIsContinued, Continued, WorkFollowsHandshake
<1> QED
  BY <1>1, <1>2

(* The inductive invariant holds of every behaviour.                       *)
THEOREM Invariant == Spec => []IInv
  BY InitIsInductive, NextIsInductive, PTL DEF Spec

(* Every variable keeps its type; no ingest runs out of receipts.          *)
THEOREM TypeCorrect == Spec => []TypeOK
<1>1. IInv => TypeOK
  BY DEF IInv
<1> QED
  BY <1>1, Invariant, PTL

(* Work of a bundle is requested only after the user accepted the bundle   *)
(* and its client was done with it.                                        *)
THEOREM HandshakeIsFollowed == Spec => []WorkFollowsHandshake
<1>1. IInv => WorkFollowsHandshake
  BY DEF IInv
<1> QED
  BY <1>1, Invariant, PTL

(* An acceptance and a completion that race begin one continuation.        *)
THEOREM ReportsAreSpentOnce == Spec => []OneContinuationPerReport
<1>1. IInv => OneContinuationPerReport
  <2> SUFFICES ASSUME IInv, NEW r \in Receipts
               PROVE  begun[r] <= reports[r]
    BY DEF OneContinuationPerReport
  <2>1. begun[r] \in Nat /\ reports[r] \in Nat /\ Credit(r) \in {0, 1}
    BY DEF IInv, TypeOK, Credit
  <2>2. Cardinality(Pending(r)) \in Nat
    BY FS_CardinalityType DEF IInv, ReportsCoverBegun
  <2> QED
    BY <2>1, <2>2 DEF IInv, ReportsCoverBegun
<1> QED
  BY <1>1, Invariant, PTL

(* ... and one of the two begins it.                                       *)
THEOREM AcceptedWorkIsContinued == Spec => []ContinuationNotForgotten
<1>1. IInv => ContinuationNotForgotten
  <2> SUFFICES ASSUME IInv, Quiet, handoff # None, ~handoff.confirm, ~handoff.waiting
               PROVE  begun[handoff.receipt] > 0
    BY DEF ContinuationNotForgotten
  <2>1. Pending(handoff.receipt) = {}
    BY DEF Quiet, Pending, Owes, Owing
  <2> QED
    BY <2>1 DEF IInv, ReadyIsContinued, Continued
<1> QED
  BY <1>1, Invariant, PTL

(* A step that asks for work does so under the approved revision the       *)
(* bundle names, whatever was awaited before it.                           *)
THEOREM WorkIsApproved == Spec => WorkRequestedUnderApprovedSpec
<1> DEFINE Good == \A o \in Actors :
                     op'[o].at = "continuing" /\ op[o].at \notin {"continuing", "offering"}
                       => MatchesApproved(workflow, SpecRef)
<1>1. IInv /\ [Next]_vars => [Good]_vars
  <2> SUFFICES ASSUME IInv, Next
               PROVE  Good
    OBVIOUS
  <2>1. CASE Untouched \/ Dismissed
    BY <2>1 DEF Untouched, Dismissed
  <2>2. ASSUME NEW o \in Actors, StepOf(o)
        PROVE  op'[o].at = "continuing" /\ op[o].at # "offering"
                 => MatchesApproved(workflow, SpecRef)
    BY <2>2 DEF StepOf, Rests, Notes, Receives, Accepts, Begins, GoesOn, Proceeds, Ended, WorksOn,
       Captures, Working
  <2> QED
    BY <2>1, <2>2, StepKinds, MovesOn DEF Moves
<1> QED
  BY <1>1, Invariant, PTL DEF Spec, WorkRequestedUnderApprovedSpec

(* What the user approved is not rewritten: only a new draft, or /spec     *)
(* clear, gives it up.                                                     *)
THEOREM ApprovalIsKept == Spec => ApprovedRevisionsAreKept
<1> DEFINE Good == workflow' \in {NoWorkflow, CreateInitialWorkflow} \/
                   \A i \in DOMAIN workflow : workflow[i].status = "approved"
                     => i \in DOMAIN workflow' /\ workflow'[i] = workflow[i]
<1>1. IInv /\ [Next]_vars => [Good]_vars
  <2> SUFFICES ASSUME IInv, Next
               PROVE  Good
    OBVIOUS
  <2> QED
    BY WorkflowStep DEF IInv, Keeps
<1> QED
  BY <1>1, Invariant, PTL DEF Spec, ApprovedRevisionsAreKept

(* What Handoff takes leases to be is what ExternalRelay makes of them:    *)
(* the lease of the chat's session behaves as SessionLease says.           *)
THEOREM Implementation == Spec => ImplementsSessionLease
<1>1. Init => Binding!LeaseInit
  BY DEF Init, Held, Binding!LeaseInit
<1>2. IInv /\ [Next]_vars => [Binding!LeaseNext]_(Binding!leaseVars)
  <2> SUFFICES ASSUME IInv, Next
               PROVE  [Binding!LeaseNext]_(Binding!leaseVars)
    BY DEF vars, relayVars, Held, Binding!leaseVars
  <2>1. CASE Bind
    <3>1. 0 # granted + 1 /\ Held = {} /\ Held' = {<<granted + 1, "chat">>}
      BY <2>1 DEF Bind, Held, IInv, TypeOK
    <3> QED
      BY <2>1, <3>1 DEF Bind, Binding!LeaseNext, Binding!Grant
  <2>2. CASE lease' \in {lease, 0} /\ UNCHANGED granted
    <3>1. Held' \subseteq Held
      BY <2>2 DEF Held
    <3> QED
      BY <2>2, <3>1 DEF Binding!LeaseNext, Binding!GiveUp
  <2>3. CASE RevokeLease \/ LeaseExpires \/ DropLapsed
    BY <2>2, <2>3 DEF RevokeLease, LeaseExpires, DropLapsed
  <2> QED
    BY <2>1, <2>2, <2>3, RelayMoves
<1> QED
  BY <1>1, <1>2, Invariant, PTL DEF Spec, ImplementsSessionLease, Binding!LeaseSpec
=============================================================================
