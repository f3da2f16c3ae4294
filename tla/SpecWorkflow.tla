---------------------------- MODULE SpecWorkflow ----------------------------
(***************************************************************************)
(* The spec of one chat: src/core/spec-workflow.ts as operators on the     *)
(* sequence of revisions, with the part of src/core/spec-policy.ts that    *)
(* decides which revision may be approved.  The text of the sections is    *)
(* left out; what is kept of it is which sections are empty.               *)
(***************************************************************************)
EXTENDS Naturals, Sequences

CONSTANTS
  ModeSections,  \* requiredSectionsForApproval of the session's mode
  AllowForce     \* its allowForceApproval

Sections == {"REQUEST", "GOAL", "OUTCOME", "CONSTRAINTS", "NON_GOALS", "CONTEXT",
             "ASSUMPTIONS", "QUESTIONS", "PLAN", "APPROVALS_REQUIRED", "DONE_WHEN"}

(* REQUIRED_SECTIONS, asked for in every mode.                             *)
RequiredSections == {"REQUEST", "GOAL", "OUTCOME", "PLAN", "DONE_WHEN"}

ASSUME PolicyIsWellFormed == ModeSections \subseteq Sections /\ AllowForce \in BOOLEAN

Revisions == [version: Nat, stage: {"raw", "interpreted", "clarified", "approved"},
              status: {"draft", "approved"}, empty: SUBSET Sections]

NoWorkflow == <<>>

CreateInitialWorkflow ==
  << [version |-> 0, stage |-> "raw", status |-> "draft",
      empty |-> Sections \ {"REQUEST", "ASSUMPTIONS", "QUESTIONS"}],
     [version |-> 1, stage |-> "interpreted", status |-> "draft", empty |-> {}] >>

GetCurrentRevision(workflow) == workflow[Len(workflow)]

(* A clarification adds to CONTEXT; the two questions createInitialWorkflow *)
(* asks are taken out, and nothing takes their place.                      *)
ReplacesCurrent(workflow, revision) == [workflow EXCEPT ![Len(workflow)] = revision]
NextRevision(workflow, revision)    == Append(workflow, revision)

AddClarification(workflow) ==
  LET current == GetCurrentRevision(workflow) IN
  NextRevision(workflow,
    [current EXCEPT !.version = @ + 1, !.stage = "clarified", !.status = "draft",
                    !.empty = (@ \ {"CONTEXT"}) \cup {"ASSUMPTIONS", "QUESTIONS"}])

ApproveCurrentRevision(workflow) ==
  [workflow EXCEPT ![Len(workflow)].stage = "approved",
                   ![Len(workflow)].status = "approved"]

(* SpecPolicyEngine.listMissingSectionsForMode.                            *)
ListMissingSectionsForMode(revision) ==
  revision.empty \cap (RequiredSections \cup ModeSections)

(* What handleSpecCommand asks of /spec approve [force].                   *)
MayApprove(workflow, force) ==
  \/ ListMissingSectionsForMode(GetCurrentRevision(workflow)) = {}
  \/ AllowForce /\ force

(* The workflow a handoff brings along to a chat that has none.            *)
BootstrappedWorkflow(expected) ==
  LET first == ApproveCurrentRevision(CreateInitialWorkflow) IN
  IF expected > 1
    THEN Append(first, [GetCurrentRevision(first) EXCEPT !.version = expected])
    ELSE first

(* CodeFoxController.validateHandoffSpecRef, for the reference v<expected>. *)
MatchesApproved(workflow, expected) ==
  /\ workflow # NoWorkflow
  /\ GetCurrentRevision(workflow).status = "approved"
  /\ GetCurrentRevision(workflow).version = expected
=============================================================================
