---------------------------- MODULE LeadPipeline ----------------------------
(***************************************************************************)
(* Phase 1 and Phase 2 side by side: ingestion runs keep adding handoffs   *)
(* while Phase 2 executors list and resolve them.                          *)
(***************************************************************************)
EXTENDS Phase1Intake, Phase2Run

(* Search and the extractor answer for every lead.                         *)
ASSUME LeadsAssumption ==
    \A file \in DOMAIN Files :
        DOMAIN Files[file].rows \subseteq DOMAIN SearchAnswers \cap DOMAIN Answers

pipelineVars == <<handoffs, intakeVars, phase2Vars>>

Init == HandoffInit /\ IntakeInit /\ ResolutionInit

Next ==
    \/ IntakeNext /\ UNCHANGED phase2Vars
    \/ ResolutionNext /\ UNCHANGED intakeVars

Spec == Init /\ [][Next]_pipelineVars

(* What Phase 2 matched is a lead whose own record Phase 1 accepted: no    *)
(* decision is stored for a record that is in error.                       *)
DecisionsAreAccepted ==
    \A r \in decisionRows : \E x \in sourceRecords :
        x.key = r.decision.lead /\ Quality(x) \in AcceptedStates
=============================================================================
