----------------------------- MODULE MCRunParts -----------------------------
(***************************************************************************)
(* Instances for TLC of three parts of a run that work under its context:  *)
(* the tool batch, the retrier and the delegation.  They share no state    *)
(* here; a behaviour explores one of them, its focus, and the others stay  *)
(* in an initial state.                                                    *)
(***************************************************************************)
EXTENDS ToolBatch, Retrier, Delegation

VARIABLE focus

ASSUME RunPartsAssumption ==
  ToolBatchAssumption /\ WidthAssumption /\ RetrierAssumption /\ DelegationAssumption

\* No policy, bash allowed, and one with each decision.
MCPolicies == {<<>>, [bash |-> "allow"], [bash |-> "prompt", write |-> "deny", task |-> "allow"]}

PartsInit ==
  /\ focus \in {"tools", "retrier", "work"}
  /\ IF focus = "tools" THEN TRUE ELSE mode = CHOOSE m \in Modes : TRUE
  /\ BatchInit
  /\ RetryInit
  /\ IF focus = "work" THEN TRUE ELSE policy = CHOOSE p \in Policies : TRUE
  /\ IF focus = "work" THEN TRUE ELSE liveMode = "default"
  /\ DelegationInit

PartsNext ==
  \/ focus = "tools" /\ BatchNext /\ UNCHANGED <<focus, retryVars, delegationVars>>
  \/ focus = "retrier" /\ RetryNext /\ UNCHANGED <<focus, toolVars, delegationVars>>
  \/ focus = "work" /\ DelegationNext /\ UNCHANGED <<focus, toolVars, retryVars>>

\* The fairness of each part, for the behaviours that explore it.
PartsFairness ==
  /\ \A c \in Call :
       /\ WF_toolVars(focus = "tools" /\ CallStep(c))
       /\ \A k \in 1..Updates : /\ WF_toolVars(focus = "tools" /\ EmitUpdate(c, k))
                                /\ WF_toolVars(focus = "tools" /\ UpdateEmitted(c, k))
  /\ WF_toolVars(focus = "tools" /\ BatchStep)
  /\ WF_retryVars(focus = "retrier" /\ (Begin \/ WakeUp))
  /\ WF_retryVars(focus = "retrier" /\ CancelledProducer)
  /\ WF_delegationVars(focus = "work" /\ DelegationStep)

PartsSpec ==
  PartsInit /\ [][PartsNext]_<<focus, toolVars, retryVars, delegationVars>> /\ PartsFairness

----------------------------------------------------------------------------
(* Liveness, each promise for the behaviours that explore its part.        *)

ToolsReturn == focus = "tools" => BatchReturns
RetriesEnd == focus = "retrier" => StreamEnds
=============================================================================
