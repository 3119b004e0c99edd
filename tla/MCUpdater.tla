----------------------------- MODULE MCUpdater -----------------------------
(* Two actions, one with an artifact and one without, so that an answer of *)
(* one could be taken for the other's.                                     *)
EXTENDS Updater, TLC

CONSTANTS a1, a2, f1

MCActions == {a1, a2}
MCArtifacts == (a1 :> <<f1>>) @@ (a2 :> <<>>)
MCDeploymentResponses ==
    [execution : {"CLOSED", "REJECTED"}, listener : {TRUE}, ignoreSleep : {TRUE}]
MCCancelResponses == {CancelResponse}
=============================================================================
