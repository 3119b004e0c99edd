------------------------- MODULE MCDeploymentBridge -------------------------
(* Three deployments: two artifacts, one artifact that the first has too,  *)
(* and none at all.                                                        *)
EXTENDS DeploymentBridge, TLC

CONSTANTS d1, d2, d3, f1, f2

MCDeployments == {d1, d2, d3}
MCFiles == {f1, f2}
MCArtifacts == (d1 :> <<f1, f2>>) @@ (d2 :> <<f2>>) @@ (d3 :> <<>>)
=============================================================================
