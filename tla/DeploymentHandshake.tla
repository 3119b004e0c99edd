------------------------ MODULE DeploymentHandshake ------------------------
(***************************************************************************)
(* What the hawkBit client may rely on when it hands a deployment to the   *)
(* loader: the loader applies exactly the artifacts of that deployment,    *)
(* once, decides, and the verdict the client reports is the one that was   *)
(* reached for this deployment.  A deployment can be given up (the client  *)
(* fails, the process restarts), but it is never mixed up with another.    *)
(* DeploymentBridge, with its two threads and two buffers, implements it.  *)
(***************************************************************************)
EXTENDS Sequences

CONSTANTS Deployments,   \* the deployments the server can offer
          NoDeployment,  \* no deployment was offered yet
          Artifacts,     \* Artifacts[d]: the files of deployment d, in order
          Verdicts,      \* what the loader can answer
          NoVerdict      \* nothing was decided yet

VARIABLES phase,         \* "idle", "offered", "applied" or "decided"
          offered,       \* the deployment being, or last, handled
          applied,       \* the files the loader applied last
          verdict        \* the answer, once phase is "decided"

hsVars == <<phase, offered, applied, verdict>>

HSInit ==
    /\ phase = "idle"
    /\ offered = NoDeployment
    /\ applied = <<>>
    /\ verdict = NoVerdict

Offer(d) ==
    /\ phase = "idle"
    /\ phase' = "offered"
    /\ offered' = d
    /\ UNCHANGED <<applied, verdict>>

Apply ==
    /\ phase = "offered"
    /\ phase' = "applied"
    /\ applied' = Artifacts[offered]
    /\ UNCHANGED <<offered, verdict>>

Decide(v) ==
    /\ phase = "applied"
    /\ phase' = "decided"
    /\ verdict' = v
    /\ UNCHANGED <<offered, applied>>

Report ==
    /\ phase = "decided"
    /\ phase' = "idle"
    /\ UNCHANGED <<offered, applied, verdict>>

(* The client failed before the loader had the whole deployment. *)
GiveUp ==
    /\ phase = "offered"
    /\ phase' = "idle"
    /\ UNCHANGED <<offered, applied, verdict>>

(* The process restarted: nothing is remembered. *)
Forget ==
    /\ phase' = "idle"
    /\ offered' = NoDeployment
    /\ applied' = <<>>
    /\ verdict' = NoVerdict

HSNext ==
    \/ \E d \in Deployments : Offer(d)
    \/ Apply
    \/ \E v \in Verdicts : Decide(v)
    \/ Report
    \/ GiveUp
    \/ Forget

HSSpec == HSInit /\ [][HSNext]_hsVars
=============================================================================
