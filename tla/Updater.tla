------------------------------- MODULE Updater -------------------------------
(***************************************************************************)
(* The updater as one process: the poll loop of the native client, the     *)
(* Handler it calls (interop/src/main.cpp) and the consumer task of the    *)
(* loader, against a server that offers, cancels and ends actions.         *)
(*                                                                         *)
(* HawkbitCommunicationClient and DeploymentBridge share the client        *)
(* thread: what is one step of the loop there, onDeploymentAction, is the  *)
(* whole packet and the wait for the answer here, and the response is the  *)
(* consumer's.  A step of the updater is a step of the loop, of the        *)
(* bridge, or of both.  startClient() builds a client with a gateway       *)
(* token, which renews nothing.                                            *)
(***************************************************************************)
EXTENDS HawkbitCommunicationClient, Sequences, FiniteSets

CONSTANTS Files, NoFile, Artifacts    \* as in DeploymentBridge

ASSUME UpdaterFilesAssumption ==
    /\ IsFiniteSet(Files)
    /\ NoFile \notin Files
    /\ Artifacts \in [Actions -> Seq(Files)]

VARIABLES m_messageBuffer, m_responseBuffer, clientPc, deployment, next,
          updResponse, consumerPc, fileDataModels, executed, response,
          outcome,      \* history: the consumer's last answer for an action
          confirmed     \* history: actions whose cancellation was confirmed

B == INSTANCE DeploymentBridge WITH Deployments <- Actions, NoDeployment <- NoAction

bridgeVars == <<m_messageBuffer, m_responseBuffer, clientPc, deployment, next,
                updResponse, consumerPc, fileDataModels, executed, response>>
history == <<outcome, confirmed>>
updaterVars == <<vars, bridgeVars, history>>

UpdaterInit ==
    /\ Init
    /\ provisioning = FALSE
    /\ B!Init
    /\ outcome = [a \in Actions |-> NotReported]
    /\ confirmed = {}

(***************************************************************************)
(* What the Handler answers.                                               *)
(***************************************************************************)
DeploymentResponse(r) ==
    [execution |-> B!Execution(r), listener |-> TRUE, ignoreSleep |-> TRUE]
CancelResponse == [execution |-> "CLOSED", listener |-> FALSE, ignoreSleep |-> TRUE]

ASSUME HandlerAssumption ==
    /\ [execution : {"CLOSED", "REJECTED"}, listener : {TRUE}, ignoreSleep : {TRUE}]
           \subseteq DeploymentResponses
    /\ CancelResponse \in CancelResponses

(***************************************************************************)
(* The client thread outside onDeploymentAction.                           *)
(***************************************************************************)
LoopAlone ==
    /\ \/ \E t \in SleepTimes : DoPoll(t)
       \/ FollowConfigData(TRUE)
       \/ FetchCancelAction
       \/ FetchDeployment
       \/ OnCancelAction(CancelResponse)
       \/ Sleep
    /\ UNCHANGED <<bridgeVars, history>>

ServerAlone == ServerStep /\ UNCHANGED <<bridgeVars, history>>

ConfirmCancel ==
    /\ link.rel = "cancelAction"
    /\ SendFeedback
    /\ confirmed' = confirmed \cup {link.action}
    /\ UNCHANGED <<bridgeVars, outcome>>

(***************************************************************************)
(* onDeploymentAction: from the call to the response.                      *)
(***************************************************************************)
BeginDeployment ==
    /\ pc = "handler"
    /\ link.rel = "deploymentBase"
    /\ B!OnDeploymentAction(link.action)
    /\ UNCHANGED <<vars, history>>

HandlerAlone ==
    /\ clientPc # "feedback"
    /\ B!HandlerStep
    /\ UNCHANGED <<vars, history>>

ReturnResponse ==
    /\ clientPc = "feedback"
    /\ OnDeploymentAction(DeploymentResponse(updResponse))
    /\ UNCHANGED <<bridgeVars, history>>

DeliverFeedback ==
    /\ link.rel = "deploymentBase"
    /\ SendFeedback
    /\ B!SendFeedback
    /\ UNCHANGED history

RefuseFeedback ==
    /\ FeedbackRefused
    /\ B!SendFeedback
    /\ UNCHANGED history

(***************************************************************************)
(* The consumer task.  An answer is what the consumer makes of an action.  *)
(***************************************************************************)
ConsumerAlone ==
    /\ B!ConsumerStep
    /\ outcome' = IF consumerPc' = "respond"
                  THEN [outcome EXCEPT ![deployment] = B!Execution(response')]
                  ELSE outcome
    /\ UNCHANGED <<vars, confirmed>>

(***************************************************************************)
(* The end of the loop, and of the process.                                *)
(***************************************************************************)
(* A plausible error: the loop's task ends and the handler stays entered. *)
ThrowsInsideHandler ==
    /\ RunThrows
    /\ UNCHANGED <<bridgeVars, history>>

(* An exception ends the loop; the consumer stays where it is. *)
Throws ==
    /\ RunThrows
    /\ B!ClientThrows
    /\ UNCHANGED history

LoseFeedbackAnswer ==
    /\ FeedbackUnanswered
    /\ B!ClientThrows
    /\ confirmed' = IF link.rel = "cancelAction" THEN confirmed \cup {link.action}
                                                 ELSE confirmed
    /\ UNCHANGED outcome

(* The process ends at a request, or anywhere in the handler. *)
Crash ==
    /\ RunThrows
    /\ B!Restart
    /\ UNCHANGED history

StartAgain ==
    /\ Restart
    /\ B!Restart
    /\ UNCHANGED history

-----------------------------------------------------------------------------
ClientThread ==
    \/ LoopAlone \/ ConfirmCancel
    \/ BeginDeployment \/ HandlerAlone \/ ReturnResponse
    \/ DeliverFeedback \/ RefuseFeedback

UpdaterNext ==
    \/ ClientThread
    \/ ServerAlone
    \/ ConsumerAlone
    \/ Throws \/ LoseFeedbackAnswer
    \/ Crash \/ StartAgain

UpdaterSpec == UpdaterInit /\ [][UpdaterNext]_updaterVars

(* Both threads go on, requests are answered or lost, commands return, and *)
(* the server does not refuse feedback for ever.                           *)
FairUpdaterSpec ==
    /\ UpdaterSpec
    /\ WF_updaterVars(ClientThread \/ Throws)
    /\ WF_updaterVars(ConsumerAlone)
    /\ SF_updaterVars(DeliverFeedback)

-----------------------------------------------------------------------------
(* The client thread is between the call and the end of the feedback. *)
InDeployment == clientPc \notin {"poll", "dead"}

ThreadsAgree ==
    /\ InDeployment =>
          /\ link = Link("deploymentBase", deployment)
          /\ pc = "handler" \/ (pc = "feedback" /\ clientPc = "feedback")
    /\ clientPc = "dead" => pc = "dead"

(***************************************************************************)
(* Types, and that the two views of the client thread agree: it is inside  *)
(* onDeploymentAction, or has its response to deliver, in both or neither, *)
(* and for the same action.                                                *)
(***************************************************************************)
UpdaterTypeOK ==
    /\ TypeOK
    /\ B!TypeOK
    /\ outcome \in [Actions -> {"CLOSED", "REJECTED", NotReported}]
    /\ confirmed \subseteq Actions
    /\ ThreadsAgree

(***************************************************************************)
(* The server closes an action with what the consumer made of it at its    *)
(* last execution - through two buffers, two threads, answers that are     *)
(* lost, refused feedback, repeated offers and restarts of the process     *)
(* (onDeploymentAction, DataConsumer.StartAsync).                          *)
(***************************************************************************)
VerdictOfDevice ==
    \A a \in Actions : status[a] = "closed" =>
        outcome[a] # NotReported /\ report[a] = outcome[a]

(***************************************************************************)
(* Nothing of an action is collected, executed, committed or rolled back   *)
(* after this client confirmed that it is cancelled: onCancelAction does   *)
(* not ask the consumer, and need not.                                     *)
(***************************************************************************)
NoWorkAfterCancel == consumerPc # "start" => deployment \notin confirmed

(***************************************************************************)
(* An offered deployment is decided: the consumer executes it and the      *)
(* server learns how it ended, unless it is cancelled - also when the loop *)
(* ends inside a packet and the process is started again, and whatever is  *)
(* lost or refused on the way.  Excepted are a loop that ends again and    *)
(* again, or for good, and a server that asks anew for the configuration   *)
(* for ever; that the request is met each time is up to the Handler.       *)
(***************************************************************************)
ConfigAskedFinitely == <>[][configWanted' => configWanted]_updaterVars

OfferedIsDecided ==
    LoopLivesOn /\ ConfigAskedFinitely =>
        \A a \in Actions :
            status[a] = "running"
                ~> \/ outcome[a] # NotReported /\ report[a] # NotReported
                   \/ status[a] # "running"
=============================================================================
