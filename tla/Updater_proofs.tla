---------------------------- MODULE Updater_proofs ----------------------------
(***************************************************************************)
(* Theorems about the updater as a whole.  It implements the poll loop and *)
(* the bridge, so what is proved of each of them holds of it; on top of    *)
(* that stands what only the two together promise.                         *)
(***************************************************************************)
EXTENDS Updater, HawkbitCommunicationClient_proofs, SequenceTheorems

BP == INSTANCE DeploymentBridge_proofs
         WITH Deployments <- Actions, NoDeployment <- NoAction

LEMMA InitParts == UpdaterInit => Init /\ B!Init
  BY DEF UpdaterInit

LEMMA HandlerResponses ==
    /\ \A r : DeploymentResponse(r) \in DeploymentResponses
    /\ CancelResponse \in CancelResponses
  BY HandlerAssumption DEF DeploymentResponse, B!Execution

(* The poll loop's view of a step. *)
LEMMA StepImplementsLoop == [UpdaterNext]_updaterVars => [Next]_vars
<1> SUFFICES ASSUME [UpdaterNext]_updaterVars PROVE [Next]_vars
  OBVIOUS
<1>1. CASE LoopAlone
  BY <1>1, HandlerResponses DEF LoopAlone, Next, LoopStep
<1>2. CASE ServerAlone
  BY <1>2 DEF ServerAlone, Next
<1>3. CASE ConfirmCancel
  BY <1>3 DEF ConfirmCancel, Next, LoopStep
<1>4. CASE BeginDeployment \/ HandlerAlone \/ ConsumerAlone
  BY <1>4 DEF BeginDeployment, HandlerAlone, ConsumerAlone
<1>5. CASE ReturnResponse
  BY <1>5, HandlerResponses DEF ReturnResponse, Next, LoopStep
<1>6. CASE DeliverFeedback \/ RefuseFeedback
  BY <1>6 DEF DeliverFeedback, RefuseFeedback, Next, LoopStep
<1>7. CASE Throws \/ LoseFeedbackAnswer \/ Crash
  BY <1>7 DEF Throws, LoseFeedbackAnswer, Crash, Next, LoopStep
<1>8. CASE StartAgain
  BY <1>8 DEF StartAgain, Next
<1>9. CASE UNCHANGED updaterVars
  BY <1>9 DEF updaterVars
<1> QED BY <1>1, <1>2, <1>3, <1>4, <1>5, <1>6, <1>7, <1>8, <1>9
      DEF UpdaterNext, ClientThread

(* The bridge's view of a step. *)
LEMMA StepImplementsBridge ==
    ASSUME TypeOK, [UpdaterNext]_updaterVars PROVE [B!Next]_(B!vars)
<1>1. CASE BeginDeployment
  <2>1. link.action \in Actions
    BY <1>1 DEF BeginDeployment, TypeOK, LoopTypeOK
  <2> QED BY <1>1, <2>1 DEF BeginDeployment, B!Next
<1>2. CASE HandlerAlone \/ ConsumerAlone
  BY <1>2 DEF HandlerAlone, ConsumerAlone, B!Next
<1>3. CASE DeliverFeedback \/ RefuseFeedback
  BY <1>3 DEF DeliverFeedback, RefuseFeedback, B!Next, B!HandlerStep
<1>4. CASE Throws \/ LoseFeedbackAnswer \/ Crash \/ StartAgain
  BY <1>4 DEF Throws, LoseFeedbackAnswer, Crash, StartAgain, B!Next
<1>5. CASE LoopAlone \/ ServerAlone \/ ConfirmCancel \/ ReturnResponse
           \/ UNCHANGED updaterVars
  BY <1>5 DEF LoopAlone, ServerAlone, ConfirmCancel, ReturnResponse,
              updaterVars, bridgeVars, B!vars
<1> QED BY <1>1, <1>2, <1>3, <1>4, <1>5 DEF UpdaterNext, ClientThread

(***************************************************************************)
(* The updater is the poll loop with one particular handler, so the loop's *)
(* theorems are the updater's (startClient, Handler).                      *)
(***************************************************************************)
THEOREM UpdaterImplementsLoop == UpdaterSpec => Spec
  BY InitParts, StepImplementsLoop, PTL DEF UpdaterSpec, Spec

LEMMA LoopInvariant == UpdaterSpec => []IInv
  BY UpdaterImplementsLoop, Invariant, PTL

LEMMA LoopTypes == IInv => TypeOK
  BY DEF IInv

(***************************************************************************)
(* The updater is the bridge with a client thread that polls, so the       *)
(* bridge's theorems are the updater's (onDeploymentAction, StartAsync).   *)
(***************************************************************************)
THEOREM UpdaterImplementsBridge == UpdaterSpec => B!Spec
<1>1. UpdaterInit => B!Init
  BY InitParts
<1>2. IInv /\ [UpdaterNext]_updaterVars => [B!Next]_(B!vars)
  BY LoopTypes, StepImplementsBridge
<1> QED BY <1>1, <1>2, LoopInvariant, PTL DEF UpdaterSpec, B!Spec

(* The same definitions through the two instances. *)
LEMMA SameFileLists == B!FileLists = BP!FileLists
<1>1. B!Cardinality(Files) = BP!Cardinality(Files)
  BY DEF B!Cardinality, BP!Cardinality, B!IsFiniteSet, BP!IsFiniteSet
<1> QED BY <1>1 DEF B!FileLists, BP!FileLists

LEMMA SameBridge == B!Spec => BP!Spec
<1>1. B!Init => BP!Init
  BY DEF B!Init, BP!Init, B!EmptyResponse, BP!EmptyResponse
<1>2. ASSUME NEW d \in Actions PROVE B!OnDeploymentAction(d) => BP!OnDeploymentAction(d)
    BY DEF B!OnDeploymentAction, BP!OnDeploymentAction, B!buffers,
         BP!buffers, B!consumerVars, BP!consumerVars
<1>3. B!PutStart => BP!PutStart
    BY DEF B!PutStart, BP!PutStart, B!PutMessage, BP!PutMessage, B!Signal,
         BP!Signal, B!consumerVars, BP!consumerVars
<1>4. B!PutBegin => BP!PutBegin
    BY DEF B!PutBegin, BP!PutBegin, B!PutMessage, BP!PutMessage, B!Signal,
         BP!Signal, B!consumerVars, BP!consumerVars
<1>5. B!DownloadTo => BP!DownloadTo
    BY DEF B!DownloadTo, BP!DownloadTo, B!buffers, BP!buffers,
         B!consumerVars, BP!consumerVars
<1>6. B!PutContent => BP!PutContent
    BY DEF B!PutContent, BP!PutContent, B!PutMessage, BP!PutMessage,
         B!Content, BP!Content, B!consumerVars, BP!consumerVars
<1>7. B!PutEnd => BP!PutEnd
    BY DEF B!PutEnd, BP!PutEnd, B!PutMessage, BP!PutMessage, B!Signal,
         BP!Signal, B!consumerVars, BP!consumerVars
<1>8. B!GetResponse => BP!GetResponse
    BY DEF B!GetResponse, BP!GetResponse, B!consumerVars, BP!consumerVars
<1>9. B!SendFeedback => BP!SendFeedback
    BY DEF B!SendFeedback, BP!SendFeedback, B!buffers, BP!buffers,
         B!consumerVars, BP!consumerVars
<1>10. B!ClientThrows => BP!ClientThrows
    BY DEF B!ClientThrows, BP!ClientThrows, B!buffers, BP!buffers,
         B!consumerVars, BP!consumerVars
<1>11. B!GetStart => BP!GetStart
    BY DEF B!GetStart, BP!GetStart, B!GetMessage, BP!GetMessage, B!Catch,
         BP!Catch, B!Failure, BP!Failure, B!EmptyResponse, BP!EmptyResponse,
         B!clientVars, BP!clientVars
<1>12. B!GetBegin => BP!GetBegin
    BY DEF B!GetBegin, BP!GetBegin, B!GetMessage, BP!GetMessage, B!Catch,
         BP!Catch, B!Failure, BP!Failure, B!clientVars, BP!clientVars
<1>13. B!GetPayload => BP!GetPayload
    BY DEF B!GetPayload, BP!GetPayload, B!GetMessage, BP!GetMessage,
         B!clientVars, BP!clientVars
<1>14. B!Execute => BP!Execute
    BY DEF B!Execute, BP!Execute, B!Catch, BP!Catch, B!Failure, BP!Failure,
         B!buffers, BP!buffers, B!clientVars, BP!clientVars
<1>15. B!CommitTransaction => BP!CommitTransaction
    BY DEF B!CommitTransaction, BP!CommitTransaction, B!Catch, BP!Catch,
         B!Failure, BP!Failure, B!Success, BP!Success, B!buffers,
         BP!buffers, B!clientVars, BP!clientVars
<1>16. B!RollBackTransaction => BP!RollBackTransaction
  BY SameFileLists DEF B!RollBackTransaction, BP!RollBackTransaction, B!Catch,
         BP!Catch, B!Failure, BP!Failure, B!RolledBack, BP!RolledBack,
         B!buffers, BP!buffers, B!clientVars, BP!clientVars
<1>17. B!PutResponse => BP!PutResponse
    BY DEF B!PutResponse, BP!PutResponse, B!clientVars, BP!clientVars
<1>18. B!Restart => BP!Restart
    BY DEF B!Restart, BP!Restart, B!EmptyResponse, BP!EmptyResponse
<1>19. UNCHANGED B!vars => UNCHANGED BP!vars
  BY DEF B!vars, BP!vars
<1>20. [B!Next]_(B!vars) => [BP!Next]_(BP!vars)
  BY <1>2, <1>3, <1>4, <1>5, <1>6, <1>7, <1>8, <1>9, <1>10, <1>11,
     <1>12, <1>13, <1>14, <1>15, <1>16, <1>17, <1>18, <1>19
     DEF B!HandlerStep, BP!HandlerStep, B!ConsumerStep, BP!ConsumerStep,
         B!Next, BP!Next
<1> QED BY <1>1, <1>20, PTL DEF B!Spec, BP!Spec

(* What is proved of the bridge holds under its assumptions, which are ours. *)
LEMMA BridgeInvariant == UpdaterSpec => []BP!IInv
<1>1. IsFiniteSet(Files) => BP!IsFiniteSet(Files)
  BY DEF IsFiniteSet, BP!IsFiniteSet
<1>2. BP!Spec => []BP!IInv
  BY BP!SpecIInv, <1>1, UpdaterFilesAssumption, NullAssumption
<1> QED BY UpdaterImplementsBridge, SameBridge, <1>2, PTL

-----------------------------------------------------------------------------
(***************************************************************************)
(* What the updater needs of the bridge's invariant.                       *)
(***************************************************************************)
BridgeFacts ==
    /\ clientPc \in {"poll", "start", "begin", "artifact", "content", "response",
                    "feedback", "dead"}
    /\ clientPc \in {"poll", "feedback"} => consumerPc = "start" /\ m_messageBuffer = <<>>
    /\ clientPc = "dead" => consumerPc \in {"start", "begin", "payload"}
    /\ consumerPc = "respond" => clientPc = "response"
    /\ m_responseBuffer # <<>> => clientPc = "response" /\ consumerPc = "start"
    /\ InDeployment => deployment \in Actions
    /\ deployment \in Actions \cup {NoAction}

LEMMA FactsOfBridge == BP!IInv => BridgeFacts
<1> SUFFICES ASSUME BP!IInv PROVE BridgeFacts
  OBVIOUS
<1> USE DEF BP!IInv
<1>1. /\ clientPc \in {"poll", "start", "begin", "artifact", "content", "response",
                       "feedback", "dead"}
      /\ InDeployment => deployment \in Actions
      /\ deployment \in Actions \cup {NoAction}
      /\ consumerPc \in {"start", "begin", "payload", "execute", "commit",
                         "rollback", "respond"}
  BY DEF BP!TypeOK, BP!ClientLabels, BP!ConsumerLabels, InDeployment
<1>2. clientPc \in {"poll", "feedback"} => 
         consumerPc = "start" /\ m_messageBuffer = <<>> /\ m_responseBuffer = <<>>
  BY DEF BP!IdleInv
<1>3. clientPc = "dead" =>
         consumerPc \in {"start", "begin", "payload"} /\ m_responseBuffer = <<>>
  BY DEF BP!DeadInv, BP!Receiving
<1>4. clientPc \in {"start", "begin", "artifact", "content"} =>
         consumerPc \in {"start", "begin", "payload"} /\ m_responseBuffer = <<>>
  BY DEF BP!SendingInv, BP!Sending, BP!Receiving
<1>5. clientPc = "response" /\ m_responseBuffer # <<>> => consumerPc = "start"
  BY DEF BP!WaitingInv
<1> QED BY <1>1, <1>2, <1>3, <1>4, <1>5 DEF BridgeFacts

(***************************************************************************)
(* The way of a verdict: from the consumer's answer through the buffer,    *)
(* the handler's local and the response to the feedback it is always that  *)
(* of the deployment under way.                                            *)
(***************************************************************************)
CarriedInv ==
    /\ consumerPc = "respond" => outcome[deployment] = B!Execution(response)
    /\ m_responseBuffer # <<>> => outcome[deployment] = B!Execution(Head(m_responseBuffer))
    /\ clientPc = "feedback" => outcome[deployment] = B!Execution(updResponse)
    /\ pc = "feedback" /\ link.rel = "deploymentBase"
          => outcome[link.action] = cliResp.execution

(* A confirmed cancellation is final, and not of the action under way. *)
CancelInv ==
    /\ \A a \in confirmed : status[a] = "canceled"
    /\ pc \in {"handler", "feedback"} /\ link.rel = "deploymentBase"
          => link.action \notin confirmed
    /\ clientPc = "dead" /\ (consumerPc # "start" \/ m_messageBuffer # <<>>)
          => deployment \notin confirmed
    /\ pc = "feedback" /\ link.rel = "cancelAction" => cliResp.execution = "CLOSED"

HistoryType ==
    /\ outcome \in [Actions -> {"CLOSED", "REJECTED", NotReported}]
    /\ confirmed \subseteq Actions

UInv ==
    /\ ThreadsAgree
    /\ HistoryType
    /\ CarriedInv
    /\ VerdictOfDevice
    /\ CancelInv

(* The invariants of the two components, before and after a step. *)
Known == IInv /\ BridgeFacts

LEMMA InitUInv == UpdaterInit => UInv
<1> SUFFICES ASSUME UpdaterInit PROVE UInv
  OBVIOUS
<1> USE DEF UpdaterInit, Init, B!Init
<1>1. ThreadsAgree
  BY DEF ThreadsAgree, InDeployment
<1>2. HistoryType /\ CarriedInv
  BY DEF HistoryType, CarriedInv
<1>3. VerdictOfDevice /\ CancelInv
  BY DEF VerdictOfDevice, CancelInv
<1> QED BY <1>1, <1>2, <1>3 DEF UInv

LEMMA ThreadsStep ==
    ASSUME UInv, Known, [UpdaterNext]_updaterVars PROVE ThreadsAgree'
<1> USE DEF UInv, Known, ThreadsAgree, InDeployment
<1>1. CASE LoopAlone \/ ConfirmCancel
  <2>1. ~InDeployment
    <3>1. pc \in {"run", "follow", "sleep"} \/ link.rel = "cancelAction"
      BY <1>1 DEF LoopAlone, ConfirmCancel, DoPoll, FollowConfigData,
           FetchCancelAction, FetchDeployment, Fetch, OnCancelAction, Sleep, Answered
    <3> QED BY <3>1 DEF Link
  <2>2. pc # "dead"
    BY <1>1 DEF LoopAlone, ConfirmCancel, DoPoll, FollowConfigData, SendFeedback,
         FetchCancelAction, FetchDeployment, Fetch, OnCancelAction, Sleep, Answered
  <2>3. UNCHANGED clientPc
    BY <1>1 DEF LoopAlone, ConfirmCancel, bridgeVars
  <2> QED BY <2>1, <2>2, <2>3
<1>2. CASE BeginDeployment
  <2>1. link = Link("deploymentBase", link.action)
    BY <1>2 DEF BeginDeployment, IInv, TypeOK, LoopTypeOK, Link
  <2> QED BY <1>2, <2>1 DEF BeginDeployment, B!OnDeploymentAction, vars
<1>3. CASE HandlerAlone
  BY <1>3 DEF HandlerAlone, B!HandlerStep, B!PutStart, B!PutBegin, B!DownloadTo,
       B!PutContent, B!PutEnd, B!GetResponse, B!SendFeedback, vars
<1>4. CASE ReturnResponse
  BY <1>4 DEF ReturnResponse, OnDeploymentAction, bridgeVars
<1>5. CASE DeliverFeedback \/ RefuseFeedback
  BY <1>5 DEF DeliverFeedback, RefuseFeedback, B!SendFeedback
<1>6. CASE ConsumerAlone
  BY <1>6 DEF ConsumerAlone, B!ConsumerStep, B!GetStart, B!GetBegin, B!GetPayload,
       B!Execute, B!CommitTransaction, B!RollBackTransaction, B!PutResponse,
       B!clientVars, vars
<1>7. CASE Throws \/ LoseFeedbackAnswer
  BY <1>7 DEF Throws, LoseFeedbackAnswer, RunThrows, FeedbackUnanswered, B!ClientThrows
<1>8. CASE Crash \/ StartAgain
  BY <1>8 DEF Crash, StartAgain, B!Restart
<1>9. CASE ServerAlone \/ UNCHANGED updaterVars
  BY <1>9 DEF ServerAlone, ServerStep, updaterVars, vars, bridgeVars
<1> QED BY <1>1, <1>2, <1>3, <1>4, <1>5, <1>6, <1>7, <1>8, <1>9
      DEF UpdaterNext, ClientThread

(* A step of the consumer leaves the client thread where it is, and        *)
(* answers only while that thread waits.                                   *)
LEMMA ConsumerLeaves ==
    ASSUME ConsumerAlone, BridgeFacts'
    PROVE  /\ UNCHANGED <<clientPc, deployment, updResponse>>
           /\ consumerPc' = "respond" => clientPc = "response" /\ deployment \in Actions
           /\ outcome' = IF consumerPc' = "respond"
                         THEN [outcome EXCEPT ![deployment] = B!Execution(response')]
                         ELSE outcome
<1>1. UNCHANGED <<clientPc, deployment, updResponse>>
  BY DEF ConsumerAlone, B!ConsumerStep, B!GetStart, B!GetBegin, B!GetPayload,
     B!Execute, B!CommitTransaction, B!RollBackTransaction, B!PutResponse, B!clientVars
<1>2. consumerPc' = "respond" => clientPc' = "response" /\ deployment' \in Actions
  BY DEF BridgeFacts, InDeployment
<1> QED BY <1>1, <1>2 DEF ConsumerAlone

LEMMA ExecutionType == \A r : B!Execution(r) \in {"CLOSED", "REJECTED"}
  BY DEF B!Execution

LEMMA HistoryStep ==
    ASSUME UInv, Known, BridgeFacts', [UpdaterNext]_updaterVars PROVE HistoryType'
<1> USE DEF UInv, HistoryType
<1>1. CASE ConsumerAlone
  <2>1. UNCHANGED confirmed
    BY <1>1 DEF ConsumerAlone
  <2> QED BY <1>1, <2>1, ConsumerLeaves, ExecutionType
<1>2. CASE ConfirmCancel \/ LoseFeedbackAnswer
  <2>1. link.rel = "cancelAction" => link.action \in Actions
    BY DEF Known, IInv, TypeOK, LoopTypeOK
  <2>2. confirmed' \in {confirmed, confirmed \cup {link.action}}
        /\ (confirmed' # confirmed => link.rel = "cancelAction") /\ UNCHANGED outcome
    BY <1>2 DEF ConfirmCancel, LoseFeedbackAnswer
  <2> QED BY <2>1, <2>2
<1>3. CASE \/ LoopAlone \/ ServerAlone \/ BeginDeployment \/ HandlerAlone
           \/ ReturnResponse \/ DeliverFeedback \/ RefuseFeedback
           \/ Throws \/ Crash \/ StartAgain \/ UNCHANGED updaterVars
  BY <1>3 DEF LoopAlone, ServerAlone, BeginDeployment, HandlerAlone, ReturnResponse,
     DeliverFeedback, RefuseFeedback, Throws, Crash, StartAgain, updaterVars, history
<1> QED BY <1>1, <1>2, <1>3 DEF UpdaterNext, ClientThread

LEMMA CarriedStep ==
    ASSUME UInv, Known, BridgeFacts', [UpdaterNext]_updaterVars PROVE CarriedInv'
<1> USE DEF UInv, CarriedInv, Known
<1>1. CASE LoopAlone \/ ConfirmCancel
  <2>1. UNCHANGED <<bridgeVars, outcome>>
    BY <1>1 DEF LoopAlone, ConfirmCancel, history
  <2>2. ~(pc' = "feedback" /\ link'.rel = "deploymentBase")
    BY <1>1 DEF LoopAlone, ConfirmCancel, DoPoll, FollowConfigData, SendFeedback,
         FetchCancelAction, FetchDeployment, Fetch, OnCancelAction, Sleep, Return
  <2> QED BY <2>1, <2>2 DEF bridgeVars, B!Execution
<1>2. CASE BeginDeployment
  <2>1. /\ clientPc = "poll" /\ clientPc' = "start" /\ pc = "handler"
        /\ UNCHANGED <<consumerPc, m_responseBuffer, pc>>
    BY <1>2 DEF BeginDeployment, B!OnDeploymentAction, B!buffers, B!consumerVars, vars
  <2>2. consumerPc = "start" /\ m_responseBuffer = <<>>
    BY <2>1 DEF BridgeFacts
  <2> QED BY <2>1, <2>2
<1>3. CASE HandlerAlone
  <2>1. UNCHANGED <<pc, link, cliResp, outcome, deployment, consumerPc, response>>
    BY <1>3 DEF HandlerAlone, B!HandlerStep, B!PutStart, B!PutBegin, B!DownloadTo,
       B!PutContent, B!PutEnd, B!GetResponse, B!SendFeedback, vars, history,
       B!consumerVars
  <2>2. CASE B!GetResponse
    <3>1. /\ updResponse' = Head(m_responseBuffer) /\ m_responseBuffer # <<>>
          /\ clientPc' = "feedback"
      BY <2>2 DEF B!GetResponse
    <3>2. m_responseBuffer' = <<>>
      BY <3>1 DEF BridgeFacts
    <3> QED BY <2>1, <3>1, <3>2 DEF B!Execution
  <2>3. CASE B!PutStart \/ B!PutBegin \/ B!DownloadTo \/ B!PutContent \/ B!PutEnd
    <3>1. UNCHANGED m_responseBuffer /\ clientPc' # "feedback"
      BY <2>3 DEF B!PutStart, B!PutBegin, B!DownloadTo, B!PutContent, B!PutEnd, B!buffers
    <3> QED BY <2>1, <3>1 DEF B!Execution
  <2> QED BY <1>3, <2>2, <2>3 DEF HandlerAlone, B!HandlerStep, B!SendFeedback
<1>4. CASE ReturnResponse
  <2>1. /\ UNCHANGED <<bridgeVars, outcome, link>> /\ clientPc = "feedback"
        /\ cliResp' = DeploymentResponse(updResponse)
    BY <1>4 DEF ReturnResponse, OnDeploymentAction, history
  <2>2. link.action = deployment
    BY <2>1 DEF ThreadsAgree, InDeployment, Link
  <2>3. cliResp'.execution = outcome[deployment]
    BY <2>1 DEF DeploymentResponse
  <2> QED BY <2>1, <2>2, <2>3 DEF bridgeVars, B!Execution
<1>5. CASE DeliverFeedback \/ RefuseFeedback
  <2>1. pc' = "sleep" /\ UNCHANGED <<consumerPc, response, m_responseBuffer, outcome,
                                     deployment>> /\ clientPc' = "poll"
    BY <1>5 DEF DeliverFeedback, RefuseFeedback, SendFeedback, FeedbackRefused, Return,
         B!SendFeedback, B!buffers, B!consumerVars, history
  <2> QED BY <2>1 DEF B!Execution
<1>6. CASE ConsumerAlone
  <2>1. UNCHANGED <<pc, link, cliResp, clientPc, deployment, updResponse>>
    BY <1>6, ConsumerLeaves DEF ConsumerAlone, vars
  <2>2. CASE consumerPc' = "respond"
    <3>1. /\ clientPc = "response" /\ deployment \in Actions
          /\ outcome' = [outcome EXCEPT ![deployment] = B!Execution(response')]
      BY <1>6, <2>2, ConsumerLeaves
    <3>2. m_responseBuffer' = <<>>
      BY <2>2 DEF BridgeFacts
    <3>3. outcome'[deployment] = B!Execution(response')
      BY <3>1 DEF HistoryType
    <3>4. pc = "handler"
      BY <3>1 DEF ThreadsAgree, InDeployment
    <3> QED BY <2>1, <3>1, <3>2, <3>3, <3>4 DEF B!Execution
  <2>3. CASE consumerPc' # "respond"
    <3>1. UNCHANGED outcome
      BY <1>6, <2>3, ConsumerLeaves
    <3>2. CASE B!PutResponse
      <4>1. consumerPc = "respond" /\ m_responseBuffer' = Append(m_responseBuffer, response)
        BY <3>2 DEF B!PutResponse
      <4>2. m_responseBuffer = <<>>
        BY <4>1 DEF BridgeFacts
      <4>3. Head(m_responseBuffer') = response
        BY <4>1, <4>2
      <4> QED BY <2>1, <2>3, <3>1, <4>1, <4>3 DEF B!Execution
    <3>3. CASE UNCHANGED m_responseBuffer
      BY <2>1, <2>3, <3>1, <3>3 DEF B!Execution
    <3> QED BY <1>6, <3>2, <3>3
        DEF ConsumerAlone, B!ConsumerStep, B!GetStart, B!GetBegin, B!GetPayload,
            B!Execute, B!CommitTransaction, B!RollBackTransaction, B!buffers
  <2> QED BY <2>2, <2>3
<1>7. CASE Throws \/ LoseFeedbackAnswer
  <2>1. pc' = "dead" /\ clientPc' = "dead" /\ UNCHANGED outcome
    BY <1>7 DEF Throws, LoseFeedbackAnswer, RunThrows, FeedbackUnanswered,
         B!ClientThrows, history
  <2>2. consumerPc' # "respond" /\ m_responseBuffer' = <<>>
    BY <2>1 DEF BridgeFacts
  <2> QED BY <2>1, <2>2
<1>8. CASE Crash \/ StartAgain
  BY <1>8 DEF Crash, StartAgain, RunThrows, Restart, B!Restart
<1>9. CASE ServerAlone \/ UNCHANGED updaterVars
  BY <1>9 DEF ServerAlone, ServerStep, updaterVars, vars, bridgeVars, history, B!Execution
<1> QED BY <1>1, <1>2, <1>3, <1>4, <1>5, <1>6, <1>7, <1>8, <1>9
      DEF UpdaterNext, ClientThread

(* A feedback that the server takes, of a deployment or of a cancellation. *)
LEMMA FeedbackTaken ==
    ASSUME UInv, Known, pc = "feedback", TakeFeedback(link, cliResp.execution)
    PROVE  /\ link.action \in Actions /\ link.action \notin confirmed
           /\ \A a \in Actions : a # link.action =>
                  status'[a] = status[a] /\ report'[a] = report[a]
           /\ status'[link.action] = "closed" =>
                  /\ outcome[link.action] # NotReported
                  /\ report'[link.action] = outcome[link.action]
           /\ link.rel = "cancelAction" => status'[link.action] = "canceled"
<1> USE DEF UInv, Known, IInv
<1>1. /\ link.action \in Actions /\ cliResp \in Responses
      /\ link.rel \in {"cancelAction", "deploymentBase"}
  BY DEF TypeOK, LoopTypeOK
<1>2. link.action \notin confirmed
  BY DEF TakeFeedback, CancelInv, Open
<1>3. /\ \A a \in Actions : a # link.action =>
             status'[a] = status[a] /\ report'[a] = report[a]
      /\ status'[link.action] = "closed" =>
             link.rel = "deploymentBase" /\ report'[link.action] = cliResp.execution
  BY <1>1, TakeFeedbackEffect, NullAssumption DEF TypeOK
<1>4. status'[link.action] = "closed" =>
         outcome[link.action] # NotReported /\ report'[link.action] = outcome[link.action]
  <2>1. cliResp.execution # NotReported
    BY <1>1 DEF Responses, Executions, NotReported
  <2> QED BY <1>3, <2>1 DEF CarriedInv
<1>5. link.rel = "cancelAction" => status'[link.action] = "canceled"
  <2>1. link.rel = "cancelAction" => cliResp.execution = "CLOSED"
    BY DEF CancelInv
  <2>2. PICK s : status' = [status EXCEPT ![link.action] =
                               IF link.rel = "deploymentBase" THEN s
                               ELSE IF cliResp.execution = "CLOSED" THEN "canceled"
                               ELSE "running"]
    BY DEF TakeFeedback
  <2> QED BY <1>1, <2>1, <2>2 DEF TypeOK, LoopTypeOK
<1> QED BY <1>1, <1>2, <1>3, <1>4, <1>5

(* The server closes and cancels nothing that was confirmed, and reopens nothing. *)
LEMMA ServerMoves ==
    ASSUME TypeOK, ServerStep
    PROVE  /\ report' = report
           /\ \A a \in Actions : status'[a] = "closed" => status[a] = "closed"
           /\ \A a \in Actions : status[a] = "canceled" => status'[a] = "canceled"
<1>1. ASSUME NEW a \in Actions, Offer(a) \/ RequestCancel(a) \/ ForceQuit(a)
      PROVE  /\ report' = report
             /\ status[a] \in {"idle", "running", "canceling"}
             /\ \E s \in {"running", "canceling", "canceled"} :
                   status' = [status EXCEPT ![a] = s]
  BY <1>1 DEF Offer, RequestCancel, ForceQuit
<1>2. CASE \E a \in Actions : Offer(a) \/ RequestCancel(a) \/ ForceQuit(a)
  <2>1. status \in [Actions -> Statuses]
    BY DEF TypeOK, LoopTypeOK
  <2> QED BY <1>1, <1>2, <2>1
<1>3. CASE RequestConfig \/ VoidCredentials
  <2>1. UNCHANGED <<status, report>>
    BY <1>3 DEF RequestConfig, VoidCredentials
  <2> QED BY <2>1
<1> QED BY <1>2, <1>3 DEF ServerStep

LEMMA VerdictStep ==
    ASSUME UInv, Known, BridgeFacts', [UpdaterNext]_updaterVars PROVE VerdictOfDevice'
<1> USE DEF UInv, VerdictOfDevice, Known
<1>1. CASE DeliverFeedback \/ ConfirmCancel \/ LoseFeedbackAnswer
  <2>1. pc = "feedback" /\ TakeFeedback(link, cliResp.execution) /\ UNCHANGED outcome
    BY <1>1 DEF DeliverFeedback, ConfirmCancel, LoseFeedbackAnswer, SendFeedback,
         FeedbackUnanswered, Answered, history
  <2> QED BY <2>1, FeedbackTaken
<1>2. CASE ServerAlone
  <2>1. ServerStep /\ UNCHANGED outcome /\ TypeOK
    BY <1>2 DEF ServerAlone, history, IInv
  <2> QED BY <2>1, ServerMoves
<1>3. CASE ConsumerAlone
  <2>1. UNCHANGED <<status, report>>
    BY <1>3 DEF ConsumerAlone, vars
  <2>2. CASE consumerPc' = "respond"
    <3>1. /\ clientPc = "response" /\ deployment \in Actions
          /\ outcome' = [outcome EXCEPT ![deployment] = B!Execution(response')]
      BY <1>3, <2>2, ConsumerLeaves
    <3>2. pc = "handler" /\ link = Link("deploymentBase", deployment)
      BY <3>1 DEF ThreadsAgree, InDeployment
    <3>3. status[deployment] # "closed"
      BY <3>2 DEF IInv, NoRerunAfterReport, Link
    <3>4. \A a \in Actions : a # deployment => outcome'[a] = outcome[a]
      BY <3>1 DEF HistoryType
    <3> QED BY <2>1, <3>3, <3>4
  <2>3. CASE consumerPc' # "respond"
    BY <1>3, <2>1, <2>3, ConsumerLeaves
  <2> QED BY <2>2, <2>3
<1>4. CASE \/ LoopAlone \/ BeginDeployment \/ HandlerAlone \/ ReturnResponse
           \/ RefuseFeedback \/ Throws \/ Crash \/ StartAgain \/ UNCHANGED updaterVars
  <2>1. UNCHANGED <<status, report, outcome>>
    BY <1>4 DEF LoopAlone, BeginDeployment, HandlerAlone, ReturnResponse, RefuseFeedback,
         Throws, Crash, StartAgain, updaterVars, vars, history, server, DoPoll,
         FollowConfigData, FetchCancelAction, FetchDeployment, Fetch, OnCancelAction,
         Sleep, OnDeploymentAction, FeedbackRefused, RunThrows, Restart
  <2> QED BY <2>1
<1> QED BY <1>1, <1>2, <1>3, <1>4 DEF UpdaterNext, ClientThread

LEMMA CancelStep ==
    ASSUME UInv, Known, BridgeFacts', [UpdaterNext]_updaterVars PROVE CancelInv'
<1> USE DEF UInv, CancelInv, Known
<1>0. /\ TypeOK /\ \A a \in confirmed : a \in Actions
  BY DEF IInv, HistoryType
<1>1. CASE LoopAlone
  <2>1. UNCHANGED <<status, confirmed, clientPc, consumerPc, deployment, m_messageBuffer>>
    BY <1>1 DEF LoopAlone, bridgeVars, history, DoPoll, FollowConfigData,
         FetchCancelAction, FetchDeployment, Fetch, OnCancelAction, Sleep, server
  <2>2. CASE FetchDeployment \/ FetchCancelAction
    <3>1. status[link.action] # "canceled" /\ UNCHANGED link /\ pc' = "handler"
      BY <2>2 DEF FetchDeployment, FetchCancelAction, Fetch, Open
    <3> QED BY <2>1, <3>1
  <2>3. CASE OnCancelAction(CancelResponse)
    BY <2>1, <2>3 DEF OnCancelAction, CancelResponse
  <2>4. CASE (\E t \in SleepTimes : DoPoll(t)) \/ FollowConfigData(TRUE) \/ Sleep
    <3>1. pc' \notin {"handler", "feedback"}
      BY <2>4 DEF DoPoll, FollowConfigData, Sleep, Return
    <3> QED BY <2>1, <3>1
  <2> QED BY <1>1, <2>2, <2>3, <2>4 DEF LoopAlone
<1>2. CASE DeliverFeedback \/ ConfirmCancel \/ LoseFeedbackAnswer
  <2>1. /\ pc = "feedback" /\ TakeFeedback(link, cliResp.execution)
        /\ pc' \notin {"handler", "feedback"}
    BY <1>2 DEF DeliverFeedback, ConfirmCancel, LoseFeedbackAnswer, SendFeedback,
         FeedbackUnanswered, Answered, Return
  <2>2. \/ confirmed' = confirmed
        \/ confirmed' = confirmed \cup {link.action} /\ link.rel = "cancelAction"
    BY <1>2 DEF DeliverFeedback, ConfirmCancel, LoseFeedbackAnswer, history
  <2>3. \A a \in confirmed' : status'[a] = "canceled"
    BY <2>1, <2>2, <1>0, FeedbackTaken
  <2>4. clientPc' = "dead" => consumerPc' = "start" /\ m_messageBuffer' = <<>>
    <3>1. CASE LoseFeedbackAnswer
      <4>1. clientPc \in {"poll", "artifact", "feedback"}
            /\ UNCHANGED <<consumerPc, m_messageBuffer>>
        BY <3>1 DEF LoseFeedbackAnswer, B!ClientThrows, B!consumerVars, B!buffers
      <4>2. clientPc \in {"poll", "feedback"}
        BY <2>1, <4>1 DEF ThreadsAgree, InDeployment
      <4> QED BY <4>1, <4>2 DEF BridgeFacts
    <3>2. CASE DeliverFeedback
      BY <3>2 DEF DeliverFeedback, B!SendFeedback
    <3>3. CASE ConfirmCancel
      BY <2>1, <3>3 DEF ConfirmCancel, bridgeVars, ThreadsAgree
    <3> QED BY <1>2, <3>1, <3>2, <3>3
  <2> QED BY <2>1, <2>3, <2>4
<1>3. CASE ServerAlone
  <2>1. ServerStep /\ UNCHANGED <<confirmed, clientPc, consumerPc, deployment, pc, link,
                                   cliResp, m_messageBuffer>>
    BY <1>3 DEF ServerAlone, ServerStep, history, bridgeVars
  <2> QED BY <1>0, <2>1, ServerMoves
<1>4. CASE BeginDeployment \/ HandlerAlone
  <2>1. UNCHANGED <<status, confirmed, pc, link, cliResp>> /\ clientPc' # "dead"
    BY <1>4 DEF BeginDeployment, HandlerAlone, vars, history, B!OnDeploymentAction,
         B!HandlerStep, B!PutStart, B!PutBegin, B!DownloadTo, B!PutContent, B!PutEnd,
         B!GetResponse, B!SendFeedback
  <2> QED BY <2>1
<1>5. CASE ReturnResponse
  <2>1. /\ UNCHANGED <<status, confirmed, link, clientPc>> /\ clientPc = "feedback"
        /\ pc = "handler" /\ link.rel = "deploymentBase"
    BY <1>5 DEF ReturnResponse, OnDeploymentAction, history, bridgeVars, server
  <2> QED BY <2>1
<1>6. CASE RefuseFeedback
  BY <1>6 DEF RefuseFeedback, FeedbackRefused, Return, B!SendFeedback, history, server
<1>7. CASE ConsumerAlone
  <2>1. UNCHANGED <<status, confirmed, pc, link, cliResp, clientPc, deployment>>
    BY <1>7, ConsumerLeaves DEF ConsumerAlone, vars
  <2>2. consumerPc = "start" /\ (consumerPc' # "start" \/ m_messageBuffer' # <<>>)
           => m_messageBuffer # <<>>
    BY <1>7 DEF ConsumerAlone, B!ConsumerStep, B!GetStart, B!GetMessage, B!GetBegin,
       B!GetPayload, B!Execute, B!CommitTransaction, B!RollBackTransaction, B!PutResponse
  <2> QED BY <2>1, <2>2
<1>8. CASE Throws \/ Crash \/ StartAgain
  <2>1. UNCHANGED <<status, confirmed>> /\ pc' \notin {"handler", "feedback"}
    BY <1>8 DEF Throws, Crash, StartAgain, RunThrows, Restart, history, server
  <2>2. clientPc' = "dead" /\ (consumerPc' # "start" \/ m_messageBuffer' # <<>>)
           => deployment' \notin confirmed
    <3>1. CASE Throws
      <4>1. clientPc \in {"poll", "artifact", "feedback"} 
            /\ UNCHANGED <<consumerPc, deployment, m_messageBuffer>>
        BY <3>1 DEF Throws, B!ClientThrows, B!consumerVars, B!buffers
      <4>2. CASE clientPc \in {"poll", "feedback"}
        BY <4>1, <4>2 DEF BridgeFacts
      <4>3. CASE clientPc = "artifact"
        BY <4>1, <4>3 DEF ThreadsAgree, InDeployment, Link
      <4> QED BY <4>1, <4>2, <4>3
    <3>2. CASE Crash \/ StartAgain
      BY <3>2 DEF Crash, StartAgain, B!Restart
    <3> QED BY <1>8, <3>1, <3>2
  <2> QED BY <2>1, <2>2
<1>9. CASE UNCHANGED updaterVars
  BY <1>9 DEF updaterVars, vars, bridgeVars, history
<1> QED BY <1>1, <1>2, <1>3, <1>4, <1>5, <1>6, <1>7, <1>8, <1>9
      DEF UpdaterNext, ClientThread

-----------------------------------------------------------------------------
LEMMA UStep == UInv /\ Known /\ Known' /\ [UpdaterNext]_updaterVars => UInv'
<1> SUFFICES ASSUME UInv, Known, Known', [UpdaterNext]_updaterVars PROVE UInv'
  OBVIOUS
<1>1. BridgeFacts'
  BY DEF Known
<1> QED BY <1>1, ThreadsStep, HistoryStep, CarriedStep, VerdictStep, CancelStep DEF UInv

LEMMA KnownAlways == UpdaterSpec => []Known
<1>1. IInv /\ BP!IInv => Known
  BY FactsOfBridge DEF Known
<1> QED BY <1>1, LoopInvariant, BridgeInvariant, PTL

LEMMA UInvAlways == UpdaterSpec => []UInv
<1>1. UpdaterInit => UInv
  BY InitUInv
<1>2. UInv /\ Known /\ Known' /\ [UpdaterNext]_updaterVars => UInv'
  BY UStep
<1> QED BY <1>1, <1>2, KnownAlways, PTL DEF UpdaterSpec

(***************************************************************************)
(* The server's verdict on an action is what the consumer made of it, for  *)
(* any actions and artifacts (onDeploymentAction, DataConsumer.StartAsync). *)
(***************************************************************************)
THEOREM VerdictOfDeviceAlways == UpdaterSpec => []VerdictOfDevice
<1>1. UInv => VerdictOfDevice
  BY DEF UInv
<1> QED BY <1>1, UInvAlways, PTL

(***************************************************************************)
(* After onCancelAction's answer was taken, the consumer does nothing more *)
(* for the action, although neither asks the other.                        *)
(***************************************************************************)
LEMMA CancelEnough == UInv /\ Known => NoWorkAfterCancel
<1> SUFFICES ASSUME UInv, Known, consumerPc # "start" PROVE deployment \notin confirmed
  BY DEF NoWorkAfterCancel
<1> USE DEF UInv, Known
<1>1. CASE InDeployment
  BY <1>1 DEF ThreadsAgree, CancelInv, Link
<1>2. CASE clientPc = "dead"
  BY <1>2 DEF CancelInv
<1> QED BY <1>1, <1>2 DEF BridgeFacts, InDeployment

THEOREM NoWorkAfterCancelAlways == UpdaterSpec => []NoWorkAfterCancel
  BY CancelEnough, UInvAlways, KnownAlways, PTL

(***************************************************************************)
(* Types of the whole updater, and the two views of its client thread.     *)
(***************************************************************************)
LEMMA SameTypes == BP!IInv => B!TypeOK
<1>1. BP!IInv => BP!TypeOK
  BY DEF BP!IInv
<1>2. BP!TypeOK => B!TypeOK
  BY DEF BP!TypeOK, B!TypeOK, BP!Messages, B!Messages, BP!Responses, B!Responses,
     BP!PacketTypes, B!PacketTypes, BP!VerdictTypes, B!VerdictTypes, BP!Details,
     BP!EmptyResponse, B!EmptyResponse, B!Details, BP!ClientLabels, B!ClientLabels, BP!ConsumerLabels, B!ConsumerLabels
<1> QED BY <1>1, <1>2

LEMMA TypesEnough == UInv /\ IInv /\ BP!IInv => UpdaterTypeOK
<1> SUFFICES ASSUME UInv, IInv, BP!IInv PROVE UpdaterTypeOK
  OBVIOUS
<1>1. TypeOK /\ B!TypeOK
  BY LoopTypes, SameTypes
<1>2. ThreadsAgree /\ HistoryType
  BY DEF UInv
<1>3. {"CLOSED", "REJECTED", NotReported} = {"CLOSED", "REJECTED"} \cup {NotReported}
  OBVIOUS
<1> QED BY <1>1, <1>2, <1>3 DEF UpdaterTypeOK, HistoryType

THEOREM UpdaterTypeCorrect == UpdaterSpec => []UpdaterTypeOK
  BY TypesEnough, UInvAlways, LoopInvariant, BridgeInvariant, PTL
=============================================================================
