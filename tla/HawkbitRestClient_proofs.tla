----------------------- MODULE HawkbitRestClient_proofs -----------------------
(***************************************************************************)
(* Proofs about the Python client, for any actions, sleep times and        *)
(* responses: it executes nothing twice after its verdict was taken, also  *)
(* when it swallows the loss of an answer or takes a refusal for a         *)
(* delivery.  The argument is that of the C++ loop: no action is held from *)
(* one poll to the next, and a feedback carries the last execution.        *)
(***************************************************************************)
EXTENDS HawkbitRestClient, HawkbitCommunicationClient_proofs

RestIInv ==
    /\ RestTypeOK
    /\ NoRerunAfterReport
    /\ AnswerInv
    /\ VerdictIsTheLastRun

(* The initial states, with the time-out that the builder was given. *)
LEMMA RestInitHolds == RestInit => RestIInv
<1> SUFFICES ASSUME RestInit PROVE RestIInv
  OBVIOUS
<1>1. IInv
  BY InitHolds, SleepAssumption, NullAssumption DEF RestInit
<1>2. RestTypeOK
  BY <1>1 DEF RestInit, Init, IInv, TypeOK, RestTypeOK
<1>3. QED
  BY <1>1, <1>2 DEF IInv, RestIInv

(* The server, a new process, and a step of nobody. *)
LEMMA OthersKeep ==
  ASSUME RestIInv, ServerStep \/ Restart \/ UNCHANGED vars, UNCHANGED pollingTimeout
  PROVE  RestIInv'
<1> USE DEF RestIInv, RestTypeOK, LoopTypeOK
<1>1. CASE ServerStep
  <2>1. UNCHANGED clientVars
    BY <1>1 DEF ServerStep, clientVars
  <2>2. /\ status' \in [Actions -> Statuses]
        /\ report' = report
        /\ configWanted' \in BOOLEAN /\ authorized' \in BOOLEAN
        /\ \A a \in Actions : status'[a] = "closed" <=> status[a] = "closed"
    BY <1>1 DEF ServerStep, Offer, RequestCancel, ForceQuit, RequestConfig,
                VoidCredentials, Statuses
  <2>3. QED
    BY <2>1, <2>2 DEF clientVars, sleepVars, NoRerunAfterReport, AnswerInv,
                      VerdictIsTheLastRun
<1>2. CASE Restart
  <2>1. /\ pc' = "run" /\ link' = NoLink /\ cliResp' = NoResponse
        /\ renewed' = FALSE /\ ignoreSleep' = FALSE
        /\ currentSleepTime' \in Int /\ owed' = 0 /\ authorized' \in BOOLEAN
        /\ UNCHANGED <<provisioning, status, report, configWanted, ran>>
    BY <1>2, SleepAssumption DEF Restart
  <2>2. RestTypeOK'
    <3>1. NoResponse \in Responses \cup {NoResponse} /\ 0 \in Int
      OBVIOUS
    <3>2. LoopTypeOK'
      BY <2>1, <3>1, NoLinkType DEF Labels
    <3>3. QED
      BY <2>1, <3>1, <3>2
  <2>3. QED
    BY <2>1, <2>2 DEF NoRerunAfterReport, AnswerInv, VerdictIsTheLastRun
<1>3. CASE UNCHANGED vars
  BY <1>3 DEF vars, NoRerunAfterReport, AnswerInv, VerdictIsTheLastRun
<1>4. QED
  BY <1>1, <1>2, <1>3

(* The end of a follow_...() holds nothing. *)
LEMMA ReturnKeeps ==
  ASSUME RestIInv, NEW asks \in BOOLEAN, RestReturn(asks),
         UNCHANGED <<ran, pollingTimeout>>, renewed' = FALSE,
         ignoreSleep' \in BOOLEAN, configWanted' \in BOOLEAN, authorized' \in BOOLEAN,
         status' \in [Actions -> Statuses],
         report' \in [Actions -> Executions \cup {NotReported}],
         VerdictIsTheLastRun'
  PROVE  RestIInv'
<1>1. /\ pc' = "sleep" /\ link' = NoLink /\ cliResp' = NoResponse
      /\ owed' \in Int /\ UNCHANGED <<provisioning, currentSleepTime>>
  BY DEF RestReturn, RestIInv, RestTypeOK
<1>2. RestTypeOK'
  BY <1>1, NoLinkType DEF RestIInv, RestTypeOK, LoopTypeOK, Labels
<1>3. NoRerunAfterReport' /\ AnswerInv'
  BY <1>1 DEF NoRerunAfterReport, AnswerInv
<1>4. QED
  BY <1>2, <1>3 DEF RestIInv

(* A feedback, taken or not, leaves only true verdicts. *)
LEMMA FeedbackVerdict ==
  ASSUME RestIInv, pc = "feedback", UNCHANGED ran,
         TakeFeedback(link, cliResp.execution) \/ UNCHANGED server
  PROVE  /\ status' \in [Actions -> Statuses]
         /\ report' \in [Actions -> Executions \cup {NotReported}]
         /\ configWanted' \in BOOLEAN /\ authorized' \in BOOLEAN
         /\ VerdictIsTheLastRun'
<1>1. link.action \in Actions /\ cliResp \in Responses /\ LoopTypeOK
  BY DEF RestIInv, RestTypeOK, LoopTypeOK
<1>2. CASE UNCHANGED server
  BY <1>1, <1>2 DEF server, RestIInv, LoopTypeOK, VerdictIsTheLastRun
<1>3. CASE TakeFeedback(link, cliResp.execution)
  <2>1. /\ status' \in [Actions -> Statuses]
        /\ report' \in [Actions -> Executions \cup {NotReported}]
        /\ configWanted' = configWanted /\ authorized' = authorized
        /\ \A a \in Actions : a # link.action =>
               status'[a] = status[a] /\ report'[a] = report[a]
        /\ status'[link.action] = "closed" =>
               /\ link.rel = "deploymentBase"
               /\ report'[link.action] = cliResp.execution
    BY <1>1, <1>3, TakeFeedbackEffect, NullAssumption
  <2>2. cliResp.execution # NotReported
    BY <1>1 DEF Responses, Executions, NotReported
  <2>3. VerdictIsTheLastRun'
    BY <1>1, <2>1, <2>2 DEF RestIInv, VerdictIsTheLastRun, AnswerInv
  <2>4. QED
    BY <1>1, <2>1, <2>3 DEF LoopTypeOK
<1>4. QED
  BY <1>2, <1>3

(* Each step of the loop keeps the invariant. *)
LEMMA RestStepKeeps ==
  ASSUME RestIInv, RestStep
  PROVE  RestIInv'
<1>0. UNCHANGED pollingTimeout /\ pollingTimeout \in Int \cup {None}
  BY PollingAssumption DEF RestStep, RestIInv, RestTypeOK
<1> USE DEF sleepVars, server
<1>1. ASSUME NEW t \in SleepTimes, RestDoPoll(t) PROVE RestIInv'
  <2>1. PICK l \in Followed(Links) :
            link' = l /\ pc' = IF l = NoLink THEN "sleep" ELSE "follow"
    BY <1>1 DEF RestDoPoll
  <2>2. SleepTime(t) \in Int \cup {None} /\ RestDue(SleepTime(t)) \in Int
    <3>1. t \in Int
      BY SleepAssumption
    <3>2. SleepTime(t) \in Int \cup {None}
      BY <1>0, <3>1 DEF SleepTime
    <3>3. QED
      BY <3>2 DEF RestDue, Due
  <2>3. pc = "run" /\ cliResp = NoResponse
    BY <1>1 DEF RestDoPoll, Answered, RestIInv, RestTypeOK
  <2>4. RestTypeOK'
    BY <1>0, <1>1, <2>1, <2>2, <2>3, LinksType
    DEF RestIInv, RestTypeOK, LoopTypeOK, RestDoPoll, Answered, Labels
  <2>5. QED
    BY <1>1, <2>1, <2>4 DEF RestIInv, RestDoPoll, NoRerunAfterReport, AnswerInv,
                            VerdictIsTheLastRun
<1>2. CASE DoPollRefused
  <2>1. /\ pc = "run" /\ pc' = "sleep" /\ link' = NoLink /\ renewed' = FALSE
        /\ currentSleepTime' = pollingTimeout /\ owed' = RestDue(pollingTimeout)
        /\ UNCHANGED <<provisioning, cliResp, ignoreSleep, server, ran>>
    BY <1>2 DEF DoPollRefused, Refused
  <2>2. RestDue(pollingTimeout) \in Int
    BY <1>0 DEF RestDue, Due
  <2>3. RestTypeOK'
    BY <1>0, <2>1, <2>2, NoLinkType DEF RestIInv, RestTypeOK, LoopTypeOK, Labels
  <2>4. QED
    BY <2>1, <2>3 DEF RestIInv, NoRerunAfterReport, AnswerInv, VerdictIsTheLastRun
<1>3. CASE RestSleep
  <2>1. /\ pc' \in {"run", "dead"} /\ link = NoLink /\ cliResp = NoResponse
        /\ UNCHANGED <<provisioning, renewed, link, cliResp, ignoreSleep,
                       currentSleepTime, server, ran>>
    BY <1>3 DEF RestSleep, RestIInv, RestTypeOK
  <2>2. owed' \in Int
    BY <1>3 DEF RestSleep, Due, RestIInv, RestTypeOK
  <2>3. RestTypeOK'
    BY <1>0, <2>1, <2>2 DEF RestIInv, RestTypeOK, LoopTypeOK, Labels
  <2>4. QED
    BY <2>1, <2>3 DEF RestIInv, NoRerunAfterReport, AnswerInv, VerdictIsTheLastRun
<1>4. CASE FollowConfigDataNothing
  <2>1. RestReturn(FALSE) /\ UNCHANGED <<renewed, ignoreSleep, server, ran>>
    BY <1>4 DEF FollowConfigDataNothing
  <2>2. VerdictIsTheLastRun'
    BY <2>1 DEF RestIInv, VerdictIsTheLastRun
  <2>3. QED
    BY <1>0, <2>1, <2>2, ReturnKeeps DEF RestIInv, RestTypeOK, LoopTypeOK
<1>5. ASSUME NEW ignores \in BOOLEAN, RestFollowConfigData(ignores) PROVE RestIInv'
  <2>1. /\ RestReturn(ignores) /\ ignoreSleep' = ignores /\ renewed' = FALSE
        /\ configWanted' \in {FALSE, configWanted}
        /\ UNCHANGED <<status, report, authorized, ran>>
    BY <1>5 DEF RestFollowConfigData, Answered, Refused
  <2>2. VerdictIsTheLastRun'
    BY <2>1 DEF RestIInv, VerdictIsTheLastRun
  <2>3. QED
    BY <1>0, <2>1, <2>2, ReturnKeeps DEF RestIInv, RestTypeOK, LoopTypeOK
<1>6. ASSUME NEW rel \in {"cancelAction", "deploymentBase"}, Fetch(rel) PROVE RestIInv'
  BY <1>0, <1>6 DEF Fetch, Answered, Open, RestIInv, RestTypeOK, LoopTypeOK, Labels,
     NoRerunAfterReport, AnswerInv, VerdictIsTheLastRun
<1>7. ASSUME NEW r \in CancelResponses, OnCancelAction(r) PROVE RestIInv'
  <2>1. r \in Responses
    BY ResponsesAssumption
  <2>2. QED
    BY <1>0, <1>7, <2>1 DEF OnCancelAction, RestIInv, RestTypeOK, LoopTypeOK, Labels,
       NoRerunAfterReport, AnswerInv, VerdictIsTheLastRun
<1>8. ASSUME NEW r \in DeploymentResponses, OnDeploymentAction(r) PROVE RestIInv'
  <2>1. r \in Responses /\ r.execution \in Executions
    BY ResponsesAssumption DEF Responses
  <2>2. /\ link.action \in Actions
        /\ status[link.action] # "closed"
        /\ ran'[link.action] = r.execution
        /\ \A a \in Actions : a # link.action => ran'[a] = ran[a]
        /\ ran' \in [Actions -> Executions \cup {NotReported}]
    BY <1>8, <2>1 DEF OnDeploymentAction, RestIInv, RestTypeOK, LoopTypeOK,
                      NoRerunAfterReport
  <2>3. RestTypeOK'
    BY <1>0, <1>8, <2>1, <2>2 DEF OnDeploymentAction, RestIInv, RestTypeOK, LoopTypeOK,
                                  Labels
  <2>4. NoRerunAfterReport' /\ AnswerInv'
    BY <1>8, <2>2 DEF OnDeploymentAction, NoRerunAfterReport, AnswerInv
  <2>5. VerdictIsTheLastRun'
    BY <1>8, <2>2 DEF OnDeploymentAction, RestIInv, VerdictIsTheLastRun
  <2>6. QED
    BY <2>3, <2>4, <2>5 DEF RestIInv
<1>9. CASE FeedbackAnswered \/ FeedbackFailed
  <2>1. /\ pc = "feedback" /\ renewed' = FALSE /\ RestReturn(cliResp.ignoreSleep)
        /\ TakeFeedback(link, cliResp.execution) \/ UNCHANGED server
        /\ ignoreSleep' \in {ignoreSleep, cliResp.ignoreSleep} /\ ran' = ran
    BY <1>9 DEF FeedbackAnswered, FeedbackFailed, Answered, Refused
  <2>2. cliResp.ignoreSleep \in BOOLEAN /\ ignoreSleep \in BOOLEAN
    BY <2>1 DEF RestIInv, RestTypeOK, LoopTypeOK, Responses
  <2>3. QED
    BY <1>0, <2>1, <2>2, FeedbackVerdict, ReturnKeeps
<1>10. CASE FeedbackUnanswered
  <2>1. /\ pc = "feedback" /\ pc' = "dead" /\ renewed' = FALSE
        /\ TakeFeedback(link, cliResp.execution)
        /\ UNCHANGED <<provisioning, link, cliResp, sleepVars, ran>>
    BY <1>10 DEF FeedbackUnanswered, Answered
  <2>2. /\ status' \in [Actions -> Statuses]
        /\ report' \in [Actions -> Executions \cup {NotReported}]
        /\ configWanted' \in BOOLEAN /\ authorized' \in BOOLEAN
        /\ VerdictIsTheLastRun'
    BY <2>1, FeedbackVerdict
  <2>3. RestTypeOK'
    BY <1>0, <2>1, <2>2 DEF RestIInv, RestTypeOK, LoopTypeOK, Labels
  <2>4. QED
    BY <2>1, <2>2, <2>3 DEF RestIInv, NoRerunAfterReport, AnswerInv
<1>11. CASE RunThrows
  BY <1>0, <1>11 DEF RunThrows, RestIInv, RestTypeOK, LoopTypeOK, Labels,
     NoRerunAfterReport, AnswerInv, VerdictIsTheLastRun
<1>12. QED
  BY <1>1, <1>2, <1>3, <1>4, <1>5, <1>6, <1>7, <1>8, <1>9, <1>10, <1>11
  DEF RestStep, FetchCancelAction, FetchDeployment

LEMMA RestInvariant == RestSpec => []RestIInv
<1>1. RestIInv /\ [RestNext]_restVars => RestIInv'
  BY RestStepKeeps, OthersKeep DEF RestNext, restVars
<1>2. QED
  BY RestInitHolds, <1>1, PTL DEF RestSpec

(* Every variable of the Python loop keeps its type. *)
THEOREM RestTypeCorrect == RestSpec => []RestTypeOK
  BY RestInvariant, PTL DEF RestIInv

(* A deployment that the server has closed on the feedback of the Python   *)
(* client is not executed again.                                           *)
THEOREM RestNoRerunAfterReport == RestSpec => []NoRerunAfterReport
  BY RestInvariant, PTL DEF RestIInv

(* The server closes a deployment with the outcome of its last execution.  *)
THEOREM RestVerdictIsTheLastRun == RestSpec => []VerdictIsTheLastRun
  BY RestInvariant, PTL DEF RestIInv
=============================================================================
