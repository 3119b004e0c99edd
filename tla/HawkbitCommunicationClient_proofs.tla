------------------ MODULE HawkbitCommunicationClient_proofs ------------------
(***************************************************************************)
(* Proofs of the safety properties of the client loop, for any actions,    *)
(* sleep times and responses of the handler.                               *)
(***************************************************************************)
EXTENDS HawkbitCommunicationClient, TLAPS

(* The feedback under way is the verdict of the execution before it. *)
AnswerInv ==
    pc = "feedback" /\ link.rel = "deploymentBase"
        => ran[link.action] = cliResp.execution

(* Between a poll and the sleep after it the pause of the poll is owed,    *)
(* until a handler asks to skip it.                                        *)
PauseInv ==
    /\ pc \in {"follow", "handler", "feedback"} => ~ignoreSleep
    /\ pc \in {"follow", "handler", "feedback", "sleep"}
           => owed = IF ignoreSleep THEN 0 ELSE Due(currentSleepTime)
    /\ PausesAsTold

IInv ==
    /\ TypeOK
    /\ NoRerunAfterReport
    /\ AnswerInv
    /\ VerdictIsTheLastRun
    /\ PauseInv

(* The parts of the state that a step of the server leaves alone. *)
clientVars == <<pc, provisioning, renewed, link, cliResp, sleepVars, ran>>

(* The loop's link when it follows none. *)
LEMMA NoLinkType ==
    /\ NoLink \in [rel : {"NONE", "configData", "cancelAction", "deploymentBase"},
                   action : Actions \cup {NoAction}]
    /\ NoLink.rel = "NONE"
  BY DEF NoLink, Link

(* The links of a poll have the type of link and name the server's actions. *)
LEMMA LinksType ==
    ASSUME LoopTypeOK, NEW l \in Followed(Links)
    PROVE  /\ l \in [rel : {"NONE", "configData", "cancelAction", "deploymentBase"},
                     action : Actions \cup {NoAction}]
           /\ l.rel \in {"cancelAction", "deploymentBase"} => l.action \in Actions
           /\ l # NoLink => l.rel # "NONE"
  <1>1. CASE Links = {}
    BY <1>1 DEF Followed, NoLink, Link
  <1>2. CASE Links # {}
    <2>1. l \in Links
      BY <1>2 DEF Followed
    <2> QED BY <2>1 DEF Links, Link
  <1> QED BY <1>1, <1>2

(* What the server does with a feedback. *)
LEMMA TakeFeedbackEffect ==
    ASSUME LoopTypeOK, NullAssumption, link.action \in Actions, cliResp \in Responses,
           TakeFeedback(link, cliResp.execution)
    PROVE  /\ status' \in [Actions -> Statuses]
           /\ report' \in [Actions -> Executions \cup {NotReported}]
           /\ configWanted' = configWanted /\ authorized' = authorized
           /\ \A a \in Actions : a # link.action =>
                  status'[a] = status[a] /\ report'[a] = report[a]
           /\ status'[link.action] = "closed" =>
                  /\ link.rel = "deploymentBase"
                  /\ report'[link.action] = cliResp.execution
  <1>1. cliResp.execution \in Executions
    BY DEF Responses
  <1>2. PICK s \in {"closed", status[link.action]} :
            status' = [status EXCEPT ![link.action] =
                           IF link.rel = "deploymentBase" THEN s
                           ELSE IF cliResp.execution = "CLOSED" THEN "canceled"
                           ELSE "running"]
    BY DEF TakeFeedback
  <1>3. s \in Statuses
    BY <1>2 DEF TypeOK, LoopTypeOK, Statuses
  <1> QED BY <1>1, <1>2, <1>3 DEF TakeFeedback, TypeOK, LoopTypeOK, Statuses

(* The initial states: nothing is offered, nothing is owed. *)
LEMMA InitHolds == ASSUME SleepAssumption, NullAssumption, Init PROVE IInv
  <1>1. TypeOK
    <2>1. /\ status \in [Actions -> Statuses]
          /\ report \in [Actions -> Executions \cup {NotReported}]
          /\ ran \in [Actions -> Executions \cup {NotReported}]
      BY DEF Init, Statuses
    <2>2. /\ provisioning \in BOOLEAN /\ renewed \in BOOLEAN
          /\ ignoreSleep \in BOOLEAN
          /\ configWanted \in BOOLEAN /\ authorized \in BOOLEAN
      BY DEF Init
    <2>3. /\ pc = "run" /\ link = NoLink /\ cliResp = NoResponse
          /\ currentSleepTime \in Int /\ owed = 0
      BY DEF Init, SleepAssumption
    <2> QED BY <2>1, <2>2, <2>3, NoLinkType DEF TypeOK, LoopTypeOK, Labels
  <1>2. VerdictIsTheLastRun
    BY DEF Init, VerdictIsTheLastRun
  <1> QED BY <1>1, <1>2 DEF Init, IInv, NoRerunAfterReport, AnswerInv, PauseInv,
                            PausesAsTold

(* The server neither closes an action nor touches the client. *)
LEMMA ServerKeeps ==
    ASSUME IInv, ServerStep
    PROVE  IInv'
  <1>1. UNCHANGED clientVars
    BY DEF ServerStep, clientVars
  <1>2. /\ status' \in [Actions -> Statuses]
        /\ report' = report
        /\ configWanted' \in BOOLEAN /\ authorized' \in BOOLEAN
        /\ \A a \in Actions : status'[a] = "closed" <=> status[a] = "closed"
    BY DEF ServerStep, Offer, RequestCancel, ForceQuit, RequestConfig,
           VoidCredentials, IInv, TypeOK, LoopTypeOK, Statuses
  <1> QED BY <1>1, <1>2 DEF clientVars, sleepVars, IInv, TypeOK, LoopTypeOK, NoRerunAfterReport,
             AnswerInv, VerdictIsTheLastRun, PauseInv, PausesAsTold

(* Each step of the loop keeps the invariant. *)
LEMMA LoopKeeps ==
    ASSUME SleepAssumption, ResponsesAssumption, NullAssumption, IInv, LoopStep
    PROVE  IInv'
  <1> USE DEF sleepVars, server
  <1>1. ASSUME NEW t \in SleepTimes, DoPoll(t)
        PROVE  IInv'
    <2>1. PICK l \in Followed(Links) :
              link' = l /\ pc' = IF l = NoLink THEN "sleep" ELSE "follow"
      BY <1>1 DEF DoPoll
    <2>2. PauseFor(t) \in Int /\ Due(PauseFor(t)) \in Int
      BY <1>1 DEF SleepAssumption, PauseFor, Due
    <2>3. TypeOK'
      BY <1>1, <2>1, <2>2, LinksType DEF IInv, TypeOK, LoopTypeOK, DoPoll, Answered, Labels
    <2> QED BY <1>1, <2>1, <2>2, <2>3
            DEF IInv, DoPoll, NoRerunAfterReport, AnswerInv, VerdictIsTheLastRun,
                PauseInv, PausesAsTold
  <1>2. CASE FollowConfigDataEmpty
    BY <1>2 DEF FollowConfigDataEmpty, Return, NoLink, Link, IInv, TypeOK, LoopTypeOK, Labels,
                NoRerunAfterReport, AnswerInv, VerdictIsTheLastRun, PauseInv, PausesAsTold
  <1>3. ASSUME NEW ignores \in BOOLEAN, FollowConfigData(ignores)
        PROVE  IInv'
    <2>1. owed' \in Int /\ ignoreSleep' \in BOOLEAN
      BY <1>3 DEF FollowConfigData, Return, IInv, TypeOK, LoopTypeOK
    <2>2. TypeOK'
      BY <1>3, <2>1, NoLinkType DEF FollowConfigData, Answered, Return, IInv, TypeOK, LoopTypeOK, Labels
    <2>3. NoRerunAfterReport' /\ AnswerInv' /\ VerdictIsTheLastRun'
      BY <1>3 DEF FollowConfigData, Return, IInv, NoRerunAfterReport, AnswerInv,
                  VerdictIsTheLastRun
    <2>4. PauseInv'
      BY <1>3 DEF FollowConfigData, Answered, Return, IInv, PauseInv, PausesAsTold
    <2> QED BY <2>2, <2>3, <2>4 DEF IInv
  <1>4. ASSUME NEW rel \in {"cancelAction", "deploymentBase"}, Fetch(rel)
        PROVE  IInv'
    BY <1>4 DEF Fetch, Answered, Open, IInv, TypeOK, LoopTypeOK, Labels,
                NoRerunAfterReport, AnswerInv, VerdictIsTheLastRun, PauseInv, PausesAsTold
  <1>5. ASSUME NEW r \in CancelResponses \cup {NoResponse}, OnCancelAction(r)
        PROVE  IInv'
    <2>1. r \in Responses
      BY <1>5 DEF OnCancelAction, FillResponseDocument, ResponsesAssumption
    <2> QED BY <1>5, <2>1
            DEF OnCancelAction, IInv, TypeOK, LoopTypeOK, Labels, NoRerunAfterReport, AnswerInv,
                VerdictIsTheLastRun, PauseInv, PausesAsTold
  <1>6. ASSUME NEW r \in DeploymentResponses \cup {NoResponse}, OnDeploymentAction(r)
        PROVE  IInv'
    <2>1. r \in Responses /\ r.execution \in Executions
      BY <1>6 DEF OnDeploymentAction, FillResponseDocument, ResponsesAssumption,
                     Responses
    <2>2. /\ link.action \in Actions
          /\ status[link.action] # "closed"
          /\ ran'[link.action] = r.execution
          /\ \A a \in Actions : a # link.action => ran'[a] = ran[a]
          /\ ran' \in [Actions -> Executions \cup {NotReported}]
      BY <1>6, <2>1 DEF OnDeploymentAction, IInv, TypeOK, LoopTypeOK, NoRerunAfterReport
    <2>3. TypeOK'
      BY <1>6, <2>1, <2>2 DEF OnDeploymentAction, IInv, TypeOK, LoopTypeOK, Labels
    <2>4. NoRerunAfterReport' /\ AnswerInv'
      BY <1>6, <2>2 DEF OnDeploymentAction, NoRerunAfterReport, AnswerInv
    <2>5. VerdictIsTheLastRun'
      BY <1>6, <2>2 DEF OnDeploymentAction, IInv, VerdictIsTheLastRun
    <2>6. PauseInv'
      BY <1>6 DEF OnDeploymentAction, IInv, PauseInv, PausesAsTold
    <2> QED BY <2>3, <2>4, <2>5, <2>6 DEF IInv
  <1>7. CASE SendFeedback \/ FeedbackUnanswered
    <2>1. /\ TakeFeedback(link, cliResp.execution)
          /\ pc = "feedback" /\ pc' \in {"sleep", "dead"}
          /\ ran' = ran /\ provisioning' = provisioning /\ renewed' = FALSE
      BY <1>7 DEF SendFeedback, FeedbackUnanswered, Answered, Return
    <2>2. link.action \in Actions /\ cliResp \in Responses
      BY <2>1 DEF IInv, TypeOK, LoopTypeOK
    <2> DEFINE Taken ==
            /\ status' \in [Actions -> Statuses]
            /\ report' \in [Actions -> Executions \cup {NotReported}]
            /\ configWanted' = configWanted /\ authorized' = authorized
            /\ \A a \in Actions : a # link.action =>
                   status'[a] = status[a] /\ report'[a] = report[a]
            /\ status'[link.action] = "closed" =>
                   /\ link.rel = "deploymentBase"
                   /\ report'[link.action] = cliResp.execution
    <2>3. Taken
      BY <2>1, <2>2, TakeFeedbackEffect DEF IInv, TypeOK
    <2>4. TypeOK'
      <3>1. /\ owed' \in Int /\ ignoreSleep' \in BOOLEAN
            /\ currentSleepTime' = currentSleepTime
            /\ link' \in {link, NoLink} /\ cliResp' \in {cliResp, NoResponse}
        BY <1>7, <2>2 DEF SendFeedback, FeedbackUnanswered, Return, Responses, IInv, TypeOK, LoopTypeOK
      <3> QED BY <2>1, <2>3, <3>1, NoLinkType DEF IInv, TypeOK, LoopTypeOK, Labels
    <2>5. VerdictIsTheLastRun'
      <3>1. cliResp.execution # NotReported
        BY <2>2 DEF Responses, Executions, NotReported
      <3> QED BY <2>1, <2>2, <2>3, <3>1 DEF IInv, VerdictIsTheLastRun, AnswerInv
    <2>6. NoRerunAfterReport' /\ AnswerInv'
      BY <2>1 DEF NoRerunAfterReport, AnswerInv
    <2>7. PauseInv'
      BY <1>7, <2>1 DEF SendFeedback, FeedbackUnanswered, Return, IInv, PauseInv,
                        PausesAsTold
    <2> QED BY <2>4, <2>5, <2>6, <2>7 DEF IInv
  <1>8. CASE FeedbackRefused \/ UpdateCredentialsRefused
    <2>1. cliResp.ignoreSleep \in BOOLEAN
      <3>1. pc = "feedback"
        BY <1>8 DEF FeedbackRefused, UpdateCredentialsRefused, Answered
      <3>2. cliResp \in Responses
        BY <3>1 DEF IInv, TypeOK, LoopTypeOK
      <3> QED BY <3>2 DEF Responses
    <2>2. TypeOK'
      <3>1. owed' \in Int
        BY <1>8, <2>1 DEF FeedbackRefused, UpdateCredentialsRefused, Return, IInv,
                          TypeOK, LoopTypeOK
      <3>2. ignoreSleep' \in BOOLEAN /\ renewed' \in BOOLEAN
        BY <1>8, <2>1 DEF FeedbackRefused, UpdateCredentialsRefused, Answered, Return,
                          IInv, TypeOK, LoopTypeOK
      <3>3. /\ pc' = "sleep" /\ link' = NoLink /\ cliResp' = NoResponse
            /\ UNCHANGED <<provisioning, currentSleepTime, server, ran>>
        BY <1>8 DEF FeedbackRefused, UpdateCredentialsRefused, Return
      <3> QED BY <3>1, <3>2, <3>3, NoLinkType DEF IInv, TypeOK, LoopTypeOK, Labels
    <2>3. NoRerunAfterReport' /\ AnswerInv' /\ VerdictIsTheLastRun'
      BY <1>8 DEF FeedbackRefused, UpdateCredentialsRefused, Return, IInv,
                  NoRerunAfterReport, AnswerInv, VerdictIsTheLastRun
    <2>4. PauseInv'
      BY <1>8 DEF FeedbackRefused, UpdateCredentialsRefused, Answered, Return, IInv,
                  PauseInv, PausesAsTold
    <2> QED BY <2>2, <2>3, <2>4 DEF IInv
  <1>9. CASE UpdateCredentials
    BY <1>9 DEF UpdateCredentials, AtRequest, IInv, TypeOK, LoopTypeOK,
                NoRerunAfterReport, AnswerInv, VerdictIsTheLastRun, PauseInv, PausesAsTold
  <1>10. CASE RunThrows
    BY <1>10 DEF RunThrows, IInv, TypeOK, LoopTypeOK, Labels,
                 NoRerunAfterReport, AnswerInv, VerdictIsTheLastRun, PauseInv, PausesAsTold
  <1>11. CASE Sleep
    BY <1>11 DEF Sleep, Due, IInv, TypeOK, LoopTypeOK, Labels,
                 NoRerunAfterReport, AnswerInv, VerdictIsTheLastRun, PauseInv, PausesAsTold
  <1> QED BY <1>1, <1>2, <1>3, <1>4, <1>5, <1>6, <1>7, <1>8, <1>9, <1>10, <1>11
          DEF LoopStep, FetchCancelAction, FetchDeployment

(* A new process holds no action and owes no pause. *)
LEMMA RestartKeeps == ASSUME SleepAssumption, NullAssumption, IInv, Restart PROVE IInv'
  <1>1. authorized' \in BOOLEAN
    BY DEF Restart
  <1>2. TypeOK'
    <2>1. /\ pc' = "run" /\ link' = NoLink /\ cliResp' = NoResponse
          /\ renewed' \in BOOLEAN /\ ignoreSleep' \in BOOLEAN
          /\ currentSleepTime' \in Int /\ owed' = 0
          /\ UNCHANGED <<provisioning, status, report, configWanted, ran>>
      BY DEF Restart, SleepAssumption
    <2> QED BY <1>1, <2>1, NoLinkType DEF IInv, TypeOK, LoopTypeOK, Labels
  <1>3. NoRerunAfterReport' /\ AnswerInv' /\ VerdictIsTheLastRun' /\ PauseInv'
    BY DEF Restart, IInv, NoRerunAfterReport, AnswerInv, VerdictIsTheLastRun,
           PauseInv, PausesAsTold
  <1> QED BY <1>2, <1>3 DEF IInv

(* A step that changes nothing. *)
LEMMA StutterKeeps == ASSUME IInv, UNCHANGED vars PROVE IInv'
  BY DEF vars, IInv, TypeOK, LoopTypeOK, NoRerunAfterReport, AnswerInv, VerdictIsTheLastRun,
         PauseInv, PausesAsTold

(* The invariant is inductive. *)
THEOREM Invariant == Spec => []IInv
  <1>1. Init => IInv
    BY InitHolds, SleepAssumption, NullAssumption
  <1>2. IInv /\ [Next]_vars => IInv'
    BY LoopKeeps, ServerKeeps, RestartKeeps, StutterKeeps, SleepAssumption,
       ResponsesAssumption, NullAssumption DEF Next
  <1> QED BY <1>1, <1>2, PTL DEF Spec

(* Every variable keeps its type, for any handler: a feedback is under way *)
(* only with a response, and for an action of the server.                  *)
THEOREM TypeCorrect == Spec => []TypeOK
  BY Invariant, PTL DEF IInv

(* A deployment that the server has closed on this client's feedback is    *)
(* not executed again, for any number of actions, lost answers, renewals   *)
(* of credentials and restarts.                                            *)
THEOREM NoRerunAfterReportAlways == Spec => []NoRerunAfterReport
  BY Invariant, PTL DEF IInv

(* The server closes a deployment with the outcome of its last execution.  *)
THEOREM VerdictIsTheLastRunAlways == Spec => []VerdictIsTheLastRun
  BY Invariant, PTL DEF IInv

(* For any times the server sends and any default, the client polls after  *)
(* exactly the pause that is due, unless the handler asked to skip it.     *)
THEOREM PausesAsToldAlways == Spec => []PausesAsTold
  BY Invariant, PTL DEF IInv, PauseInv
=============================================================================
