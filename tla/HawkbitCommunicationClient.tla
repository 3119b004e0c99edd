--------------------- MODULE HawkbitCommunicationClient ---------------------
(***************************************************************************)
(* The client loop of hawkbit-cpp: run() polls the server, follows the one *)
(* link of the answer that doPoll() prefers, lets the EventHandler work,   *)
(* sends its answer, and sleeps.  Each HTTP request is a step, so that the *)
(* server may do anything between two of them: offer, cancel and forget    *)
(* actions, ask for the configuration, void the credentials.  A request    *)
(* may be lost, refused, or carried out without its answer coming back.    *)
(*                                                                         *)
(* The handler is the user's: it answers with any of the given responses,  *)
(* or throws.  What onDeploymentAction of this device does is the subject  *)
(* of DeploymentBridge; here it is one step that leaves its outcome in     *)
(* ran.  A ProvisioningClientImpl is the same loop with a retryHandler     *)
(* that renews the credentials once per request.                           *)
(***************************************************************************)
EXTENDS Integers

CONSTANTS Actions,              \* ids of the server's actions
          NoAction,             \* a link that concerns no action
          SleepTimes,           \* PollingData_::sleepTime: ms, or not positive
          DefaultSleepTime,     \* defaultSleepTime
          DeploymentResponses,  \* what onDeploymentAction may answer
          CancelResponses,      \* what onCancelAction may answer
          NoResponse            \* the null pointer

(* Response::Execution, and Response reduced to what the loop reads. *)
Executions == {"CLOSED", "PROCEEDING", "CANCELED", "SCHEDULED", "REJECTED",
               "RESUMED"}
Responses == [execution : Executions, listener : BOOLEAN, ignoreSleep : BOOLEAN]

ASSUME SleepAssumption == SleepTimes \subseteq Int /\ DefaultSleepTime \in Int

ASSUME ResponsesAssumption ==
    /\ DeploymentResponses \subseteq Responses
    /\ CancelResponses \subseteq Responses

ASSUME NullAssumption == NoAction \notin Actions /\ NoResponse \notin Responses

VARIABLES pc,                \* where run() is
          provisioning,      \* whether this is a ProvisioningClientImpl
          renewed,           \* the request under way is the second attempt
          link,              \* the link followed
          cliResp,           \* the handler's response
          ignoreSleep,
          currentSleepTime,
          status,            \* server: the state of each action
          report,            \* server: the last execution accepted for it
          configWanted,      \* server: whether it asks for configData
          authorized,        \* server: whether it accepts the credentials
          ran,               \* history: how the last execution of an action ended
          owed               \* history: the pause due before the next poll

server == <<status, report, configWanted, authorized>>
sleepVars == <<ignoreSleep, currentSleepTime, owed>>
vars == <<pc, provisioning, renewed, link, cliResp, ignoreSleep,
          currentSleepTime, status, report, configWanted, authorized, ran, owed>>

Labels == {"run", "follow", "handler", "feedback", "sleep", "dead"}
Statuses == {"idle", "running", "canceling", "closed", "canceled"}
Open == {"running", "canceling"}

Link(rel, a) == [rel |-> rel, action |-> a]
NoLink == Link("NONE", NoAction)
NotReported == "none"

Init ==
    /\ pc = "run"
    /\ provisioning \in BOOLEAN
    /\ renewed = FALSE
    /\ link = NoLink
    /\ cliResp = NoResponse
    /\ ignoreSleep = FALSE
    /\ currentSleepTime = DefaultSleepTime
    /\ status = [a \in Actions |-> "idle"]
    /\ report = [a \in Actions |-> NotReported]
    /\ configWanted = FALSE
    /\ authorized = TRUE
    /\ ran = [a \in Actions |-> NotReported]
    /\ owed = 0

(***************************************************************************)
(* The server.                                                             *)
(***************************************************************************)
(* One action of a device is open at a time. *)
Offer(a) ==
    /\ status[a] = "idle"
    /\ \A b \in Actions : status[b] \notin Open
    /\ status' = [status EXCEPT ![a] = "running"]
    /\ UNCHANGED <<report, configWanted, authorized>>

RequestCancel(a) ==
    /\ status[a] = "running"
    /\ status' = [status EXCEPT ![a] = "canceling"]
    /\ UNCHANGED <<report, configWanted, authorized>>

(* The operator does not wait for the device. *)
ForceQuit(a) ==
    /\ status[a] = "canceling"
    /\ status' = [status EXCEPT ![a] = "canceled"]
    /\ UNCHANGED <<report, configWanted, authorized>>

RequestConfig ==
    /\ ~configWanted
    /\ configWanted' = TRUE
    /\ UNCHANGED <<status, report, authorized>>

VoidCredentials ==
    /\ authorized
    /\ authorized' = FALSE
    /\ UNCHANGED <<status, report, configWanted>>

ServerStep ==
    /\ \/ \E a \in Actions : Offer(a) \/ RequestCancel(a) \/ ForceQuit(a)
       \/ RequestConfig
       \/ VoidCredentials
    /\ UNCHANGED <<pc, provisioning, renewed, link, cliResp, sleepVars, ran>>

(* The links of a poll's answer. *)
Links ==
    (IF configWanted THEN {Link("configData", NoAction)} ELSE {})
        \cup {Link("cancelAction", a) : a \in {x \in Actions : status[x] = "canceling"}}
        \cup {Link("deploymentBase", a) : a \in {x \in Actions : status[x] = "running"}}

(* The server takes the feedback of an open action: CLOSED ends it, or     *)
(* cancels it when the feedback is the cancel action's; what it makes of   *)
(* any other execution is its own affair.                                  *)
TakeFeedback(l, e) ==
    /\ status[l.action] \in Open
    /\ \E s \in IF e # "CLOSED" THEN {"closed", status[l.action]} ELSE {"closed"} :
           status' = [status EXCEPT ![l.action] =
                          IF l.rel = "deploymentBase" THEN s
                          ELSE IF e = "CLOSED" THEN "canceled" ELSE "running"]
    /\ report' = IF l.rel = "deploymentBase"
                 THEN [report EXCEPT ![l.action] = e] ELSE report
    /\ UNCHANGED <<configWanted, authorized>>

(***************************************************************************)
(* What a poll's answer means.                                             *)
(***************************************************************************)
Priority(rel) ==
    CASE rel = "configData" -> 1
      [] rel = "cancelAction" -> 2
      [] rel = "deploymentBase" -> 3

(* PollingData_::fromString: the link with the highest priority. *)
Followed(links) ==
    IF links = {} THEN {NoLink}
    ELSE {l \in links : \A m \in links : Priority(l.rel) <= Priority(m.rel)}

(* No time, "00:00:00" or an overflow select the default. *)
PauseFor(t) == IF t > 0 THEN t ELSE DefaultSleepTime

(* A pause that is not positive is no pause. *)
Due(t) == IF t > 0 THEN t ELSE 0

(***************************************************************************)
(* Requests.  retryHandler throws unless the answer is HTTP_OK, and every  *)
(* exception of a request ends the loop but one: the follow function of a  *)
(* feedback catches http_unexpected_code_exception, whether the server's   *)
(* answer raised it (FeedbackRefused) or the provisioning endpoint's       *)
(* (UpdateCredentialsRefused).                                             *)
(***************************************************************************)
AtRequest == pc \in {"run", "follow", "feedback"}

(* The server answers the request with HTTP_OK. *)
Answered(label) ==
    /\ pc = label
    /\ authorized
    /\ renewed' = FALSE

(* fillResponseDocument makes the feedback; for a null pointer it throws. *)
FillResponseDocument(r) == r # NoResponse

(***************************************************************************)
(* Plausible errors in the steps below, for the mutation of the runs.      *)
(***************************************************************************)
(* run() does not set ignoreSleep back before the poll. *)
DoPollKeepsIgnoring(t) ==
    /\ Answered("run")
    /\ currentSleepTime' = PauseFor(t)
    /\ owed' = Due(PauseFor(t))
    /\ \E l \in Followed(Links) :
           /\ link' = l
           /\ pc' = IF l = NoLink THEN "sleep" ELSE "follow"
    /\ UNCHANGED <<provisioning, cliResp, ignoreSleep, server, ran>>

(* The null pointer is not tested. *)
OnCancelActionNull(r) ==
    /\ pc = "handler"
    /\ link.rel = "cancelAction"
    /\ cliResp' = r
    /\ pc' = "feedback"
    /\ UNCHANGED <<provisioning, renewed, link, sleepVars, server, ran>>

(* The response is built before the work has ended. *)
OnDeploymentActionEarly(r) ==
    /\ pc = "handler"
    /\ link.rel = "deploymentBase"
    /\ FillResponseDocument(r)
    /\ cliResp' = r
    /\ \E e \in {"CLOSED", "REJECTED"} : ran' = [ran EXCEPT ![link.action] = e]
    /\ pc' = "feedback"
    /\ UNCHANGED <<provisioning, renewed, link, sleepVars, server>>

(* A feedback without an answer is followed by the action once more. *)
FeedbackUnansweredRepeats ==
    /\ Answered("feedback")
    /\ TakeFeedback(link, cliResp.execution)
    /\ pc' = "handler"
    /\ cliResp' = NoResponse
    /\ UNCHANGED <<provisioning, link, sleepVars, ran>>

(* The credentials are renewed as often as they are refused. *)
UpdateCredentialsForEver ==
    /\ AtRequest
    /\ provisioning /\ ~authorized
    /\ authorized' = TRUE
    /\ renewed' = TRUE
    /\ UNCHANGED <<pc, provisioning, link, cliResp, sleepVars, status, report,
                   configWanted, ran>>

(***************************************************************************)
(* The client.                                                             *)
(***************************************************************************)
(* ProvisioningClientImpl::retryHandler: after HTTP_UNAUTHORIZED it calls  *)
(* updateCredentials() and sends the request again, once.                  *)
UpdateCredentials ==
    /\ AtRequest
    /\ provisioning /\ ~renewed
    /\ ~authorized
    /\ authorized' = TRUE
    /\ renewed' = TRUE
    /\ UNCHANGED <<pc, provisioning, link, cliResp, sleepVars, status, report,
                   configWanted, ran>>

(* Any exception that is not caught: of a request or a renewal that is     *)
(* lost or refused, of a payload that cannot be read, the handler's own;   *)
(* run() has no handler.  Or the end of the process, which comes to the    *)
(* same.                                                                   *)
RunThrows ==
    /\ AtRequest \/ pc = "handler"
    /\ pc' = "dead"
    /\ UNCHANGED <<provisioning, renewed, link, cliResp, sleepVars, server, ran>>

DoPoll(t) ==
    /\ Answered("run")
    /\ ignoreSleep' = FALSE
    /\ currentSleepTime' = PauseFor(t)
    /\ owed' = Due(PauseFor(t))
    /\ \E l \in Followed(Links) :
           /\ link' = l
           /\ pc' = IF l = NoLink THEN "sleep" ELSE "follow"
    /\ UNCHANGED <<provisioning, cliResp, server, ran>>

(* The end of a follow...(): its locals are gone. *)
Return(ignores) ==
    /\ pc' = "sleep"
    /\ link' = NoLink
    /\ cliResp' = NoResponse
    /\ ignoreSleep' = ignores
    /\ owed' = IF ignores THEN 0 ELSE owed
    /\ UNCHANGED <<provisioning, currentSleepTime>>

(* The handler has no data: nothing is sent, and the server asks again. *)
FollowConfigDataEmpty ==
    /\ pc = "follow"
    /\ link.rel = "configData"
    /\ ~renewed
    /\ Return(ignoreSleep)
    /\ UNCHANGED <<renewed, server, ran>>

FollowConfigData(ignores) ==
    /\ Answered("follow")
    /\ link.rel = "configData"
    /\ configWanted' = FALSE
    /\ Return(ignores)
    /\ UNCHANGED <<status, report, authorized, ran>>

(* GET of what the link names; the server has it no longer when the action *)
(* was ended in between.  From the payload only the id matters here.       *)
Fetch(rel) ==
    /\ Answered("follow")
    /\ link.rel = rel
    /\ status[link.action] \in Open
    /\ pc' = "handler"
    /\ UNCHANGED <<provisioning, link, cliResp, sleepVars, server, ran>>

FetchCancelAction == Fetch("cancelAction")
FetchDeployment == Fetch("deploymentBase")

OnCancelAction(r) ==
    /\ pc = "handler"
    /\ link.rel = "cancelAction"
    /\ FillResponseDocument(r)
    /\ cliResp' = r
    /\ pc' = "feedback"
    /\ UNCHANGED <<provisioning, renewed, link, sleepVars, server, ran>>

OnDeploymentAction(r) ==
    /\ pc = "handler"
    /\ link.rel = "deploymentBase"
    /\ FillResponseDocument(r)
    /\ cliResp' = r
    /\ ran' = [ran EXCEPT ![link.action] = r.execution]
    /\ pc' = "feedback"
    /\ UNCHANGED <<provisioning, renewed, link, sleepVars, server>>

SendFeedback ==
    /\ Answered("feedback")
    /\ TakeFeedback(link, cliResp.execution)
    /\ Return(cliResp.ignoreSleep)
    /\ UNCHANGED ran

(* Another code than HTTP_OK: onError() of the listener, if there is one. *)
FeedbackRefused ==
    /\ Answered("feedback")
    /\ cliResp.listener
    /\ Return(cliResp.ignoreSleep)
    /\ UNCHANGED <<server, ran>>

(* The provisioning endpoint answers the renewal with an unexpected code:   *)
(* updateCredentials() throws inside the feedback's try block, whose handler *)
(* takes the exception for the feedback's.                                   *)
UpdateCredentialsRefused ==
    /\ pc = "feedback"
    /\ provisioning /\ ~renewed
    /\ ~authorized
    /\ cliResp.listener
    /\ Return(cliResp.ignoreSleep)
    /\ UNCHANGED <<renewed, server, ran>>

(* The server took the feedback, its answer is lost: http_lib_error. *)
FeedbackUnanswered ==
    /\ Answered("feedback")
    /\ TakeFeedback(link, cliResp.execution)
    /\ pc' = "dead"
    /\ UNCHANGED <<provisioning, link, cliResp, sleepVars, ran>>

Sleep ==
    /\ pc = "sleep"
    /\ pc' = "run"
    /\ owed' = IF ~ignoreSleep /\ currentSleepTime > 0
               THEN owed - currentSleepTime ELSE owed
    /\ UNCHANGED <<provisioning, renewed, link, cliResp, ignoreSleep,
                   currentSleepTime, server, ran>>

(* A new process; ProvisioningClientImpl::run renews the credentials. *)
Restart ==
    /\ pc = "dead"
    /\ pc' = "run"
    /\ renewed' = FALSE
    /\ link' = NoLink
    /\ cliResp' = NoResponse
    /\ ignoreSleep' = FALSE
    /\ currentSleepTime' = DefaultSleepTime
    /\ owed' = 0
    /\ authorized' = (authorized \/ provisioning)
    /\ UNCHANGED <<provisioning, status, report, configWanted, ran>>

LoopStep ==
    \/ \E t \in SleepTimes : DoPoll(t)
    \/ FollowConfigDataEmpty
    \/ \E ignores \in BOOLEAN : FollowConfigData(ignores)
    \/ FetchCancelAction
    \/ FetchDeployment
    \/ \E r \in CancelResponses \cup {NoResponse} : OnCancelAction(r)
    \/ \E r \in DeploymentResponses \cup {NoResponse} : OnDeploymentAction(r)
    \/ SendFeedback
    \/ FeedbackRefused
    \/ FeedbackUnanswered
    \/ UpdateCredentials
    \/ UpdateCredentialsRefused
    \/ RunThrows
    \/ Sleep

Next == LoopStep \/ ServerStep \/ Restart

Spec == Init /\ [][Next]_vars

(* A request ends, by the library's time-outs if not otherwise, the        *)
(* handler returns, and the loop goes on.  Neither the server nor the      *)
(* provisioning endpoint refuses what a feedback needs for ever.  Nobody   *)
(* need offer, ask for or void anything, nor start a loop that has ended.  *)
RenewForFeedback == pc = "feedback" /\ UpdateCredentials

FairSpec ==
    /\ Spec
    /\ WF_vars(LoopStep)
    /\ SF_vars(SendFeedback)
    /\ SF_vars(RenewForFeedback)

(***************************************************************************)
(* Properties.                                                             *)
(***************************************************************************)
(* What the loop follows and what the server holds; a feedback is under    *)
(* way only with a response, and a link is followed only outside the poll. *)
LoopTypeOK ==
    /\ pc \in Labels
    /\ provisioning \in BOOLEAN /\ renewed \in BOOLEAN
    /\ link \in [rel : {"NONE", "configData", "cancelAction", "deploymentBase"},
                 action : Actions \cup {NoAction}]
    /\ link.rel \in {"cancelAction", "deploymentBase"} => link.action \in Actions
    /\ pc \in {"handler", "feedback"} => link.rel \in {"cancelAction", "deploymentBase"}
    /\ cliResp \in Responses \cup {NoResponse}
    /\ pc = "feedback" => cliResp \in Responses
    /\ ignoreSleep \in BOOLEAN
    /\ status \in [Actions -> Statuses]
    /\ report \in [Actions -> Executions \cup {NotReported}]
    /\ ran \in [Actions -> Executions \cup {NotReported}]
    /\ configWanted \in BOOLEAN /\ authorized \in BOOLEAN

TypeOK == LoopTypeOK /\ currentSleepTime \in Int /\ owed \in Int

(* A deployment whose feedback closed it on the server is not executed     *)
(* again, whatever was lost, renewed or restarted since: the client holds  *)
(* no action over from one poll to the next (followDeploymentBase).        *)
NoRerunAfterReport ==
    pc \in {"handler", "feedback"} /\ link.rel = "deploymentBase"
        => status[link.action] # "closed"

(* The server closes a deployment with the outcome of its last execution,  *)
(* also when an earlier one was refused, or lost and repeated.             *)
VerdictIsTheLastRun ==
    \A a \in Actions : status[a] = "closed"
        => ran[a] # NotReported /\ report[a] = ran[a]

(* Between two polls the client sleeps for exactly the time that the first *)
(* of them was told, unless a handler asked to skip this very pause (run,  *)
(* doPoll, ignoreSleep).                                                   *)
PausesAsTold == pc = "run" => owed = 0

(***************************************************************************)
(* An offered deployment is reported or cancelled, however often requests  *)
(* fail, feedback and renewals are refused or lost, and the loop ends and  *)
(* is started again (run, doPoll, followDeploymentBase, retryHandler).     *)
(* Excepted are a loop that ends again and again, or for good, and a       *)
(* configData link that comes back for ever, because the server asks anew  *)
(* or because the handler has no data to give.                             *)
(***************************************************************************)
LoopLivesOn == <>[](pc # "dead")
ConfigSettles == <>[][~FollowConfigDataEmpty /\ (configWanted' => configWanted)]_vars

OfferedIsReported ==
    LoopLivesOn /\ ConfigSettles =>
        \A a \in Actions :
            status[a] = "running" ~> (report[a] # NotReported \/ status[a] # "running")
=============================================================================
