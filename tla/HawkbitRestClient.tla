-------------------------- MODULE HawkbitRestClient --------------------------
(***************************************************************************)
(* The Python client (HawkbitRestApiPythonLoader): the same poll loop as   *)
(* HawkbitCommunicationClient against the same server, and the requirements *)
(* stated there.  It differs in what it makes of an answer:                *)
(*                                                                         *)
(*   - requests raises for a connection, never for a status code: a        *)
(*     refused poll is a poll without links, a refused feedback is taken   *)
(*     as delivered;                                                       *)
(*   - with a listener any exception of a feedback is swallowed, also the  *)
(*     one for an answer that was lost;                                    *)
(*   - the pause is computed, and skipped, in its own way.                 *)
(***************************************************************************)
EXTENDS HawkbitCommunicationClient

CONSTANTS PollingTimeouts,  \* _polling_timeout of the builder: ms, or None
          None

ASSUME PollingAssumption == PollingTimeouts \subseteq Int \cup {None}

(* Client.__init__: the first sleep time is 0. *)
ASSUME StartAssumption == DefaultSleepTime = 0

VARIABLE pollingTimeout     \* Client._pollingTimeout

restVars == <<vars, pollingTimeout>>

RestInit ==
    /\ Init
    /\ provisioning = FALSE
    /\ pollingTimeout \in PollingTimeouts

(* Another status code than HTTP_OK. *)
Refused(label) == pc = label /\ renewed' = FALSE

SleepTime(t) == IF t > 0 THEN t ELSE pollingTimeout
RestDue(t) == IF t = None THEN 0 ELSE Due(t)

-----------------------------------------------------------------------------
(***************************************************************************)
(* Plausible errors in the steps below, for the mutation of the run.       *)
(***************************************************************************)
(* The locals of a follow_...() survive it. *)
RestReturnKeepsResponse(asks) ==
    /\ pc' = "sleep"
    /\ link' = NoLink
    /\ owed' = IF asks THEN 0 ELSE owed
    /\ UNCHANGED <<provisioning, cliResp, currentSleepTime>>

(* A feedback that failed is sent once more. *)
FeedbackFailedAgain ==
    /\ \/ Answered("feedback") /\ TakeFeedback(link, cliResp.execution)
       \/ Refused("feedback") /\ UNCHANGED server
    /\ cliResp.listener
    /\ UNCHANGED <<pc, provisioning, link, cliResp, sleepVars, ran>>

(* The end of a follow_...(): what the response asks is only taken over by *)
(* the callers that assign _ignore_sleep.                                  *)
RestReturn(asks) ==
    /\ pc' = "sleep"
    /\ link' = NoLink
    /\ cliResp' = NoResponse
    /\ owed' = IF asks THEN 0 ELSE owed
    /\ UNCHANGED <<provisioning, currentSleepTime>>

(***************************************************************************)
(* run() and do_poll().                                                    *)
(***************************************************************************)
RestDoPoll(t) ==
    /\ Answered("run")
    /\ currentSleepTime' = SleepTime(t)
    /\ owed' = RestDue(SleepTime(t))
    /\ \E l \in Followed(Links) :
           /\ link' = l
           /\ pc' = IF l = NoLink THEN "sleep" ELSE "follow"
    /\ UNCHANGED <<provisioning, cliResp, ignoreSleep, server, ran>>

(* The text of an error has no "_links" and no "config". *)
DoPollRefused ==
    /\ Refused("run")
    /\ currentSleepTime' = pollingTimeout
    /\ owed' = RestDue(pollingTimeout)
    /\ link' = NoLink
    /\ pc' = "sleep"
    /\ UNCHANGED <<provisioning, cliResp, ignoreSleep, server, ran>>

(* time.sleep((ms / 1000) % 60); None > 0 raises. *)
RestSleep ==
    /\ pc = "sleep"
    /\ IF ignoreSleep THEN pc' = "run" /\ UNCHANGED owed
       ELSE IF currentSleepTime = None THEN pc' = "dead" /\ UNCHANGED owed
       ELSE /\ pc' = "run"
            /\ owed' = owed - (Due(currentSleepTime) % 60000)
    /\ UNCHANGED <<provisioning, renewed, link, cliResp, ignoreSleep,
                   currentSleepTime, server, ran>>

(***************************************************************************)
(* follow_config_data().                                                   *)
(***************************************************************************)
FollowConfigDataNothing ==
    /\ pc = "follow"
    /\ link.rel = "configData"
    /\ RestReturn(FALSE)
    /\ UNCHANGED <<renewed, ignoreSleep, server, ran>>

RestFollowConfigData(ignores) ==
    /\ link.rel = "configData"
    /\ \/ Answered("follow") /\ configWanted' = FALSE
       \/ Refused("follow") /\ UNCHANGED configWanted
    /\ RestReturn(ignores)
    /\ ignoreSleep' = ignores
    /\ UNCHANGED <<status, report, authorized, ran>>

(***************************************************************************)
(* follow_cancel_action() and follow_deployment_base(): GET and handler    *)
(* are those of the C++ loop.                                              *)
(***************************************************************************)
(* "return resp" comes before what follows the except clause. *)
FeedbackAnswered ==
    /\ \/ Answered("feedback") /\ TakeFeedback(link, cliResp.execution)
       \/ Refused("feedback") /\ UNCHANGED server
    /\ RestReturn(cliResp.ignoreSleep)
    /\ UNCHANGED <<ignoreSleep, ran>>

(* No connection, or no answer: on_error(), and the loop goes on. *)
FeedbackFailed ==
    /\ \/ Answered("feedback") /\ TakeFeedback(link, cliResp.execution)
       \/ Refused("feedback") /\ UNCHANGED server
    /\ cliResp.listener
    /\ RestReturn(cliResp.ignoreSleep)
    /\ ignoreSleep' = IF link.rel = "cancelAction" THEN cliResp.ignoreSleep
                      ELSE ignoreSleep
    /\ UNCHANGED ran

RestStep ==
    /\ \/ \E t \in SleepTimes : RestDoPoll(t)
       \/ DoPollRefused
       \/ RestSleep
       \/ FollowConfigDataNothing
       \/ \E ignores \in BOOLEAN : RestFollowConfigData(ignores)
       \/ FetchCancelAction
       \/ FetchDeployment
       \/ \E r \in CancelResponses : OnCancelAction(r)
       \/ \E r \in DeploymentResponses : OnDeploymentAction(r)
       \/ FeedbackAnswered
       \/ FeedbackFailed
       \/ FeedbackUnanswered
       \/ RunThrows
    /\ UNCHANGED pollingTimeout

RestNext ==
    \/ RestStep
    \/ (ServerStep \/ Restart) /\ UNCHANGED pollingTimeout

RestSpec == RestInit /\ [][RestNext]_restVars

-----------------------------------------------------------------------------
(* As for the C++ loop, with a sleep time that may be missing; outside a   *)
(* follow_...() no link and no response is held.                           *)
RestTypeOK ==
    /\ LoopTypeOK
    /\ provisioning = FALSE /\ renewed = FALSE
    /\ pollingTimeout \in PollingTimeouts
    /\ currentSleepTime \in Int \cup {None}
    /\ owed \in Int
    /\ pc \in {"run", "sleep"} => link = NoLink /\ cliResp = NoResponse
=============================================================================
