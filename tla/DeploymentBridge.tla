-------------------------- MODULE DeploymentBridge --------------------------
(***************************************************************************)
(* The bridge between the native hawkBit client and the .NET loader, two   *)
(* threads of one process that share two ThreadSafeBuffers:                *)
(*                                                                         *)
(*   client   - StartClient(): polls the server and, for a deployment,     *)
(*              runs Handler::onDeploymentAction (interop/src/main.cpp),   *)
(*              which puts [start][begin][content]*[end] into              *)
(*              m_messageBuffer, one content per artifact and after the    *)
(*              artifact was downloaded, and waits for the answer in       *)
(*              m_responseBuffer;                                          *)
(*   consumer - the task of DataConsumer.StartAsync, which gets that       *)
(*              packet, executes it and puts one answer.                   *)
(*                                                                         *)
(* A buffer is a sequence here: ThreadSafeBuffer implements Channel.  How  *)
(* the commands work and what happens to the files is left to the modules  *)
(* of the loader: Execute, CommitTransaction and RollBackTransaction have  *)
(* every outcome their callers can see.                                    *)
(***************************************************************************)
EXTENDS Naturals, Sequences, FiniteSets

CONSTANTS Deployments,   \* the deployments the server can offer
          NoDeployment,  \* not a deployment
          Files,         \* names of artifacts
          NoFile,        \* a message without an artifact: not a file
          Artifacts      \* Artifacts[d]: d's artifacts, over all its chunks

ASSUME FilesAssumption == IsFiniteSet(Files)

ASSUME ArtifactsAssumption == Artifacts \in [Deployments -> Seq(Files)]

ASSUME NoneAssumption ==
    /\ NoDeployment \notin Deployments
    /\ NoFile \notin Files

(* Members of DeploymentDataType; the bridge uses no other. *)
PacketTypes == {"eStartTransaction", "eBeginPayload", "ePayloadContent",
                "eEndPayload"}
VerdictTypes == {"eCommitTransaction", "eAbortTransaction"}

(* HAWKBIT_DEPLOYMENT_DATA, reduced to the fields the protocol uses. *)
Messages == [type : PacketTypes, file : Files \cup {NoFile}]
Signal(type) == [type |-> type, file |-> NoFile]
Content(f) == [type |-> "ePayloadContent", file |-> f]

(* RESPONSE; an exception's message is "exception". *)
Details == {"", "success publishing config", "rollback publishing config",
            "exception"}

(* default(NativeResponse): the type's value is 0, which is eBeginPayload. *)
EmptyResponse == [type |-> "eBeginPayload", detail |-> ""]
Success == [type |-> "eCommitTransaction", detail |-> "success publishing config"]
RolledBack == [type |-> "eCommitTransaction", detail |-> "rollback publishing config"]
Failure == [type |-> "eAbortTransaction", detail |-> "exception"]

(* The answers the try and the catch block build. *)
Answers == {Success, RolledBack, Failure}
Responses == [type : VerdictTypes \cup {EmptyResponse.type}, detail : Details]

VARIABLES m_messageBuffer,   \* data to the loader
          m_responseBuffer,  \* data from the loader
          clientPc,          \* where the client thread is
          deployment,        \* the deployment in onDeploymentAction
          next,              \* index of its next artifact
          updResponse,       \* the answer onDeploymentAction got
          consumerPc,        \* where the consumer task is
          fileDataModels,    \* the artifacts of the running transaction
          executed,          \* history: the artifacts executed for a deployment
          response           \* the answer under construction

clientVars == <<clientPc, deployment, next, updResponse>>
consumerVars == <<consumerPc, fileDataModels, executed, response>>
buffers == <<m_messageBuffer, m_responseBuffer>>
vars == <<m_messageBuffer, m_responseBuffer, clientPc, deployment, next,
          updResponse, consumerPc, fileDataModels, executed, response>>

ClientLabels == {"poll", "start", "begin", "artifact", "content", "response",
                 "feedback", "dead"}
ConsumerLabels == {"start", "begin", "payload", "execute", "commit",
                   "rollback", "respond"}

Init ==
    /\ m_messageBuffer = <<>>
    /\ m_responseBuffer = <<>>
    /\ clientPc = "poll"
    /\ deployment = NoDeployment
    /\ next = 1
    /\ updResponse = EmptyResponse
    /\ consumerPc = "start"
    /\ fileDataModels = <<>>
    /\ executed = <<>>
    /\ response = EmptyResponse

(***************************************************************************)
(* Plausible errors in the steps below, for the mutation of the runs.      *)
(***************************************************************************)
(* The artifacts are counted from 0. *)
OnDeploymentActionFromZero(d) ==
    /\ clientPc = "poll"
    /\ clientPc' = "start"
    /\ deployment' = d
    /\ next' = 0
    /\ UNCHANGED <<buffers, updResponse, consumerVars>>

(* run() catches the exception and polls on: the packet stays unfinished. *)
ClientSurvives ==
    /\ clientPc \in {"poll", "artifact", "feedback"}
    /\ clientPc' = "poll"
    /\ UNCHANGED <<m_messageBuffer, m_responseBuffer, deployment, next,
                   updResponse, consumerPc, fileDataModels, executed, response>>

(* The handler waits for the answer with a timeout. *)
GetResponseTimeout ==
    /\ clientPc = "response"
    /\ IF m_responseBuffer # <<>>
       THEN updResponse' = Head(m_responseBuffer) /\ m_responseBuffer' = Tail(m_responseBuffer)
       ELSE UNCHANGED <<updResponse, m_responseBuffer>>
    /\ clientPc' = "feedback"
    /\ UNCHANGED <<m_messageBuffer, deployment, next, consumerVars>>

(* The transaction starts without clearing the list of the one before. *)
GetBeginKeepsModels ==
    /\ consumerPc = "begin"
    /\ m_messageBuffer # <<>>
    /\ m_messageBuffer' = Tail(m_messageBuffer)
    /\ consumerPc' = "payload"
    /\ UNCHANGED <<m_responseBuffer, clientVars, fileDataModels, executed, response>>

(* The answer is put at the end of the try block, not in finally. *)
PutResponseUnlessCaught ==
    /\ consumerPc = "respond"
    /\ IF response = Failure THEN UNCHANGED m_responseBuffer
       ELSE m_responseBuffer' = Append(m_responseBuffer, response)
    /\ consumerPc' = "start"
    /\ UNCHANGED <<m_messageBuffer, clientVars, fileDataModels, executed, response>>

(* The answer is put by the catch block and by finally. *)
PutResponseTwice ==
    /\ consumerPc = "respond"
    /\ m_responseBuffer' = m_responseBuffer \o
          IF response = Failure THEN <<response, response>> ELSE <<response>>
    /\ consumerPc' = "start"
    /\ UNCHANGED <<m_messageBuffer, clientVars, fileDataModels, executed, response>>

(***************************************************************************)
(* The client thread.                                                      *)
(***************************************************************************)
PutMessage(m) == m_messageBuffer' = Append(m_messageBuffer, m)

(* doPoll found a deployment; polls that find none change nothing here. *)
OnDeploymentAction(d) ==
    /\ clientPc = "poll"
    /\ clientPc' = "start"
    /\ deployment' = d
    /\ next' = 1
    /\ UNCHANGED <<buffers, updResponse, consumerVars>>

PutStart ==
    /\ clientPc = "start"
    /\ PutMessage(Signal("eStartTransaction"))
    /\ clientPc' = "begin"
    /\ UNCHANGED <<m_responseBuffer, deployment, next, updResponse, consumerVars>>

PutBegin ==
    /\ clientPc = "begin"
    /\ PutMessage(Signal("eBeginPayload"))
    /\ clientPc' = "artifact"
    /\ UNCHANGED <<m_responseBuffer, deployment, next, updResponse, consumerVars>>

(* artifact->downloadTo returns: the file is on the disk. *)
DownloadTo ==
    /\ clientPc = "artifact"
    /\ next <= Len(Artifacts[deployment])
    /\ clientPc' = "content"
    /\ UNCHANGED <<buffers, deployment, next, updResponse, consumerVars>>

PutContent ==
    /\ clientPc = "content"
    /\ PutMessage(Content(Artifacts[deployment][next]))
    /\ next' = next + 1
    /\ clientPc' = "artifact"
    /\ UNCHANGED <<m_responseBuffer, deployment, updResponse, consumerVars>>

PutEnd ==
    /\ clientPc = "artifact"
    /\ next > Len(Artifacts[deployment])
    /\ PutMessage(Signal("eEndPayload"))
    /\ clientPc' = "response"
    /\ UNCHANGED <<m_responseBuffer, deployment, next, updResponse, consumerVars>>

GetResponse ==
    /\ clientPc = "response"
    /\ m_responseBuffer # <<>>
    /\ updResponse' = Head(m_responseBuffer)
    /\ m_responseBuffer' = Tail(m_responseBuffer)
    /\ clientPc' = "feedback"
    /\ UNCHANGED <<m_messageBuffer, deployment, next, consumerVars>>

(* The feedback is posted, or the server answers with an error status, which *)
(* the delivery listener swallows: either way the poll loop goes on.        *)
SendFeedback ==
    /\ clientPc = "feedback"
    /\ clientPc' = "poll"
    /\ UNCHANGED <<buffers, deployment, next, updResponse, consumerVars>>

(* An exception nobody catches leaves run(): a failed poll, a chunk version *)
(* that std::stoi refuses, a failed download, a feedback that is lost or    *)
(* refused with 401.  The task that called StartClient() ends.              *)
ClientThrows ==
    /\ clientPc \in {"poll", "artifact", "feedback"}
    /\ clientPc' = "dead"
    /\ UNCHANGED <<buffers, deployment, next, updResponse, consumerVars>>

Execution(r) == IF r.type = "eCommitTransaction" THEN "CLOSED" ELSE "REJECTED"

(***************************************************************************)
(* The consumer task.                                                      *)
(***************************************************************************)
GetMessage ==
    /\ m_messageBuffer # <<>>
    /\ m_messageBuffer' = Tail(m_messageBuffer)

(* The catch block: the answer becomes an abort, nothing is rolled back. *)
Catch ==
    /\ response' = Failure
    /\ consumerPc' = "respond"

GetStart ==
    /\ consumerPc = "start"
    /\ GetMessage
    /\ IF Head(m_messageBuffer).type = "eStartTransaction"
       THEN consumerPc' = "begin" /\ response' = EmptyResponse
       ELSE Catch
    /\ UNCHANGED <<m_responseBuffer, clientVars, fileDataModels, executed>>

GetBegin ==
    /\ consumerPc = "begin"
    /\ GetMessage
    /\ IF Head(m_messageBuffer).type = "eBeginPayload"
       THEN consumerPc' = "payload" /\ fileDataModels' = <<>> /\ UNCHANGED <<response>>
       ELSE Catch /\ UNCHANGED <<fileDataModels>>
    /\ UNCHANGED <<m_responseBuffer, clientVars, executed>>

(* One turn of the while loop: contents are collected until the end arrives, *)
(* any other type is passed over.                                            *)
GetPayload ==
    /\ consumerPc = "payload"
    /\ GetMessage
    /\ LET chunk == Head(m_messageBuffer)
       IN /\ consumerPc' = IF chunk.type = "eEndPayload" THEN "execute" ELSE "payload"
          /\ fileDataModels' = IF chunk.type = "ePayloadContent"
                               THEN Append(fileDataModels, chunk.file)
                               ELSE fileDataModels
    /\ UNCHANGED <<m_responseBuffer, clientVars, executed, response>>

(* _commands.Execute() returns true, returns false, or throws; with no file *)
(* neither AttachIf attaches a command, and an empty queue returns true.     *)
Execute ==
    /\ consumerPc = "execute"
    /\ executed' = fileDataModels
    /\ \/ consumerPc' = "commit" /\ UNCHANGED <<response>>
       \/ /\ fileDataModels # <<>>
          /\ \/ consumerPc' = "rollback" /\ UNCHANGED <<response>>
             \/ Catch
    /\ UNCHANGED <<buffers, clientVars, fileDataModels>>

CommitTransaction ==
    /\ consumerPc = "commit"
    /\ \/ /\ consumerPc' = "respond"
          /\ response' = Success
          /\ fileDataModels' = <<>>
       \/ Catch /\ UNCHANGED <<fileDataModels>>
    /\ UNCHANGED <<buffers, clientVars, executed>>

(* What Directory.GetFiles can list: some of the files, each once. *)
FileLists ==
    {s \in UNION {[1 .. n -> Files] : n \in 0 .. Cardinality(Files)} :
        \A i, j \in DOMAIN s : s[i] = s[j] => i = j}

(***************************************************************************)
(* The files of the last committed configuration are copied back, listed   *)
(* and executed; whether that execution succeeds is not looked at, only an *)
(* exception is noticed, before or after the list was rebuilt.             *)
(***************************************************************************)
RollBackTransaction ==
    /\ consumerPc = "rollback"
    /\ \/ /\ consumerPc' = "respond"
          /\ response' = RolledBack
          /\ fileDataModels' \in FileLists
       \/ /\ Catch
          /\ \/ fileDataModels' \in FileLists
             \/ UNCHANGED <<fileDataModels>>
    /\ UNCHANGED <<buffers, clientVars, executed>>

(* The finally block. *)
PutResponse ==
    /\ consumerPc = "respond"
    /\ m_responseBuffer' = Append(m_responseBuffer, response)
    /\ consumerPc' = "start"
    /\ UNCHANGED <<m_messageBuffer, clientVars, fileDataModels, executed, response>>

(***************************************************************************)
(* The process ends at any moment (an exception that crosses the P/Invoke  *)
(* frame may do it too) and is started again: buffers and threads are new. *)
(***************************************************************************)
Restart ==
    /\ m_messageBuffer' = <<>>
    /\ m_responseBuffer' = <<>>
    /\ clientPc' = "poll"
    /\ deployment' = NoDeployment
    /\ next' = 1
    /\ updResponse' = EmptyResponse
    /\ consumerPc' = "start"
    /\ fileDataModels' = <<>>
    /\ executed' = <<>>
    /\ response' = EmptyResponse

(* The steps of onDeploymentAction that the code itself takes. *)
HandlerStep ==
    \/ PutStart \/ PutBegin \/ DownloadTo \/ PutContent \/ PutEnd
    \/ GetResponse \/ SendFeedback

ConsumerStep ==
    \/ GetStart \/ GetBegin \/ GetPayload
    \/ Execute \/ CommitTransaction \/ RollBackTransaction \/ PutResponse

Next ==
    \/ \E d \in Deployments : OnDeploymentAction(d)
    \/ HandlerStep
    \/ ClientThrows
    \/ ConsumerStep
    \/ Restart

Spec == Init /\ [][Next]_vars

(* Both threads keep running: neither waits for anything but the other, and *)
(* the commands the consumer executes return.                               *)
FairSpec == Spec /\ WF_vars(HandlerStep) /\ WF_vars(ConsumerStep)

-----------------------------------------------------------------------------
TypeOK ==
    /\ m_messageBuffer \in Seq(Messages)
    /\ m_responseBuffer \in Seq(Responses)
    /\ clientPc \in ClientLabels
    /\ deployment \in Deployments \cup {NoDeployment}
    /\ deployment = NoDeployment => clientPc \in {"poll", "dead"}
    /\ next \in Nat \ {0}
    /\ clientPc = "content" => next <= Len(Artifacts[deployment])
    /\ updResponse \in Responses
    /\ consumerPc \in ConsumerLabels
    /\ fileDataModels \in Seq(Files \cup {NoFile})
    /\ executed \in Seq(Files \cup {NoFile})
    /\ response \in Responses

(***************************************************************************)
(* The packet is always well formed at the consumer's end: it never throws *)
(* "incorrect type of chunk.", and inside the loop it meets nothing but    *)
(* contents and the end, although the client may fail half-way through a   *)
(* packet and the buffers outlive the deployment.                          *)
(***************************************************************************)
Expected == CASE consumerPc = "start" -> {"eStartTransaction"}
              [] consumerPc = "begin" -> {"eBeginPayload"}
              [] consumerPc = "payload" -> {"ePayloadContent", "eEndPayload"}
              [] OTHER -> {}

PacketWellFormed ==
    m_messageBuffer # <<>> => Head(m_messageBuffer).type \in Expected

(***************************************************************************)
(* While the consumer executes a deployment, commits or rolls back (and so *)
(* moves and deletes files in the download directory) the client waits for *)
(* the answer: it downloads nothing into that directory meanwhile, although *)
(* no lock protects the directory.                                         *)
(***************************************************************************)
NoDownloadWhileExecuting ==
    consumerPc \in {"execute", "commit", "rollback", "respond"} =>
        clientPc = "response"

(***************************************************************************)
(* An answer is in the response buffer only while the client waits for it: *)
(* no answer of one deployment is left for the next to take.               *)
(***************************************************************************)
NoStaleResponse ==
    /\ m_responseBuffer # <<>> => clientPc = "response"
    /\ Len(m_responseBuffer) <= 1

(***************************************************************************)
(* The bridge implements the handshake: what is executed is exactly the    *)
(* artifact list of the deployment being offered, once, and the verdict    *)
(* the client goes on with is the one reached for it, never the default    *)
(* the consumer's answer starts from.                                      *)
(***************************************************************************)
Phase ==
    IF clientPc \in {"poll", "dead"} THEN "idle"
    ELSE IF clientPc = "feedback" \/ m_responseBuffer # <<>> THEN "decided"
    ELSE IF consumerPc \in {"commit", "rollback", "respond"} THEN "applied"
    ELSE "offered"

HS == INSTANCE DeploymentHandshake
        WITH phase <- Phase,
             offered <- deployment,
             applied <- executed,
             verdict <- IF m_responseBuffer # <<>> THEN Head(m_responseBuffer)
                                                   ELSE updResponse,
             Verdicts <- Answers,
             NoVerdict <- EmptyResponse

ImplementsHandshake == HS!HSSpec

(***************************************************************************)
(* A deployment the handler took up is answered, unless the client fails   *)
(* or the process restarts: the two threads never wait for each other.     *)
(***************************************************************************)
DeploymentAnswered ==
    clientPc = "start" ~> clientPc \in {"feedback", "dead", "poll"}

(***************************************************************************)
(* A deployment whose commands failed and that was rolled back is reported *)
(* to the server as rejected.  DataConsumer.cs:77 calls the answer         *)
(* "rollback publishing config", the handler closes every deployment whose *)
(* answer is a commit.                                                     *)
(***************************************************************************)
RollbackIsRejected ==
    clientPc = "feedback" /\ updResponse.detail = "rollback publishing config"
        => Execution(updResponse) = "REJECTED"
=============================================================================
