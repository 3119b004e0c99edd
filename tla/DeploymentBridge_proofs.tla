----------------------- MODULE DeploymentBridge_proofs -----------------------
(***************************************************************************)
(* Theorems about DeploymentBridge for any set of deployments and any      *)
(* artifact lists, and their proofs.                                       *)
(*                                                                         *)
(* The invariant says how far each thread is in the packet of the current  *)
(* deployment: Packet(d, i) is its i-th message, Got the number the        *)
(* consumer took, and the buffer holds the messages from Got + 1 on, up to *)
(* the last one the client's program counter says it put.                  *)
(***************************************************************************)
EXTENDS DeploymentBridge, SequenceTheorems, FiniteSetTheorems, TLAPS

(* The length of d's packet and its i-th message. *)
Total(d) == Len(Artifacts[d]) + 3

Packet(d, i) ==
    IF i = 1 THEN Signal("eStartTransaction")
    ELSE IF i = 2 THEN Signal("eBeginPayload")
    ELSE IF i = Total(d) THEN Signal("eEndPayload")
    ELSE Content(Artifacts[d][i - 2])

Receiving == {"start", "begin", "payload"}
Deciding == {"commit", "rollback", "respond"}
Sending == {"start", "begin", "artifact", "content"}

(* Messages the consumer took, and messages the client put. *)
Got == IF consumerPc = "start" THEN 0
       ELSE IF consumerPc = "begin" THEN 1
       ELSE Len(fileDataModels) + 2
Sent == Got + Len(m_messageBuffer)

(* Nothing is under way between two deployments. *)
IdleInv ==
    clientPc \in {"poll", "feedback"} =>
        /\ consumerPc = "start"
        /\ m_messageBuffer = <<>>
        /\ m_responseBuffer = <<>>

SendingInv ==
    clientPc \in Sending =>
        /\ consumerPc \in Receiving
        /\ m_responseBuffer = <<>>
        /\ clientPc = "start" => Sent = 0 /\ next = 1
        /\ clientPc = "begin" => Sent = 1 /\ next = 1
        /\ clientPc \in {"artifact", "content"} =>
              Sent = next + 1 /\ next <= Len(Artifacts[deployment]) + 1

WaitingInv ==
    clientPc = "response" =>
        \/ /\ m_responseBuffer = <<>>
           /\ consumerPc \in Receiving
           /\ Sent = Total(deployment)
        \/ /\ m_responseBuffer = <<>>
           /\ consumerPc \in {"execute"} \cup Deciding
           /\ m_messageBuffer = <<>>
        \/ /\ Len(m_responseBuffer) = 1
           /\ consumerPc = "start"
           /\ m_messageBuffer = <<>>

(* A client that failed never puts the end of its packet. *)
DeadInv ==
    clientPc = "dead" =>
        /\ consumerPc \in Receiving
        /\ m_responseBuffer = <<>>
        /\ \/ m_messageBuffer = <<>> /\ consumerPc = "start"
           \/ deployment \in Deployments /\ Sent < Total(deployment)

(* What is in flight is the part of the packet between the two threads. *)
QueuedInv ==
    \A i \in 1 .. Len(m_messageBuffer) :
        m_messageBuffer[i] = Packet(deployment, Got + i)

(* What the consumer collected is a prefix of the artifacts, in the end all; *)
(* once it responds, the answer is no longer the default.                    *)
CollectedInv ==
    /\ consumerPc = "payload" =>
          /\ Len(fileDataModels) <= Len(Artifacts[deployment])
          /\ \A i \in 1 .. Len(fileDataModels) :
                fileDataModels[i] = Artifacts[deployment][i]
    /\ consumerPc = "execute" => fileDataModels = Artifacts[deployment]
    /\ consumerPc \in Deciding => executed = Artifacts[deployment]
    /\ consumerPc = "respond" => response \in Answers

IInv ==
    /\ TypeOK
    /\ IdleInv
    /\ SendingInv
    /\ WaitingInv
    /\ DeadInv
    /\ QueuedInv
    /\ CollectedInv

(***************************************************************************)
(* A deployment that is being handled has an artifact list.                *)
(***************************************************************************)
LEMMA ArtifactsType ==
  ASSUME NEW d \in Deployments
  PROVE  /\ Artifacts[d] \in Seq(Files)
         /\ Len(Artifacts[d]) \in Nat
         /\ \A i \in 1 .. Len(Artifacts[d]) : Artifacts[d][i] \in Files
  BY ArtifactsAssumption, ElementOfSeq

(***************************************************************************)
(* A list of files is a sequence of files.                                 *)
(***************************************************************************)
LEMMA FileListsType == FileLists \subseteq Seq(Files \cup {NoFile})
<1>1. Cardinality(Files) \in Nat
  BY FilesAssumption, FS_CardinalityType
<1>2. SUFFICES ASSUME NEW n \in 0 .. Cardinality(Files), NEW s \in [1 .. n -> Files]
               PROVE  s \in Seq(Files \cup {NoFile})
  BY DEF FileLists
<1>3. n \in Nat
  BY <1>1
<1>4. s \in [1 .. n -> Files \cup {NoFile}]
  OBVIOUS
<1>5. QED
  BY <1>3, <1>4

(***************************************************************************)
(* The default and the three answers are responses.                        *)
(***************************************************************************)
LEMMA ResponseTypes ==
    /\ EmptyResponse \in Responses
    /\ Success \in Responses
    /\ RolledBack \in Responses
    /\ Failure \in Responses
  BY DEF Responses, VerdictTypes, Details, EmptyResponse, Success, RolledBack,
         Failure

(* The initial states satisfy the inductive invariant. *)
LEMMA InitIInv == Init => IInv
  BY ResponseTypes
  DEF Init, IInv, TypeOK, IdleInv, SendingInv, WaitingInv, DeadInv,
         QueuedInv, CollectedInv, ClientLabels, ConsumerLabels, Sending, Deciding

(***************************************************************************)
(* The type invariant, one step per action.                                *)
(***************************************************************************)
LEMMA TypeStep == TypeOK /\ [Next]_vars => TypeOK'
<1> SUFFICES ASSUME TypeOK, [Next]_vars PROVE TypeOK'
  OBVIOUS
<1> USE ResponseTypes
    DEF TypeOK, ClientLabels, ConsumerLabels, Messages, PacketTypes, Catch,
        clientVars, consumerVars, buffers
<1>1. ASSUME NEW d \in Deployments, OnDeploymentAction(d) PROVE TypeOK'
  BY <1>1, NoneAssumption DEF OnDeploymentAction
<1>2. CASE PutStart
  BY <1>2 DEF PutStart, PutMessage, Signal
<1>3. CASE PutBegin
  BY <1>3 DEF PutBegin, PutMessage, Signal
<1>4. CASE DownloadTo
  BY <1>4 DEF DownloadTo
<1>5. CASE PutContent
  <2>1. deployment \in Deployments /\ next \in 1 .. Len(Artifacts[deployment])
    BY <1>5, ArtifactsType DEF PutContent
  <2>2. Content(Artifacts[deployment][next]) \in Messages
    BY <2>1, ArtifactsType DEF Content
  <2>3. QED
    BY <1>5, <2>1, <2>2 DEF PutContent, PutMessage
<1>6. CASE PutEnd
  BY <1>6 DEF PutEnd, PutMessage, Signal
<1>7. CASE GetResponse
  BY <1>7 DEF GetResponse
<1>8. CASE SendFeedback
  BY <1>8 DEF SendFeedback
<1>9. CASE ClientThrows
  BY <1>9 DEF ClientThrows
<1>10. CASE GetStart
  BY <1>10 DEF GetStart, GetMessage
<1>11. CASE GetBegin
  <2>1. fileDataModels' = <<>> \/ fileDataModels' = fileDataModels
    BY <1>11 DEF GetBegin
  <2>2. fileDataModels' \in Seq(Files \cup {NoFile})
    BY <2>1, EmptySeq
  <2>3. response' \in Responses /\ consumerPc' \in ConsumerLabels
    BY <1>11 DEF GetBegin
  <2>4. QED
    BY <1>11, <2>2, <2>3 DEF GetBegin, GetMessage
<1>12. CASE GetPayload
  <2>1. Head(m_messageBuffer) \in Messages /\ Tail(m_messageBuffer) \in Seq(Messages)
    BY <1>12, HeadTailProperties DEF GetPayload, GetMessage
  <2>2. fileDataModels' \in Seq(Files \cup {NoFile})
    BY <1>12, <2>1 DEF GetPayload
  <2>3. QED
    BY <1>12, <2>1, <2>2 DEF GetPayload, GetMessage
<1>13. CASE Execute
  BY <1>13 DEF Execute
<1>14. CASE CommitTransaction
  <2>1. fileDataModels' = <<>> \/ fileDataModels' = fileDataModels
    BY <1>14 DEF CommitTransaction
  <2>2. fileDataModels' \in Seq(Files \cup {NoFile})
    BY <2>1, EmptySeq
  <2>3. response' \in Responses /\ consumerPc' \in ConsumerLabels
    BY <1>14 DEF CommitTransaction
  <2>4. QED
    BY <1>14, <2>2, <2>3 DEF CommitTransaction
<1>15. CASE RollBackTransaction
  <2>1. fileDataModels' \in Seq(Files \cup {NoFile})
    BY <1>15, FileListsType DEF RollBackTransaction
  <2>2. QED
    BY <1>15, <2>1 DEF RollBackTransaction
<1>16. CASE PutResponse
  BY <1>16 DEF PutResponse
<1>17. CASE Restart
  <2>1. /\ m_messageBuffer' \in Seq(Messages)
        /\ m_responseBuffer' \in Seq(Responses)
        /\ fileDataModels' \in Seq(Files \cup {NoFile})
        /\ executed' \in Seq(Files \cup {NoFile})
    BY <1>17 DEF Restart
  <2>2. QED
    BY <1>17, <2>1 DEF Restart
<1>18. CASE UNCHANGED vars
  BY <1>18 DEF vars
<1>19. QED
  BY <1>1, <1>2, <1>3, <1>4, <1>5, <1>6, <1>7, <1>8, <1>9, <1>10, <1>11,
     <1>12, <1>13, <1>14, <1>15, <1>16, <1>17, <1>18
  DEF Next, HandlerStep, ConsumerStep

(* The variables keep their types. *)
THEOREM TypeCorrect == Spec => []TypeOK
<1>1. Init => TypeOK
  BY InitIInv DEF IInv
<1>2. QED
  BY <1>1, TypeStep, PTL DEF Spec

(***************************************************************************)
(* What a put adds to the message buffer.                                  *)
(***************************************************************************)
LEMMA PutFacts ==
  ASSUME m_messageBuffer \in Seq(Messages), NEW m \in Messages, PutMessage(m)
  PROVE  /\ Len(m_messageBuffer') = Len(m_messageBuffer) + 1
         /\ \A i \in 1 .. Len(m_messageBuffer) :
               m_messageBuffer'[i] = m_messageBuffer[i]
         /\ m_messageBuffer'[Len(m_messageBuffer) + 1] = m
  BY AppendProperties DEF PutMessage

(***************************************************************************)
(* What waits for the consumer: the next message of the packet, of a       *)
(* deployment the client is sending, waits for or gave up.                 *)
(***************************************************************************)
LEMMA QueueHead ==
  ASSUME IInv, m_messageBuffer # <<>>, consumerPc \in Receiving
  PROVE  /\ clientPc \in {"begin", "artifact", "content", "response", "dead"}
         /\ deployment \in Deployments
         /\ m_responseBuffer = <<>>
         /\ Head(m_messageBuffer) = Packet(deployment, Got + 1)
         /\ Len(m_messageBuffer) \in Nat \ {0}
         /\ Got \in Nat
         /\ Sent <= Total(deployment)
<1>1. /\ m_messageBuffer \in Seq(Messages)
      /\ Len(m_messageBuffer) \in Nat \ {0}
      /\ m_messageBuffer[1] = Head(m_messageBuffer)
      /\ Got \in Nat
  BY EmptySeq DEF Got, IInv, TypeOK
<1>2. Head(m_messageBuffer) = Packet(deployment, Got + 1)
  BY <1>1 DEF IInv, QueuedInv
<1>3. clientPc \notin {"poll", "feedback"}
  BY DEF IInv, IdleInv
<1>4. /\ clientPc \in {"begin", "artifact", "content", "response", "dead"}
      /\ m_responseBuffer = <<>>
  BY <1>1, <1>3
  DEF IInv, TypeOK, ClientLabels, SendingInv, Sending, WaitingInv, DeadInv,
      Sent, Receiving, Deciding
<1>5. deployment \in Deployments
  BY <1>4 DEF IInv, TypeOK, DeadInv
<1>6. Sent <= Total(deployment)
  <2>1. Len(Artifacts[deployment]) \in Nat /\ next \in Nat /\ Sent \in Nat
    BY <1>1, <1>5, ArtifactsType DEF Sent, IInv, TypeOK
  <2>2. QED
    BY <1>4, <2>1
    DEF IInv, SendingInv, Sending, WaitingInv, Receiving, Deciding, DeadInv,
        Total
<1>7. QED
  BY <1>1, <1>2, <1>4, <1>5, <1>6

(***************************************************************************)
(* What a get leaves in the message buffer.                                *)
(***************************************************************************)
LEMMA GetFacts ==
  ASSUME IInv, GetMessage, consumerPc \in Receiving
  PROVE  /\ Len(m_messageBuffer') = Len(m_messageBuffer) - 1
         /\ \A i \in 1 .. Len(m_messageBuffer) - 1 :
               m_messageBuffer'[i] = Packet(deployment, Got + 1 + i)
<1>1. /\ m_messageBuffer # <<>>
      /\ m_messageBuffer' = Tail(m_messageBuffer)
      /\ m_messageBuffer \in Seq(Messages)
  BY DEF GetMessage, IInv, TypeOK
<1>2. /\ Len(m_messageBuffer') = Len(m_messageBuffer) - 1
      /\ \A i \in 1 .. Len(m_messageBuffer) - 1 :
            m_messageBuffer'[i] = m_messageBuffer[i + 1]
  BY <1>1, HeadTailProperties
<1>3. Len(m_messageBuffer) \in Nat /\ Got \in Nat
  BY <1>1, QueueHead
<1>4. ASSUME NEW i \in 1 .. Len(m_messageBuffer) - 1
      PROVE  m_messageBuffer'[i] = Packet(deployment, Got + 1 + i)
  <2>1. /\ i + 1 \in 1 .. Len(m_messageBuffer)
        /\ Got + (i + 1) = Got + 1 + i
    BY <1>3
  <2>2. m_messageBuffer[i + 1] = Packet(deployment, Got + (i + 1))
    BY <2>1 DEF IInv, QueuedInv
  <2>3. QED
    BY <1>2, <2>1, <2>2
<1>5. QED
  BY <1>2, <1>4

(* The part of the invariant that relates the two program counters. *)
Control == IdleInv /\ SendingInv /\ WaitingInv /\ DeadInv

(***************************************************************************)
(* A put of the packet's next message moves the client one message on.     *)
(***************************************************************************)
LEMMA PutNext ==
  ASSUME IInv, clientPc \in Sending, deployment \in Deployments,
         NEW m \in Messages, PutMessage(m), m = Packet(deployment, Sent + 1),
         deployment' = deployment, UNCHANGED consumerVars
  PROVE  /\ Got' = Got
         /\ Sent' = Sent + 1
         /\ consumerPc' = consumerPc
         /\ consumerPc \in Receiving
         /\ QueuedInv'
         /\ CollectedInv'
<1>1. /\ Len(m_messageBuffer') = Len(m_messageBuffer) + 1
      /\ \A i \in 1 .. Len(m_messageBuffer) :
            m_messageBuffer'[i] = m_messageBuffer[i]
      /\ m_messageBuffer'[Len(m_messageBuffer) + 1] = m
  BY PutFacts DEF IInv, TypeOK
<1>2. /\ consumerPc' = consumerPc
      /\ fileDataModels' = fileDataModels
      /\ executed' = executed
      /\ response' = response
  BY DEF consumerVars
<1>3. Got' = Got /\ Got \in Nat /\ Len(m_messageBuffer) \in Nat
  BY <1>2 DEF Got, IInv, TypeOK
<1>4. Sent' = Sent + 1
  BY <1>1, <1>3 DEF Sent
<1>5. consumerPc \in Receiving
  BY DEF IInv, SendingInv
<1>6. QueuedInv'
  <2>1. ASSUME NEW i \in 1 .. Len(m_messageBuffer')
        PROVE  m_messageBuffer'[i] = Packet(deployment, Got + i)
    <3>1. CASE i \in 1 .. Len(m_messageBuffer)
      BY <3>1, <1>1 DEF IInv, QueuedInv
    <3>2. CASE i = Len(m_messageBuffer) + 1
      BY <3>2, <1>1, <1>3 DEF Sent
    <3>3. QED
      BY <3>1, <3>2, <1>1, <1>3
  <2>2. QED
    BY <2>1, <1>3 DEF QueuedInv, Packet, Total
<1>7. CollectedInv'
  BY <1>2 DEF IInv, CollectedInv
<1>8. QED
  BY <1>2, <1>3, <1>4, <1>5, <1>6, <1>7

(***************************************************************************)
(* A get that leaves the consumer receiving moves it one message on.       *)
(***************************************************************************)
LEMMA GetNext ==
  ASSUME IInv, GetMessage, consumerPc \in Receiving, consumerPc' \in Receiving,
         Got' = Got + 1, UNCHANGED clientVars,
         m_responseBuffer' = m_responseBuffer
  PROVE  Control' /\ QueuedInv'
<1>1. /\ clientPc \in {"begin", "artifact", "content", "response", "dead"}
      /\ deployment \in Deployments
      /\ m_responseBuffer = <<>>
      /\ Len(m_messageBuffer) \in Nat \ {0}
      /\ Len(m_messageBuffer') = Len(m_messageBuffer) - 1
      /\ \A i \in 1 .. Len(m_messageBuffer) - 1 :
            m_messageBuffer'[i] = Packet(deployment, Got + 1 + i)
  BY GetFacts, QueueHead DEF GetMessage
<1>2. clientPc' = clientPc /\ deployment' = deployment /\ next' = next
  BY DEF clientVars
<1>3. Got \in Nat
  BY DEF Got, IInv, TypeOK
<1>4. Sent' = Sent
  BY <1>1, <1>3 DEF Sent
<1>5. QueuedInv'
  BY <1>1, <1>2 DEF QueuedInv, Packet, Total
<1>6. m_messageBuffer # <<>>
  BY DEF GetMessage
<1>7. IdleInv' /\ SendingInv'
  BY <1>1, <1>2, <1>4 DEF IInv, IdleInv, SendingInv, Sending
<1>8. WaitingInv'
  BY <1>1, <1>2, <1>4, <1>6 DEF IInv, WaitingInv, Total
<1>9. DeadInv'
  BY <1>1, <1>2, <1>4, <1>6 DEF IInv, DeadInv, Total
<1>10. QED
  BY <1>5, <1>7, <1>8, <1>9 DEF Control

(***************************************************************************)
(* The steps that put or get a message.                                    *)
(***************************************************************************)
LEMMA PutStartInv == IInv /\ PutStart => Control' /\ QueuedInv' /\ CollectedInv'
<1> SUFFICES ASSUME IInv, PutStart
             PROVE  Control' /\ QueuedInv' /\ CollectedInv'
  OBVIOUS
<1>1. /\ deployment \in Deployments
      /\ clientPc \in Sending
      /\ Sent = 0
      /\ m_responseBuffer = <<>>
      /\ next \in Nat \ {0}
  BY DEF PutStart, IInv, TypeOK, SendingInv, Sending
<1>2. Len(Artifacts[deployment]) \in Nat
  BY <1>1, ArtifactsType
<1>3. Signal("eStartTransaction") \in Messages
  BY <1>1, ArtifactsType DEF PutStart, Signal, Content, Messages, PacketTypes,
     IInv, TypeOK
<1>4. Signal("eStartTransaction") = Packet(deployment, Sent + 1)
  BY <1>1, <1>2 DEF PutStart, Packet, Total, IInv, TypeOK, SendingInv, Sending
<1>5. /\ Sent' = Sent + 1
      /\ consumerPc' = consumerPc
      /\ consumerPc \in Receiving
      /\ QueuedInv'
      /\ CollectedInv'
  BY <1>1, <1>3, <1>4, PutNext DEF PutStart
<1>6. Control'
  BY <1>1, <1>2, <1>5
  DEF PutStart, Control, IdleInv, SendingInv, Sending, WaitingInv, DeadInv, Total,
      IInv, TypeOK
<1>7. QED
  BY <1>5, <1>6

(* It announces the payload. *)
LEMMA PutBeginInv == IInv /\ PutBegin => Control' /\ QueuedInv' /\ CollectedInv'
<1> SUFFICES ASSUME IInv, PutBegin
             PROVE  Control' /\ QueuedInv' /\ CollectedInv'
  OBVIOUS
<1>1. /\ deployment \in Deployments
      /\ clientPc \in Sending
      /\ Sent = 1
      /\ m_responseBuffer = <<>>
      /\ next \in Nat \ {0}
  BY DEF PutBegin, IInv, TypeOK, SendingInv, Sending
<1>2. Len(Artifacts[deployment]) \in Nat
  BY <1>1, ArtifactsType
<1>3. Signal("eBeginPayload") \in Messages
  BY <1>1, ArtifactsType DEF PutBegin, Signal, Content, Messages, PacketTypes,
     IInv, TypeOK
<1>4. Signal("eBeginPayload") = Packet(deployment, Sent + 1)
  BY <1>1, <1>2 DEF PutBegin, Packet, Total, IInv, TypeOK, SendingInv, Sending
<1>5. /\ Sent' = Sent + 1
      /\ consumerPc' = consumerPc
      /\ consumerPc \in Receiving
      /\ QueuedInv'
      /\ CollectedInv'
  BY <1>1, <1>3, <1>4, PutNext DEF PutBegin
<1>6. Control'
  BY <1>1, <1>2, <1>5
  DEF PutBegin, Control, IdleInv, SendingInv, Sending, WaitingInv, DeadInv, Total,
      IInv, TypeOK
<1>7. QED
  BY <1>5, <1>6

(* It announces an artifact it has downloaded. *)
LEMMA PutContentInv == IInv /\ PutContent => Control' /\ QueuedInv' /\ CollectedInv'
<1> SUFFICES ASSUME IInv, PutContent
             PROVE  Control' /\ QueuedInv' /\ CollectedInv'
  OBVIOUS
<1>1. /\ deployment \in Deployments
      /\ clientPc \in Sending
      /\ Sent = next + 1
      /\ m_responseBuffer = <<>>
      /\ next \in Nat \ {0}
  BY DEF PutContent, IInv, TypeOK, SendingInv, Sending
<1>2. Len(Artifacts[deployment]) \in Nat
  BY <1>1, ArtifactsType
<1>3. Content(Artifacts[deployment][next]) \in Messages
  BY <1>1, ArtifactsType DEF PutContent, Signal, Content, Messages, PacketTypes,
     IInv, TypeOK
<1>4. Content(Artifacts[deployment][next]) = Packet(deployment, Sent + 1)
  BY <1>1, <1>2 DEF PutContent, Packet, Total, IInv, TypeOK, SendingInv, Sending
<1>5. /\ Sent' = Sent + 1
      /\ consumerPc' = consumerPc
      /\ consumerPc \in Receiving
      /\ QueuedInv'
      /\ CollectedInv'
  BY <1>1, <1>3, <1>4, PutNext DEF PutContent
<1>6. Control'
  BY <1>1, <1>2, <1>5
  DEF PutContent, Control, IdleInv, SendingInv, Sending, WaitingInv, DeadInv, Total,
      IInv, TypeOK
<1>7. QED
  BY <1>5, <1>6

(* It announces the end and begins to wait. *)
LEMMA PutEndInv == IInv /\ PutEnd => Control' /\ QueuedInv' /\ CollectedInv'
<1> SUFFICES ASSUME IInv, PutEnd
             PROVE  Control' /\ QueuedInv' /\ CollectedInv'
  OBVIOUS
<1>1. /\ deployment \in Deployments
      /\ clientPc \in Sending
      /\ Sent = next + 1
      /\ m_responseBuffer = <<>>
      /\ next \in Nat \ {0}
  BY DEF PutEnd, IInv, TypeOK, SendingInv, Sending
<1>2. Len(Artifacts[deployment]) \in Nat
  BY <1>1, ArtifactsType
<1>3. Signal("eEndPayload") \in Messages
  BY <1>1, ArtifactsType DEF PutEnd, Signal, Content, Messages, PacketTypes,
     IInv, TypeOK
<1>4. Signal("eEndPayload") = Packet(deployment, Sent + 1)
  BY <1>1, <1>2 DEF PutEnd, Packet, Total, IInv, TypeOK, SendingInv, Sending
<1>5. /\ Sent' = Sent + 1
      /\ consumerPc' = consumerPc
      /\ consumerPc \in Receiving
      /\ QueuedInv'
      /\ CollectedInv'
  BY <1>1, <1>3, <1>4, PutNext DEF PutEnd
<1>6. Control'
  <2>1. next = Len(Artifacts[deployment]) + 1
    BY <1>1, <1>2 DEF PutEnd, IInv, SendingInv, Sending
  <2>2. Sent' = Total(deployment)
    BY <1>1, <1>2, <1>5, <2>1 DEF Total
  <2>3. /\ clientPc' = "response"
        /\ deployment' = deployment
        /\ m_responseBuffer' = <<>>
    BY <1>1 DEF PutEnd
  <2>4. WaitingInv'
    BY <1>5, <2>2, <2>3 DEF WaitingInv, Total
  <2>5. QED
    BY <2>3, <2>4 DEF Control, IdleInv, SendingInv, Sending, DeadInv
<1>7. QED
  BY <1>5, <1>6

(* The consumer takes the start of the transaction. *)
LEMMA GetStartInv == IInv /\ GetStart => Control' /\ QueuedInv' /\ CollectedInv'
<1> SUFFICES ASSUME IInv, GetStart
             PROVE  Control' /\ QueuedInv' /\ CollectedInv'
  OBVIOUS
<1>1. /\ GetMessage
      /\ consumerPc \in Receiving
      /\ Got = 0
  BY DEF GetStart, Receiving, Got
<1>2. Head(m_messageBuffer) = Signal("eStartTransaction")
  BY <1>1, QueueHead DEF Packet, GetMessage
<1>3. consumerPc' = "begin"
  BY <1>2 DEF GetStart, Signal
<1>4. Got' = Got + 1
  BY <1>1, <1>2, <1>3, EmptySeq DEF GetStart, Got, Signal
<1>5. Control' /\ QueuedInv'
  BY <1>1, <1>3, <1>4, GetNext DEF GetStart, Receiving
<1>6. CollectedInv'
  BY <1>1, <1>2, <1>3, QueueHead, ArtifactsType, EmptySeq
  DEF GetMessage, GetStart, CollectedInv, Deciding, Signal, clientVars
<1>7. QED
  BY <1>5, <1>6

(* It takes the beginning of the payload. *)
LEMMA GetBeginInv == IInv /\ GetBegin => Control' /\ QueuedInv' /\ CollectedInv'
<1> SUFFICES ASSUME IInv, GetBegin
             PROVE  Control' /\ QueuedInv' /\ CollectedInv'
  OBVIOUS
<1>1. /\ GetMessage
      /\ consumerPc \in Receiving
      /\ Got = 1
  BY DEF GetBegin, Receiving, Got
<1>2. Head(m_messageBuffer) = Signal("eBeginPayload")
  BY <1>1, QueueHead DEF Packet, GetMessage
<1>3. consumerPc' = "payload"
  BY <1>2 DEF GetBegin, Signal
<1>4. Got' = Got + 1
  BY <1>1, <1>2, <1>3, EmptySeq DEF GetBegin, Got, Signal
<1>5. Control' /\ QueuedInv'
  BY <1>1, <1>3, <1>4, GetNext DEF GetBegin, Receiving
<1>6. CollectedInv'
  BY <1>1, <1>2, <1>3, QueueHead, ArtifactsType, EmptySeq
  DEF GetMessage, GetBegin, CollectedInv, Deciding, Signal, clientVars
<1>7. QED
  BY <1>5, <1>6

(* It takes a content or the end. *)
LEMMA GetPayloadInv == IInv /\ GetPayload => Control' /\ QueuedInv' /\ CollectedInv'
<1> SUFFICES ASSUME IInv, GetPayload
             PROVE  Control' /\ QueuedInv' /\ CollectedInv'
  OBVIOUS
<1> DEFINE A == Artifacts[deployment]
           k == Len(fileDataModels)
<1>1. /\ GetMessage
      /\ consumerPc \in Receiving
      /\ Got = k + 2
      /\ fileDataModels \in Seq(Files \cup {NoFile})
      /\ k \in Nat
  BY DEF GetPayload, Receiving, Got, IInv, TypeOK
<1>2. /\ deployment \in Deployments
      /\ clientPc \in {"begin", "artifact", "content", "response", "dead"}
      /\ m_responseBuffer = <<>>
      /\ Head(m_messageBuffer) = Packet(deployment, k + 3)
      /\ Len(m_messageBuffer) \in Nat \ {0}
      /\ Len(m_messageBuffer') = Len(m_messageBuffer) - 1
      /\ Sent <= Total(deployment)
  BY <1>1, GetFacts, QueueHead DEF GetMessage
<1>3. /\ A \in Seq(Files)
      /\ Len(A) \in Nat
      /\ \A i \in 1 .. Len(A) : A[i] \in Files
  BY <1>2, ArtifactsType
<1>4. /\ k <= Len(A)
      /\ \A i \in 1 .. k : fileDataModels[i] = A[i]
  BY DEF GetPayload, IInv, CollectedInv
<1>5. /\ clientPc' = clientPc
      /\ deployment' = deployment
      /\ next' = next
      /\ m_responseBuffer' = m_responseBuffer
  BY DEF GetPayload, clientVars
<1>6. CASE k = Len(A)
  <2>1. Head(m_messageBuffer) = Signal("eEndPayload")
    BY <1>2, <1>3, <1>6 DEF Packet, Total
  <2>2. consumerPc' = "execute" /\ fileDataModels' = fileDataModels
    BY <2>1 DEF GetPayload, Signal
  <2>3. Len(m_messageBuffer) = 1 /\ Sent = Total(deployment)
    BY <1>1, <1>2, <1>3, <1>6 DEF Sent, Total
  <2>4. m_messageBuffer' = <<>>
    BY <1>1, <1>2, <2>3 DEF GetMessage, IInv, TypeOK
  <2>5. clientPc = "response"
    <3>1. clientPc # "begin"
      BY <1>3, <2>3 DEF IInv, SendingInv, Sending, Total
    <3>2. clientPc \notin {"artifact", "content"}
      BY <1>3, <2>3 DEF IInv, TypeOK, SendingInv, Sending, Total
    <3>3. clientPc # "dead"
      BY <1>2, <1>3, <2>3 DEF IInv, DeadInv, Total, GetPayload
    <3>4. QED
      BY <1>2, <3>1, <3>2, <3>3
  <2>6. Control'
    BY <1>2, <1>5, <2>2, <2>4, <2>5
    DEF Control, IdleInv, SendingInv, Sending, WaitingInv, DeadInv
  <2>7. QueuedInv'
    BY <2>4 DEF QueuedInv
  <2>8. fileDataModels = A
    BY <1>1, <1>3, <1>4, <1>6, SeqEqual
  <2>9. CollectedInv'
    BY <1>5, <2>2, <2>8 DEF CollectedInv, Deciding
  <2>10. QED
    BY <2>6, <2>7, <2>9
<1>7. CASE k < Len(A)
  <2>1. Head(m_messageBuffer) = Content(A[k + 1])
    BY <1>1, <1>2, <1>3, <1>7 DEF Packet, Total
  <2>2. /\ consumerPc' = "payload"
        /\ fileDataModels' = Append(fileDataModels, A[k + 1])
    BY <2>1 DEF GetPayload, Content
  <2>3. /\ Len(fileDataModels') = k + 1
        /\ \A i \in 1 .. k : fileDataModels'[i] = fileDataModels[i]
        /\ fileDataModels'[k + 1] = A[k + 1]
    BY <1>1, <1>3, <1>7, <2>2, AppendProperties
  <2>4. Got' = Got + 1
    BY <1>1, <2>2, <2>3 DEF Got
  <2>5. Control' /\ QueuedInv'
    BY <1>1, <2>2, <2>4, GetNext DEF GetPayload, Receiving
  <2>6. CollectedInv'
    BY <1>1, <1>3, <1>4, <1>5, <1>7, <2>2, <2>3 DEF CollectedInv, Deciding
  <2>7. QED
    BY <2>5, <2>6
<1>8. QED
  BY <1>1, <1>3, <1>4, <1>6, <1>7

(***************************************************************************)
(* The rest of the invariant, one step per action, under it the control    *)
(* part, the queue and what was collected.                                 *)
(***************************************************************************)

(* The rest of the invariant, one step per action. *)
LEMMA InvStep == IInv /\ TypeOK' /\ [Next]_vars => IInv'
<1> SUFFICES ASSUME IInv, TypeOK', [Next]_vars
             PROVE  Control' /\ QueuedInv' /\ CollectedInv'
  BY DEF IInv, Control
<1> USE NoneAssumption
    DEF IInv, TypeOK, Control, IdleInv, SendingInv, WaitingInv, DeadInv, QueuedInv,
        CollectedInv, Got, Sent, Sending, Receiving, Deciding, ClientLabels,
        ConsumerLabels, Catch, clientVars, consumerVars, buffers
<1>1. ASSUME NEW d \in Deployments, OnDeploymentAction(d)
      PROVE  Control' /\ QueuedInv' /\ CollectedInv'
  <2>1. Control'
    BY <1>1, ArtifactsType DEF OnDeploymentAction, Total
  <2>2. QueuedInv'
    BY <1>1 DEF OnDeploymentAction, Packet
  <2>3. CollectedInv'
    BY <1>1 DEF OnDeploymentAction
  <2>4. QED
    BY <2>1, <2>2, <2>3
<1>2. CASE PutStart
  BY <1>2, PutStartInv
<1>3. CASE PutBegin
  BY <1>3, PutBeginInv
<1>4. CASE DownloadTo
  <2>1. Control'
    BY <1>4, ArtifactsType DEF DownloadTo, Total
  <2>2. QueuedInv'
    BY <1>4 DEF DownloadTo, Packet
  <2>3. CollectedInv'
    BY <1>4 DEF DownloadTo
  <2>4. QED
    BY <2>1, <2>2, <2>3
<1>5. CASE PutContent
  BY <1>5, PutContentInv
<1>6. CASE PutEnd
  BY <1>6, PutEndInv
<1>7. CASE GetResponse
  <2>1. Control'
    BY <1>7, ArtifactsType DEF GetResponse, Total
  <2>2. QueuedInv'
    BY <1>7 DEF GetResponse, Packet
  <2>3. CollectedInv'
    BY <1>7 DEF GetResponse
  <2>4. QED
    BY <2>1, <2>2, <2>3
<1>8. CASE SendFeedback
  <2>1. Control'
    BY <1>8, ArtifactsType DEF SendFeedback, Total
  <2>2. QueuedInv'
    BY <1>8 DEF SendFeedback, Packet
  <2>3. CollectedInv'
    BY <1>8 DEF SendFeedback
  <2>4. QED
    BY <2>1, <2>2, <2>3
<1>9. CASE ClientThrows
  <2>1. Control'
    BY <1>9, ArtifactsType DEF ClientThrows, Total
  <2>2. QueuedInv'
    BY <1>9 DEF ClientThrows, Packet
  <2>3. CollectedInv'
    BY <1>9 DEF ClientThrows
  <2>4. QED
    BY <2>1, <2>2, <2>3
<1>10. CASE GetStart
  BY <1>10, GetStartInv
<1>11. CASE GetBegin
  BY <1>11, GetBeginInv
<1>12. CASE GetPayload
  BY <1>12, GetPayloadInv
<1>13. CASE Execute
  <2>1. Control'
    BY <1>13, ArtifactsType DEF Execute, Total
  <2>2. QueuedInv'
    BY <1>13 DEF Execute, Packet
  <2>3. CollectedInv'
    BY <1>13 DEF Execute, Answers
  <2>4. QED
    BY <2>1, <2>2, <2>3
<1>14. CASE CommitTransaction
  <2>1. Control'
    BY <1>14, ArtifactsType DEF CommitTransaction, Total
  <2>2. QueuedInv'
    BY <1>14 DEF CommitTransaction, Packet
  <2>3. CollectedInv'
    BY <1>14 DEF CommitTransaction, Answers
  <2>4. QED
    BY <2>1, <2>2, <2>3
<1>15. CASE RollBackTransaction
  <2>1. Control'
    BY <1>15, ArtifactsType DEF RollBackTransaction, Total
  <2>2. QueuedInv'
    BY <1>15 DEF RollBackTransaction, Packet
  <2>3. CollectedInv'
    BY <1>15 DEF RollBackTransaction, Answers
  <2>4. QED
    BY <2>1, <2>2, <2>3
<1>16. CASE PutResponse
  <2>1. Control'
    BY <1>16, ArtifactsType DEF PutResponse, Total
  <2>2. QueuedInv'
    BY <1>16 DEF PutResponse, Packet
  <2>3. CollectedInv'
    BY <1>16 DEF PutResponse
  <2>4. QED
    BY <2>1, <2>2, <2>3
<1>17. CASE Restart
  <2>1. Control'
    BY <1>17, ArtifactsType DEF Restart, Total
  <2>2. QueuedInv'
    BY <1>17 DEF Restart, Packet
  <2>3. CollectedInv'
    BY <1>17 DEF Restart
  <2>4. QED
    BY <2>1, <2>2, <2>3
<1>18. CASE UNCHANGED vars
  <2>1. Control'
    BY <1>18, ArtifactsType DEF vars, Total
  <2>2. QueuedInv'
    BY <1>18 DEF vars, Packet
  <2>3. CollectedInv'
    BY <1>18 DEF vars
  <2>4. QED
    BY <2>1, <2>2, <2>3
<1>19. QED
  BY <1>1, <1>2, <1>3, <1>4, <1>5, <1>6, <1>7, <1>8, <1>9, <1>10, <1>11, <1>12, <1>13, <1>14, <1>15, <1>16, <1>17, <1>18
  DEF Next, HandlerStep, ConsumerStep

(* The inductive invariant holds in every reachable state. *)
LEMMA SpecIInv == Spec => []IInv
<1>1. IInv /\ [Next]_vars => IInv'
  BY TypeStep, InvStep DEF IInv
<1>2. QED
  BY InitIInv, <1>1, PTL DEF Spec

(* The head of the queue is the next message of the packet. *)
LEMMA WellFormedPacket == IInv => PacketWellFormed
<1> SUFFICES ASSUME IInv, m_messageBuffer # <<>>
             PROVE  Head(m_messageBuffer).type \in Expected
  BY DEF PacketWellFormed
<1>1. consumerPc \in Receiving
  BY DEF IInv, TypeOK, ClientLabels, IdleInv, SendingInv, Sending, WaitingInv,
         DeadInv
<1>2. /\ deployment \in Deployments
      /\ Head(m_messageBuffer) = Packet(deployment, Got + 1)
      /\ Sent <= Total(deployment)
  BY <1>1, QueueHead
<1>3. QED
  BY <1>1, <1>2 DEF Expected, Packet, Got, Receiving, Signal, Content

(* The consumer never meets a message it does not expect. *)
THEOREM PacketWellFormedAlways == Spec => []PacketWellFormed
  BY SpecIInv, WellFormedPacket, PTL

(* The inductive invariant implies the exclusion of downloads. *)
LEMMA ClientWaits == IInv => NoDownloadWhileExecuting
  BY DEF IInv, TypeOK, ClientLabels, IdleInv, SendingInv, Sending, DeadInv,
         Receiving, NoDownloadWhileExecuting

(* The client waits while the consumer executes, commits or rolls back. *)
THEOREM NoDownloadWhileExecutingAlways == Spec => []NoDownloadWhileExecuting
  BY SpecIInv, ClientWaits, PTL

(* The inductive invariant bounds the answers. *)
LEMMA OneAnswer ==
  IInv => \/ m_responseBuffer = <<>>
          \/ /\ clientPc = "response"
             /\ consumerPc = "start"
             /\ Len(m_responseBuffer) = 1
  BY DEF IInv, TypeOK, ClientLabels, IdleInv, SendingInv, Sending, WaitingInv,
         DeadInv

(* No answer outlives the deployment it answers. *)
THEOREM NoStaleResponseAlways == Spec => []NoStaleResponse
<1>1. IInv => NoStaleResponse
  <2> SUFFICES ASSUME IInv PROVE NoStaleResponse
    OBVIOUS
  <2>1. CASE m_responseBuffer = <<>>
    <3>1. Len(m_responseBuffer) = 0
      BY <2>1
    <3>2. QED
      BY <2>1, <3>1 DEF NoStaleResponse
  <2>2. CASE clientPc = "response" /\ Len(m_responseBuffer) = 1
    BY <2>2 DEF NoStaleResponse
  <2>3. QED
    BY <2>1, <2>2, OneAnswer
<1>2. QED
  BY SpecIInv, <1>1, PTL

(***************************************************************************)
(* The bridge implements the handshake.  onDeploymentAction's entry offers *)
(* the deployment, Execute applies it, PutResponse decides, the feedback   *)
(* reports; a failure of the client gives up or reports; everything else   *)
(* leaves the handshake as it is.                                          *)
(***************************************************************************)
LEMMA InitHandshake == Init => HS!HSInit
  BY ResponseTypes DEF Init, HS!HSInit, Phase

(* Every step is a step of the handshake or a stutter. *)
LEMMA StepHandshake == IInv /\ [Next]_vars => [HS!HSNext]_(HS!hsVars)
<1> SUFFICES ASSUME IInv, [Next]_vars
             PROVE  HS!HSNext \/ UNCHANGED HS!hsVars
  OBVIOUS
<1>1. ASSUME NEW d \in Deployments, OnDeploymentAction(d) PROVE HS!HSNext
  <2>1. consumerPc = "start" /\ m_responseBuffer = <<>>
    BY <1>1 DEF OnDeploymentAction, IInv, IdleInv
  <2>2. HS!Offer(d)
    BY <1>1, <2>1
    DEF OnDeploymentAction, HS!Offer, Phase, buffers, consumerVars
  <2>3. QED
    BY <2>2 DEF HS!HSNext
<1>2. CASE PutStart \/ PutBegin \/ DownloadTo \/ PutContent \/ PutEnd
  <2>1. clientPc \in Sending /\ clientPc' \in Sending \cup {"response"}
    BY <1>2 DEF PutStart, PutBegin, DownloadTo, PutContent, PutEnd, Sending
  <2>2. consumerPc \in Receiving /\ m_responseBuffer = <<>>
    BY <2>1 DEF IInv, SendingInv
  <2>3. /\ consumerPc' = consumerPc
        /\ executed' = executed
        /\ m_responseBuffer' = m_responseBuffer
        /\ deployment' = deployment
        /\ updResponse' = updResponse
    BY <1>2 DEF PutStart, PutBegin, DownloadTo, PutContent, PutEnd,
                consumerVars, buffers
  <2>4. QED
    BY <2>1, <2>2, <2>3 DEF HS!hsVars, Phase, Sending, Receiving
<1>3. CASE GetResponse
  <2>1. Len(m_responseBuffer) = 1 /\ m_responseBuffer \in Seq(Responses)
    BY <1>3, OneAnswer DEF GetResponse, IInv, TypeOK
  <2>2. m_responseBuffer' = <<>> /\ m_responseBuffer # <<>>
    BY <1>3, <2>1 DEF GetResponse
  <2>3. QED
    BY <1>3, <2>2 DEF GetResponse, HS!hsVars, Phase, consumerVars
<1>4. CASE SendFeedback
  <2>1. m_responseBuffer = <<>>
    BY <1>4 DEF SendFeedback, IInv, IdleInv
  <2>2. HS!Report
    BY <1>4, <2>1 DEF SendFeedback, HS!Report, Phase, buffers, consumerVars
  <2>3. QED
    BY <2>2 DEF HS!HSNext
<1>5. CASE ClientThrows
  <2>1. m_responseBuffer = <<>>
    BY <1>5 DEF ClientThrows, IInv, IdleInv, SendingInv, Sending
  <2>2. CASE clientPc = "poll"
    BY <1>5, <2>1, <2>2
    DEF ClientThrows, HS!hsVars, Phase, buffers, consumerVars
  <2>3. CASE clientPc = "artifact"
    <3>1. consumerPc \in Receiving
      BY <2>3 DEF IInv, SendingInv, Sending
    <3>2. HS!GiveUp
      BY <1>5, <2>1, <2>3, <3>1
      DEF ClientThrows, HS!GiveUp, Phase, Receiving, buffers, consumerVars
    <3>3. QED
      BY <3>2 DEF HS!HSNext
  <2>4. CASE clientPc = "feedback"
    <3>1. HS!Report
      BY <1>5, <2>1, <2>4
      DEF ClientThrows, HS!Report, Phase, buffers, consumerVars
    <3>2. QED
      BY <3>1 DEF HS!HSNext
  <2>5. QED
    BY <1>5, <2>2, <2>3, <2>4 DEF ClientThrows
<1>6. CASE GetStart \/ GetBegin \/ GetPayload
  <2>1. consumerPc \in Receiving /\ m_messageBuffer # <<>>
    BY <1>6 DEF GetStart, GetBegin, GetPayload, GetMessage, Receiving
  <2>2. m_responseBuffer = <<>> /\ clientPc # "feedback"
    BY <2>1, QueueHead
  <2>3. consumerPc' \in Receiving \cup {"execute"}
    BY <1>6, <2>1, WellFormedPacket
    DEF GetStart, GetBegin, GetPayload, PacketWellFormed, Expected, Receiving
  <2>4. /\ clientPc' = clientPc
        /\ executed' = executed
        /\ m_responseBuffer' = m_responseBuffer
        /\ deployment' = deployment
        /\ updResponse' = updResponse
    BY <1>6 DEF GetStart, GetBegin, GetPayload, clientVars
  <2>5. QED
    BY <2>1, <2>2, <2>3, <2>4 DEF HS!hsVars, Phase, Receiving
<1>7. CASE Execute
  <2>1. clientPc = "response" /\ m_responseBuffer = <<>>
    BY <1>7, ClientWaits, OneAnswer DEF Execute, NoDownloadWhileExecuting
  <2>2. fileDataModels = Artifacts[deployment]
    BY <1>7 DEF Execute, IInv, CollectedInv
  <2>3. HS!Apply
    BY <1>7, <2>1, <2>2
    DEF Execute, Catch, HS!Apply, Phase, buffers, clientVars
  <2>4. QED
    BY <2>3 DEF HS!HSNext
<1>8. CASE CommitTransaction \/ RollBackTransaction
  <2>1. clientPc = "response" /\ m_responseBuffer = <<>>
    BY <1>8, ClientWaits, OneAnswer
    DEF CommitTransaction, RollBackTransaction, NoDownloadWhileExecuting
  <2>2. QED
    BY <1>8, <2>1
    DEF CommitTransaction, RollBackTransaction, Catch, HS!hsVars, Phase,
        buffers, clientVars
<1>9. CASE PutResponse
  <2>1. clientPc = "response" /\ m_responseBuffer = <<>> /\ response \in Answers
    BY <1>9, ClientWaits, OneAnswer
    DEF PutResponse, NoDownloadWhileExecuting, IInv, CollectedInv
  <2>2. m_responseBuffer' # <<>> /\ Head(m_responseBuffer') = response
    BY <1>9, <2>1 DEF PutResponse
  <2>3. HS!Decide(response)
    BY <1>9, <2>1, <2>2 DEF PutResponse, HS!Decide, Phase, clientVars
  <2>4. QED
    BY <2>1, <2>3 DEF HS!HSNext
<1>10. CASE Restart
  <2>1. HS!Forget
    BY <1>10, ResponseTypes DEF Restart, HS!Forget, Phase
  <2>2. QED
    BY <2>1 DEF HS!HSNext
<1>11. CASE UNCHANGED vars
  BY <1>11 DEF vars, HS!hsVars, Phase
<1>12. QED
  BY <1>1, <1>2, <1>3, <1>4, <1>5, <1>6, <1>7, <1>8, <1>9, <1>10, <1>11
  DEF Next, HandlerStep, ConsumerStep

(* What is executed and answered is one deployment at a time. *)
THEOREM BridgeImplementsHandshake == Spec => ImplementsHandshake
  BY InitHandshake, StepHandshake, SpecIInv, PTL
  DEF Spec, ImplementsHandshake, HS!HSSpec
=============================================================================
