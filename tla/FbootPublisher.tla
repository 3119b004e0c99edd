--------------------------- MODULE FbootPublisher ---------------------------
(***************************************************************************)
(* DeployFbootConfigurationCommand.Execute, request by request: connect,   *)
(* ask the runtime for its blocks (QueryFBootFiles), parse the fboot file, *)
(* turn it into commands and send them (OnPublish), close.  Under it are   *)
(* ForteClient.SendData with its reads and its time-out, the codec, and    *)
(* FBootParser.  The parser and the TCP client are singletons: their state *)
(* outlives a deployment.                                                  *)
(*                                                                         *)
(* The runtime is external: it executes the requests of a connection in    *)
(* order and answers each; when its answers arrive, and in how many pieces, *)
(* is not up to the client.                                                *)
(*                                                                         *)
(* A file is a sequence of groups of lines, a group the requests for one   *)
(* block.  A text on the wire is a sequence of symbols: an XML element is  *)
(* <<Element, id>> and what it contains.  A handler that an exception      *)
(* leaves registered runs OnResponse once more on the same bytes and       *)
(* changes nothing outside its own command: it is not modelled.            *)
(***************************************************************************)
EXTENDS FBDKASN1Com, FiniteSets, SequencesExt

CONSTANTS Names,        \* names of function blocks, as symbols
          Files,        \* fboot files
          NoFile,       \* nothing was read, or loaded, yet
          Groups,       \* Groups[f]: the groups of f, separated by ";"
          CHUNK_SIZE    \* the buffer of SendData

Defects == {"none",      \* every line is a request
            "garbled",   \* the first line is no XML
            "unnamed",   \* the first line names no block
            "error"}     \* another line has HasErrors

Actions == {"QUERY", "KILL", "DELETE", "CREATE", "START"}

ASSUME FilesAssumption ==
    /\ NoFile \notin Files
    /\ Groups \in [Files -> Seq([name : Names, defect : Defects,
                                 actions : Seq({"CREATE", "START"})])]
ASSUME ChunkAssumption == CHUNK_SIZE \in Nat \ {0}

VARIABLES isValid,      \* FBootParser.IsValid
          content,      \* the file in FBootParser._content
          connection,   \* ForteClient: "closed", "live", or "broken" at the peer
          socket,       \* bytes the runtime sent, read or arrived only later
          pc,           \* where Execute() is
          file,         \* the file being deployed
          fbList,       \* _fbList
          commands,     \* the commands left, the one under way first
          resultData,   \* what SendData has read for it
          requests,     \* runtime: requests not executed yet
          blocks,       \* runtime: its blocks
          disturbed     \* history: an answer was late or the runtime restarted

client == <<isValid, content, file, fbList, commands, resultData>>
runtime == <<requests, blocks>>
vars == <<isValid, content, connection, socket, pc, file, fbList, commands,
          resultData, requests, blocks, disturbed>>

Labels == {"idle", "send", "read", "receive", "parse", "publish",
           "true", "false", "threw"}
Ended == {"idle", "true", "false", "threw"}

(* A request, the block it names, and the file it comes from. *)
Command(action, name, f) == [action |-> action, name |-> name, from |-> f]
AnyName == CHOOSE n \in Names : TRUE     \* the "*" of a query
Query == Command("QUERY", AnyName, NoFile)

(* The id of a request and the symbols of a text. *)
Id == [a \in Actions |-> CASE a = "CREATE" -> 2 [] a = "START" -> 3 [] OTHER -> 1]
Element == 60
Reason == 33

(* A name is no start of an element, and an answer with all the names fits *)
(* into a length of two bytes.                                             *)
ASSUME NamesAssumption ==
    /\ Names \subseteq Nat \ {Element}
    /\ Names # {}
    /\ IsFiniteSet(Names)
    /\ Cardinality(Names) + 2 < ByteBase * ByteBase

NoBlock == [state |-> "none", from |-> NoFile]
Exists(n) == blocks[n].state # "none"

Init ==
    /\ isValid = TRUE
    /\ content = NoFile
    /\ connection = "closed"
    /\ socket = <<>>
    /\ pc = "idle"
    /\ file = NoFile
    /\ fbList = {}
    /\ commands = <<>>
    /\ resultData = <<>>
    /\ requests = <<>>
    /\ blocks \in [Names -> {NoBlock, [state |-> "running", from |-> NoFile]}]
    /\ disturbed = FALSE

-----------------------------------------------------------------------------
(***************************************************************************)
(* Plausible errors in the operations, for the mutation of the runs.       *)
(***************************************************************************)
(* The commands of a block that exists are inserted in the wrong order. *)
TaskCommandsDeleteFirst(g, f) ==
    (IF g.name \in fbList
     THEN <<Command("DELETE", g.name, f), Command("KILL", g.name, f)>> ELSE <<>>)
    \o [i \in DOMAIN g.actions |-> Command(g.actions[i], g.name, f)]

(* The finally block keeps the commands, or the connection unless all went *)
(* well, or the stream of the next connection starts with what is left.    *)
LeaveKeepsCommands(result) ==
    /\ pc' = result
    /\ connection' = "closed"
    /\ socket' = <<>>
    /\ resultData' = <<>>
    /\ UNCHANGED commands

LeaveOpen(result) ==
    /\ pc' = result
    /\ connection' = IF result = "true" THEN "closed" ELSE connection
    /\ socket' = <<>>
    /\ commands' = <<>>
    /\ resultData' = <<>>

LeaveUnread(result) ==
    /\ pc' = result
    /\ connection' = "closed"
    /\ commands' = <<>>
    /\ resultData' = <<>>
    /\ UNCHANGED socket

(***************************************************************************)
(* FBootParser.GetExecTasks: a group that is no XML is dropped, any other  *)
(* defect drops the whole file; both mark the parser.  The tasks are the   *)
(* positions of their groups.                                              *)
(***************************************************************************)
WellFormed(f) == \A g \in Range(Groups[f]) : g.defect = "none"

GetExecTasks(f) ==
    IF \E g \in Range(Groups[f]) : g.defect \in {"unnamed", "error"} THEN {}
    ELSE {i \in DOMAIN Groups[f] : Groups[f][i].defect = "none"}

(* OnPublish replaces a block that exists before it creates it. *)
TaskCommands(g, f) ==
    (IF g.name \in fbList
     THEN <<Command("KILL", g.name, f), Command("DELETE", g.name, f)>> ELSE <<>>)
    \o [i \in DOMAIN g.actions |-> Command(g.actions[i], g.name, f)]

PublishCommands(f) ==
    FlattenSeq([i \in DOMAIN Groups[f] |->
                   IF i \in GetExecTasks(f) THEN TaskCommands(Groups[f][i], f) ELSE <<>>])

(***************************************************************************)
(* Response.FromString: FALSE for an empty text; LoadXml throws unless the *)
(* text is one element.                                                    *)
(***************************************************************************)
OneElement(text) == \A i \in DOMAIN text : text[i] = Element <=> i = 1
Unreadable(answer) ==
    answer.threw \/ (answer.content # <<>> /\ ~OneElement(answer.content))
ResponseId(text) == text[2]
ResponseFbList(text) == {n \in Names : \E i \in 3 .. Len(text) : text[i] = n}

(* The finally block: on every way out the connection is closed, and what  *)
(* was not read is gone.                                                   *)
Leave(result) ==
    /\ pc' = result
    /\ connection' = "closed"
    /\ socket' = <<>>
    /\ commands' = <<>>
    /\ resultData' = <<>>

-----------------------------------------------------------------------------
(***************************************************************************)
(* Execute().                                                              *)
(***************************************************************************)
(* Connect, then the query.  The runtime serves one connection at a time.  *)
Connect(f) ==
    /\ pc \in Ended
    /\ file' = f
    /\ fbList' = {}
    /\ disturbed' = FALSE
    /\ \/ /\ requests = <<>>
          /\ pc' = "send"
          /\ connection' = "live"
          /\ commands' = <<Query>>
          /\ UNCHANGED <<socket, resultData>>
       \/ Leave("threw")
    /\ UNCHANGED <<isValid, content, runtime>>

(* SendData.  On a broken connection it throws, or the first write goes    *)
(* unnoticed, or it returns because Connected is false.                    *)
Write ==
    /\ pc = "send"
    /\ resultData' = <<>>
    /\ \/ /\ connection = "live"
          /\ requests' = Append(requests, Head(commands))
          /\ pc' = "read"
          /\ UNCHANGED <<connection, socket, commands>>
       \/ /\ connection = "broken"
          /\ \/ pc' \in {"read", "receive"} /\ UNCHANGED <<connection, socket, commands>>
             \/ Leave("threw")
          /\ UNCHANGED requests
    /\ UNCHANGED <<isValid, content, file, fbList, blocks, disturbed>>

(* A read returns what is there, at most a chunk; only a whole chunk makes *)
(* the loop read on.                                                       *)
Read(n) ==
    /\ pc = "read"
    /\ n <= Len(socket)
    /\ resultData' = resultData \o SubSeq(socket, 1, n)
    /\ socket' = SubSeq(socket, n + 1, Len(socket))
    /\ pc' = IF n < CHUNK_SIZE THEN "receive" ELSE "read"
    /\ UNCHANGED <<isValid, content, file, fbList, commands, connection, runtime,
                   disturbed>>

(* The read waits for ever while the connection lives. *)
TimeoutNever ==
    /\ pc = "read"
    /\ socket = <<>>
    /\ connection = "broken"
    /\ pc' = "receive"
    /\ UNCHANGED <<client, connection, socket, runtime, disturbed>>

(* ReceiveTimeout, or the end of the stream: before an answer, after a     *)
(* whole chunk, or while the bytes in socket are still on their way.       *)
Timeout ==
    /\ pc = "read"
    /\ pc' = "receive"
    /\ disturbed' = (disturbed \/ socket # <<>> \/ resultData = <<>>)
    /\ UNCHANGED <<client, connection, socket, runtime>>

(* The handler of QueryFBootFiles; without data nobody calls it. *)
OnQueryResponse ==
    /\ pc = "receive"
    /\ commands = <<Query>>
    /\ LET answer == Deserialize(resultData)
           text == answer.content
       IN IF resultData # <<>> /\ Unreadable(answer)
          THEN Leave("threw") /\ UNCHANGED <<fbList>>
          ELSE IF text # <<>> /\ ResponseId(text) = Id["QUERY"]
          THEN /\ fbList' = ResponseFbList(text)
               /\ pc' = "parse"
               /\ commands' = <<>>
               /\ resultData' = <<>>
               /\ UNCHANGED <<connection, socket>>
          ELSE Leave("false") /\ UNCHANGED <<fbList>>
    /\ UNCHANGED <<isValid, content, file, runtime, disturbed>>

(* IsValid is not set when the file cannot be read. *)
ParseIgnoresError ==
    /\ pc = "parse"
    /\ content' \in {content, file} \ {NoFile}
    /\ IF isValid
       THEN pc' = "publish" /\ UNCHANGED <<connection, socket, commands, resultData>>
       ELSE Leave("threw")
    /\ UNCHANGED <<isValid, file, fbList, runtime, disturbed>>

(* Parse, and the test of IsValid after it. *)
Parse ==
    /\ pc = "parse"
    /\ \/ content' = file /\ UNCHANGED isValid
       \/ isValid' = FALSE /\ UNCHANGED content
    /\ IF isValid'
       THEN pc' = "publish" /\ UNCHANGED <<connection, socket, commands, resultData>>
       ELSE Leave("threw")
    /\ UNCHANGED <<file, fbList, runtime, disturbed>>

(* OnPublish up to the first command. *)
OnPublish ==
    /\ pc = "publish"
    /\ isValid' = (isValid /\ WellFormed(content))
    /\ IF PublishCommands(content) = <<>> THEN Leave("true")
       ELSE /\ pc' = "send"
            /\ commands' = PublishCommands(content)
            /\ UNCHANGED <<connection, socket, resultData>>
    /\ UNCHANGED <<content, file, fbList, runtime, disturbed>>

(* The handler of a command: whatever the runtime answers is only logged,  *)
(* but an answer that cannot be read throws.                               *)
OnCommandResponse ==
    /\ pc = "receive"
    /\ commands # <<Query>>
    /\ IF resultData # <<>> /\ Unreadable(Deserialize(resultData)) THEN Leave("threw")
       ELSE IF Len(commands) = 1 THEN Leave("true")
       ELSE /\ pc' = "send"
            /\ commands' = Tail(commands)
            /\ resultData' = <<>>
            /\ UNCHANGED <<connection, socket>>
    /\ UNCHANGED <<isValid, content, file, fbList, runtime, disturbed>>

(***************************************************************************)
(* The runtime, and the loader's restart.                                  *)
(***************************************************************************)
Accepts(c) ==
    LET state == blocks[c.name].state
    IN CASE c.action = "QUERY" -> TRUE
         [] c.action = "KILL" -> state = "running"
         [] c.action = "DELETE" -> state \in {"idle", "killed"}
         [] c.action = "CREATE" -> state = "none"
         [] c.action = "START" -> state = "idle"

After(c) ==
    CASE c.action = "KILL" -> [blocks[c.name] EXCEPT !.state = "killed"]
      [] c.action = "DELETE" -> NoBlock
      [] c.action = "CREATE" -> [state |-> "idle", from |-> c.from]
      [] c.action = "START" -> [blocks[c.name] EXCEPT !.state = "running"]
      [] OTHER -> blocks[c.name]

Answer(c) ==
    EncodeString(<<Element, Id[c.action]>>
        \o (IF c.action = "QUERY" THEN SetToSeq({n \in Names : Exists(n)})
            ELSE IF Accepts(c) THEN <<>> ELSE <<Reason>>))

ExecuteRequest ==
    /\ requests # <<>>
    /\ LET c == Head(requests)
       IN /\ blocks' = IF Accepts(c) THEN [blocks EXCEPT ![c.name] = After(c)] ELSE blocks
          /\ socket' = IF connection = "live" THEN socket \o Answer(c) ELSE socket
    /\ requests' = Tail(requests)
    /\ UNCHANGED <<client, connection, pc, disturbed>>

(* The connection is gone before the runtime came to the request. *)
DropRequests ==
    /\ requests # <<>>
    /\ connection # "live"
    /\ requests' = <<>>
    /\ UNCHANGED <<client, connection, socket, pc, blocks, disturbed>>

RuntimeRestarts ==
    /\ requests' = <<>>
    /\ blocks' = [n \in Names |-> NoBlock]
    /\ connection' = IF connection = "live" THEN "broken" ELSE connection
    /\ disturbed' = TRUE
    /\ UNCHANGED <<client, socket, pc>>

Restart ==
    /\ isValid' = TRUE
    /\ content' = NoFile
    /\ Leave("idle")
    /\ UNCHANGED <<file, fbList, runtime, disturbed>>

ClientStep ==
    \/ Write \/ (\E n \in 1 .. CHUNK_SIZE : Read(n)) \/ Timeout
    \/ OnQueryResponse \/ Parse \/ OnPublish \/ OnCommandResponse

Next ==
    \/ \E f \in Files : Connect(f)
    \/ ClientStep
    \/ ExecuteRequest \/ DropRequests \/ RuntimeRestarts
    \/ Restart

Spec == Init /\ [][Next]_vars

(* Execute() goes on: a read ends with data or with the time-out. *)
FairSpec == Spec /\ WF_vars(ClientStep)

-----------------------------------------------------------------------------
TypeOK ==
    /\ isValid \in BOOLEAN
    /\ content \in Files \cup {NoFile}
    /\ connection \in {"closed", "live", "broken"}
    /\ socket \in Seq(Nat)
    /\ pc \in Labels
    /\ file \in Files \cup {NoFile}
    /\ pc \in {"parse", "publish"} => file \in Files
    /\ pc = "publish" => content \in Files
    /\ fbList \subseteq Names
    /\ commands \in Seq([action : Actions, name : Names, from : Files \cup {NoFile}])
    /\ commands # <<>> <=> pc \in {"send", "read", "receive"}
    /\ resultData \in Seq(Nat)
    /\ requests \in Seq([action : Actions, name : Names, from : Files \cup {NoFile}])
    /\ blocks \in [Names -> [state : {"none", "idle", "running", "killed"},
                             from : Files \cup {NoFile}]]
    /\ disturbed \in BOOLEAN

(***************************************************************************)
(* The client is shared by all deployments: whatever Execute() met, it     *)
(* leaves no connection open (finally, ForteClient.Close).                 *)
(***************************************************************************)
ConnectionClosed == pc \in Ended => connection = "closed"

(***************************************************************************)
(* What OnPublish decides to replace is what the runtime has, although it  *)
(* learned it in an answer that may be late, cut or answered before.       *)
(***************************************************************************)
PublishKnowsBlocks ==
    pc = "publish" /\ connection = "live" => fbList = {n \in Names : Exists(n)}

(***************************************************************************)
(* A part of an answer is never taken for an answer: reads and time-outs   *)
(* cut the stream anywhere (SendData), and Deserialize notices.            *)
(***************************************************************************)
NoCutAnswerAccepted ==
    pc = "receive" /\ resultData # <<>> =>
        LET answer == Deserialize(resultData)
        IN Unreadable(answer) \/ resultData = EncodeString(answer.content)

(* No block stands in two groups of the file, and none is created twice in *)
(* its group.                                                              *)
CreatesOnce(f) ==
    \A i, j \in DOMAIN Groups[f] :
        /\ Groups[f][i].name = Groups[f][j].name => i = j
        /\ \A p, q \in DOMAIN Groups[f][i].actions :
              Groups[f][i].actions[p] = "CREATE" /\ Groups[f][i].actions[q] = "CREATE" => p = q

(* Every group creates its block and starts it. *)
StartsBlocks(f) == \A g \in Range(Groups[f]) : g.actions = <<"CREATE", "START">>

(***************************************************************************)
(* The runtime never meets the creation of a block it still has, whatever  *)
(* was lost or late: the old one was killed and deleted before.            *)
(***************************************************************************)
CreateAccepted ==
    requests # <<>> /\ Head(requests).action = "CREATE" =>
        Accepts(Head(requests)) \/ ~CreatesOnce(Head(requests).from)

(***************************************************************************)
(* Unless the runtime restarts, a block is killed, deleted, created or     *)
(* started only for a file that names it (OnPublish), while the connection *)
(* lives only for the file being deployed: neither a request from before   *)
(* nor the file that an earlier deployment left in the parser is executed. *)
(***************************************************************************)
NamesOf(f) == {g.name : g \in Range(Groups[f])}

OnlyNamedBlocks ==
    [][~RuntimeRestarts =>
           \A n \in Names : blocks'[n] # blocks[n] =>
               LET f == Head(requests).from
               IN n \in NamesOf(f) /\ (connection = "live" => f = file)]_vars

(***************************************************************************)
(* When Execute() returns TRUE for a well-formed file, no answer was late  *)
(* and the runtime did not restart, the runtime has the file's blocks, and *)
(* they run.                                                               *)
(***************************************************************************)
Loaded == \A g \in Range(Groups[file]) : blocks[g.name] = [state |-> "running", from |-> file]

LoadedWhenPrompt ==
    pc = "true" /\ ~disturbed /\ WellFormed(file) /\ CreatesOnce(file) /\ StartsBlocks(file)
        => Loaded

(***************************************************************************)
(* Every deployment ends, with or without answers from the runtime.        *)
(***************************************************************************)
ExecuteEnds == pc \notin Ended ~> pc \in Ended

(***************************************************************************)
(* A file is rejected for what it contains or because it cannot be read,   *)
(* never for an earlier one: DeploymentCommands.cs:351 names this file.    *)
(***************************************************************************)
RejectedForItself == pc = "parse" => isValid
=============================================================================
