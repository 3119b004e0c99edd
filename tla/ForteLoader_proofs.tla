-------------------------- MODULE ForteLoader_proofs --------------------------
(***************************************************************************)
(* Theorems about the commands of the loader, for any names, contents and  *)
(* number of artifacts and for both platforms.  A step of the loader is a  *)
(* step of the store or leaves it alone, so the store's invariant holds;   *)
(* StageInv says what the commands executed so far have reached, whatever  *)
(* the unit, a restart or an exception does in between.                    *)
(***************************************************************************)
EXTENDS ForteLoader, FilesDataStore_proofs, SequenceTheorems

(* What is left of a queue at any time. *)
CommandQueues ==
    {<<>>, <<"Fboot">>,
     <<"Run">>, <<"Run", "Fboot">>,
     <<"Copy", "Run">>, <<"Copy", "Run", "Fboot">>,
     <<"Remove", "Copy", "Run">>, <<"Remove", "Copy", "Run", "Fboot">>,
     <<"Stop", "Remove", "Copy", "Run">>,
     <<"Stop", "Remove", "Copy", "Run", "Fboot">>}

RuntimeCommands == {"Stop", "Remove", "Copy", "Run"}

(* The queue is a rest of one that the list justifies. *)
QueueInv ==
    /\ commands \in CommandQueues
    /\ taskPc = "command" <=> commands # <<>>
    /\ commands # <<>> /\ Head(commands) \in RuntimeCommands => Single("eForte")
    /\ commands # <<>> /\ commands[Len(commands)] = "Fboot" => Single("eFboot")

(* Nothing runs, and nothing is about to start. *)
Stopped == process # "running" /\ ~startQueued

TheRuntimeIsListed == Single("eForte") /\ FileOf("eForte") = ForteExecutableName

Delivered ==
    TheRuntimeIsListed =>
        /\ installed[ForteExecutableName] = filePath[ForteExecutableName]
        /\ process = "running" => image = filePath[ForteExecutableName]
        /\ process = "stopping" => startQueued

(* What has been reached when a command is about to be executed. *)
StageInv ==
    /\ Current("Remove") => Stopped
    /\ Current("Copy") => Stopped /\ installed[ForteExecutableName] = Absent
    /\ Current("Run") =>
          /\ Stopped
          /\ TheRuntimeIsListed =>
                installed[ForteExecutableName] = filePath[ForteExecutableName]
    /\ Current("Fboot") \/ taskPc = "true" => Delivered

(* On Windows a process is never stopping, and executes what is installed. *)
WindowsInv ==
    platform = "windows" =>
        /\ process \in {"none", "running"}
        /\ ~startQueued
        /\ process = "running" => image = installed[ForteExecutableName]

LoaderIInv ==
    /\ StoreIInv
    /\ TypeOK
    /\ QueueInv
    /\ StageInv
    /\ WindowsInv

USE AbsentAssumption, PlatformAssumption, ExecutableAssumption, MixedAssumption

(* A step of the loader is a step of the store, or none. *)
LEMMA LoaderIsStore == [Next]_vars => [StoreNext]_storeVars
<1> SUFFICES ASSUME [Next]_vars PROVE [StoreNext]_storeVars
  OBVIOUS
<1>1. CASE Collect
  BY <1>1 DEF Collect, StoreNext
<1>2. CASE Decide
  BY <1>2 DEF Decide, StoreNext
<1>3. CASE Restart
  BY <1>3 DEF Restart, StoreNext
<1>4. CASE BeginExecute \/ Command \/ UnitStopped \/ RuntimeEnds \/ UNCHANGED vars
  BY <1>4 DEF BeginExecute, Command, StopDbus, StopProc, RemoveForteExecutable,
      CpyForteExec, RunDbus, RunProc, DeployFboot, UnitStopped, RuntimeEnds, vars,
      storeVars
<1>5. QED
  BY <1>1, <1>2, <1>3, <1>4 DEF Next

(* A single file of a type is a listed one, which is on the disk. *)
LEMMA SingleListed ==
  ASSUME StoreIInv, NEW type, Single(type)
  PROVE  /\ FileOf(type) \in Names
         /\ storePc \in {"open", "restored"} => filePath[FileOf(type)] # Absent
<1>1. PICK i \in QueryFiles(type) : QueryFiles(type) = {i}
  BY DEF Single
<1>2. FileOf(type) = fileDataModels[i]
  BY <1>1 DEF FileOf
<1>3. QED
  BY <1>1, <1>2 DEF QueryFiles, StoreIInv, StoreTypeOK, ListedFilesExist, Present

(* Sequences of five commands that agree place by place are equal. *)
LEMMA FiveEqual ==
  ASSUME NEW q \in Seq(CommandNames), NEW r \in Seq(CommandNames),
         Len(q) = 5, Len(r) = 5,
         q[1] = r[1], q[2] = r[2], q[3] = r[3], q[4] = r[4], q[5] = r[5]
  PROVE  q = r
<1>1. \A i \in 1 .. 5 : i = 1 \/ i = 2 \/ i = 3 \/ i = 4 \/ i = 5
  OBVIOUS
<1>2. \A i \in 1 .. Len(q) : q[i] = r[i]
  BY <1>1
<1>3. QED
  BY <1>2, SeqEqual

(* The queue of a transaction with a runtime and a configuration. *)
LEMMA FullQueue ==
  <<"Stop", "Remove", "Copy", "Run">> \o <<"Fboot">>
      = <<"Stop", "Remove", "Copy", "Run", "Fboot">>
<1> DEFINE runtime == <<"Stop", "Remove", "Copy", "Run">>
           fboot == <<"Fboot">>
           full == <<"Stop", "Remove", "Copy", "Run", "Fboot">>
<1>1. /\ runtime \in Seq(CommandNames) /\ Len(runtime) = 4
      /\ fboot \in Seq(CommandNames) /\ Len(fboot) = 1
  BY DEF CommandNames
<1>2. /\ full \in Seq(CommandNames) /\ Len(full) = 5
      /\ full[1] = "Stop" /\ full[2] = "Remove" /\ full[3] = "Copy"
      /\ full[4] = "Run" /\ full[5] = "Fboot"
  BY DEF CommandNames
<1>3. runtime \o fboot \in Seq(CommandNames) /\ Len(runtime \o fboot) = 5
  BY <1>1
<1>4. \A i \in 1 .. 5 : (runtime \o fboot)[i] =
                            IF i <= 4 THEN runtime[i] ELSE fboot[i - 4]
  BY <1>1
<1>5. /\ (runtime \o fboot)[1] = "Stop" /\ (runtime \o fboot)[2] = "Remove"
      /\ (runtime \o fboot)[3] = "Copy" /\ (runtime \o fboot)[4] = "Run"
      /\ (runtime \o fboot)[5] = "Fboot"
  BY <1>4
<1>6. QED
  BY <1>2, <1>3, <1>5, FiveEqual

(* The queue that Execute() starts with. *)
LEMMA QueueType ==
  /\ Queue \in CommandQueues
  /\ Queue # <<>> /\ Head(Queue) \in RuntimeCommands => Single("eForte") /\ Head(Queue) = "Stop"
  /\ Queue # <<>> /\ Queue[Len(Queue)] = "Fboot" => Single("eFboot")
  /\ (Queue # <<>> /\ Head(Queue) = "Fboot") \/ Queue = <<>> => ~Single("eForte")
<1>1. CASE Single("eForte") /\ Single("eFboot")
  <2>1. Queue = <<"Stop", "Remove", "Copy", "Run", "Fboot">>
    BY <1>1, FullQueue DEF Queue
  <2>2. QED
    BY <1>1, <2>1 DEF CommandQueues, RuntimeCommands
<1>2. CASE Single("eForte") /\ ~Single("eFboot")
  <2>1. Queue = <<"Stop", "Remove", "Copy", "Run">>
    BY <1>2 DEF Queue
  <2>2. QED
    BY <1>2, <2>1 DEF CommandQueues, RuntimeCommands
<1>3. CASE ~Single("eForte") /\ Single("eFboot")
  <2>1. Queue = <<"Fboot">>
    BY <1>3 DEF Queue
  <2>2. QED
    BY <1>3, <2>1 DEF CommandQueues, RuntimeCommands
<1>4. CASE ~Single("eForte") /\ ~Single("eFboot")
  <2>1. Queue = <<>>
    BY <1>4 DEF Queue
  <2>2. QED
    BY <1>4, <2>1 DEF CommandQueues, RuntimeCommands
<1>5. QED
  BY <1>1, <1>2, <1>3, <1>4

(* The next command after one that succeeded. *)
LEMMA QueueTail ==
  ASSUME NEW q \in CommandQueues, q # <<>>
  PROVE  /\ q \in Seq(CommandNames)
         /\ Head(q) \in CommandNames
         /\ Tail(q) \in CommandQueues
         /\ Tail(q) # <<>> => Tail(q)[Len(Tail(q))] = q[Len(q)]
         /\ Head(q) = "Stop" => Tail(q) # <<>> /\ Head(Tail(q)) = "Remove"
         /\ Head(q) = "Remove" => Tail(q) # <<>> /\ Head(Tail(q)) = "Copy"
         /\ Head(q) = "Copy" => Tail(q) # <<>> /\ Head(Tail(q)) = "Run"
         /\ Head(q) = "Run" => Tail(q) = <<>> \/ Head(Tail(q)) = "Fboot"
         /\ Head(q) = "Fboot" => Tail(q) = <<>>
<1>1. CASE q = <<"Fboot">>
  BY <1>1 DEF CommandQueues, CommandNames
<1>2. CASE q = <<"Run">>
  BY <1>2 DEF CommandQueues, CommandNames
<1>3. CASE q = <<"Run", "Fboot">>
  BY <1>3 DEF CommandQueues, CommandNames
<1>4. CASE q = <<"Copy", "Run">>
  BY <1>4 DEF CommandQueues, CommandNames
<1>5. CASE q = <<"Copy", "Run", "Fboot">>
  BY <1>5 DEF CommandQueues, CommandNames
<1>6. CASE q = <<"Remove", "Copy", "Run">>
  BY <1>6 DEF CommandQueues, CommandNames
<1>7. CASE q = <<"Remove", "Copy", "Run", "Fboot">>
  BY <1>7 DEF CommandQueues, CommandNames
<1>8. CASE q = <<"Stop", "Remove", "Copy", "Run">>
  BY <1>8 DEF CommandQueues, CommandNames
<1>9. CASE q = <<"Stop", "Remove", "Copy", "Run", "Fboot">>
  BY <1>9 DEF CommandQueues, CommandNames
<1>10. QED
  BY <1>1, <1>2, <1>3, <1>4, <1>5, <1>6, <1>7, <1>8, <1>9 DEF CommandQueues

(* What the list says of it depends on the list alone. *)
LEMMA ListUnchanged ==
  ASSUME UNCHANGED fileDataModels
  PROVE  /\ Single("eForte")' = Single("eForte")
         /\ Single("eFboot")' = Single("eFboot")
         /\ FileOf("eForte")' = FileOf("eForte")
         /\ TheRuntimeIsListed' = TheRuntimeIsListed
<1>1. /\ QueryFiles("eForte")' = QueryFiles("eForte")
      /\ QueryFiles("eFboot")' = QueryFiles("eFboot")
  BY DEF QueryFiles
<1>2. Single("eForte")' = Single("eForte") /\ Single("eFboot")' = Single("eFboot")
  BY <1>1 DEF Single
<1>3. FileOf("eForte")' = FileOf("eForte")
  BY <1>1 DEF FileOf
<1>4. QED
  BY <1>2, <1>3 DEF TheRuntimeIsListed

(* A command that succeeded makes room for the next one. *)
LEMMA SucceedEffect ==
  ASSUME QueueInv, commands # <<>>, Succeed, UNCHANGED fileDataModels
  PROVE  /\ QueueInv'
         /\ commands' \in Seq(CommandNames)
         /\ taskPc' \in {"true", "command"}
         /\ Current("Remove")' => Head(commands) = "Stop"
         /\ Current("Copy")' => Head(commands) = "Remove"
         /\ Current("Run")' => Head(commands) = "Copy"
         /\ Current("Fboot")' \/ taskPc' = "true" => Head(commands) \in {"Run", "Fboot"}
<1>1. commands' = Tail(commands) /\ taskPc' = IF Tail(commands) = <<>> THEN "true" ELSE "command"
  BY DEF Succeed, Proceed
<1>2. commands \in CommandQueues
  BY DEF QueueInv
<1>3. /\ commands \in Seq(CommandNames)
      /\ Head(commands) \in CommandNames
      /\ Tail(commands) \in CommandQueues
      /\ Tail(commands) # <<>> => Tail(commands)[Len(Tail(commands))] = commands[Len(commands)]
      /\ Head(commands) = "Stop" => Tail(commands) # <<>> /\ Head(Tail(commands)) = "Remove"
      /\ Head(commands) = "Remove" => Tail(commands) # <<>> /\ Head(Tail(commands)) = "Copy"
      /\ Head(commands) = "Copy" => Tail(commands) # <<>> /\ Head(Tail(commands)) = "Run"
      /\ Head(commands) = "Run" => Tail(commands) = <<>> \/ Head(Tail(commands)) = "Fboot"
      /\ Head(commands) = "Fboot" => Tail(commands) = <<>>
  BY <1>2, QueueTail
<1>4. QueueInv'
  BY <1>1, <1>3, ListUnchanged DEF QueueInv, RuntimeCommands, CommandNames
<1>5. commands' \in Seq(CommandNames)
  BY <1>1, <1>3
<1>6. QED
  BY <1>1, <1>3, <1>4, <1>5 DEF Current, CommandNames

(* A command that returned false or threw ends the execution. *)
LEMMA EndEffect ==
  ASSUME QueueInv, Fail \/ Throw
  PROVE  /\ QueueInv'
         /\ commands' \in Seq(CommandNames)
         /\ taskPc' \in {"false", "threw"}
         /\ \A c : ~Current(c)'
<1>1. commands' = <<>> /\ taskPc' \in {"false", "threw"}
  BY DEF Fail, Throw
<1>2. QED
  BY <1>1 DEF QueueInv, CommandQueues, Current

(* No command is executed and none is queued. *)
LEMMA NoExecution ==
  ASSUME QueueInv, taskPc' = "collect", commands' = <<>>
  PROVE  QueueInv' /\ StageInv' /\ commands' \in Seq(CommandNames)
  BY DEF QueueInv, CommandQueues, StageInv, Current

(* The device is delivered with a runtime that is installed and runs. *)
LEMMA InitLoaderIInv == Init => LoaderIInv
<1> SUFFICES ASSUME Init PROVE LoaderIInv
  OBVIOUS
<1>1. StoreIInv
  BY InitStoreIInv DEF Init
<1>2. /\ commands = <<>> /\ taskPc = "collect"
      /\ process = "running" /\ startQueued = FALSE
  BY DEF Init
<1>3. PICK c \in Contents : installed = [Empty EXCEPT ![ForteExecutableName] = c] /\ image = c
  BY DEF Init
<1>4. installed \in Directory /\ installed[ForteExecutableName] = c /\ image = c
  BY <1>3 DEF Empty, Directory
<1>5. QueueInv /\ StageInv
  BY <1>2 DEF QueueInv, StageInv, CommandQueues, Current
<1>6. TypeOK
  <2>1. commands \in Seq(CommandNames) /\ StoreTypeOK
    BY <1>1, <1>2 DEF StoreIInv
  <2>2. platform \in Platforms /\ loaded = Absent
    BY DEF Init
  <2>3. QED
    BY <1>2, <1>3, <1>4, <2>1, <2>2 DEF TypeOK, TaskPcs
<1>7. WindowsInv
  BY <1>2, <1>4 DEF WindowsInv
<1>8. QED
  BY <1>1, <1>5, <1>6, <1>7 DEF LoaderIInv

(***************************************************************************)
(* Each kind of step keeps the invariant, the store's part of it aside.    *)
(***************************************************************************)
LoaderPart == TypeOK /\ QueueInv /\ StageInv /\ WindowsInv

(* Outside Execute() the device goes on by itself, and no command is under way. *)
LEMMA TaskKeeps ==
  ASSUME LoaderIInv, StoreIInv', Collect \/ Decide \/ Restart
  PROVE  LoaderPart'
<1>1. /\ UNCHANGED device
      /\ taskPc' = "collect"
      /\ commands' = <<>>
  <2>1. CASE Collect
    BY <2>1 DEF Collect, LoaderUnchanged, LoaderIInv, QueueInv
  <2>2. CASE Decide
    BY <2>2 DEF Decide, LoaderIInv, QueueInv, device
  <2>3. CASE Restart
    BY <2>3 DEF Restart, device
  <2>4. QED
    BY <2>1, <2>2, <2>3
<1>2. QueueInv' /\ StageInv' /\ commands' \in Seq(CommandNames)
  BY <1>1, NoExecution DEF LoaderIInv
<1>3. TypeOK'
  BY <1>1, <1>2 DEF LoaderIInv, TypeOK, StoreIInv, device, TaskPcs
<1>4. WindowsInv'
  BY <1>1 DEF LoaderIInv, WindowsInv, device
<1>5. QED
  BY <1>2, <1>3, <1>4 DEF LoaderPart

(* Execute() starts with Stop, unless no runtime was delivered. *)
LEMMA BeginExecuteKeeps ==
  ASSUME LoaderIInv, StoreIInv', BeginExecute
  PROVE  LoaderPart'
<1>1. /\ UNCHANGED <<storeVars, device>>
      /\ commands' = Queue
      /\ taskPc' = IF Queue = <<>> THEN "true" ELSE "command"
      /\ storePc \in {"open", "restored"}
  BY DEF BeginExecute, Proceed
<1>2. UNCHANGED <<fileDataModels, storePc>>
  BY <1>1 DEF storeVars
<1>3. QueueInv'
  BY <1>1, <1>2, QueueType, ListUnchanged DEF QueueInv
<1>4. StageInv'
  <2>1. commands' # <<>> => Head(commands') \in {"Stop", "Fboot"}
    <3>1. Queue # <<>> => Head(Queue) \in CommandNames
      BY QueueType, QueueTail
    <3>2. QED
      BY <1>1, <3>1, QueueType DEF CommandNames, RuntimeCommands
  <2>2. Current("Fboot")' \/ taskPc' = "true" => ~Single("eForte")'
    BY <1>1, <1>2, QueueType, ListUnchanged DEF Current
  <2>3. QED
    BY <2>1, <2>2 DEF StageInv, Current, Delivered, TheRuntimeIsListed
<1>5. TypeOK'
  <2>1. commands' \in Seq(CommandNames)
    <3>1. Queue = <<>> \/ Queue \in Seq(CommandNames)
      BY QueueType, QueueTail
    <3>2. commands' = Queue /\ <<>> \in Seq(CommandNames)
      BY <1>1
    <3>3. QED
      BY <3>1, <3>2
  <2>2. QED
    BY <1>1, <1>2, <2>1 DEF LoaderIInv, TypeOK, StoreIInv, device, TaskPcs
<1>6. WindowsInv'
  BY <1>1 DEF LoaderIInv, WindowsInv, device
<1>7. QED
  BY <1>3, <1>4, <1>5, <1>6 DEF LoaderPart

(* The types that a command's step has to establish anew. *)
CommandTypes ==
    /\ installed \in Directory
    /\ process \in {"none", "running", "stopping"}
    /\ startQueued \in BOOLEAN
    /\ startQueued => process = "stopping"
    /\ image \in Contents \cup {Absent}
    /\ image = Absent <=> process = "none"
    /\ loaded \in Contents \cup {Absent, Mixed}

LEMMA TypesAfterCommand ==
  ASSUME LoaderIInv, StoreIInv', taskPc = "command", UNCHANGED <<storeVars, platform>>,
         CommandTypes', commands' \in Seq(CommandNames),
         taskPc' \in {"command", "true", "false", "threw"}
  PROVE  TypeOK'
  BY DEF LoaderIInv, TypeOK, StoreIInv, CommandTypes, TaskPcs, storeVars

(* What a command finds. *)
LEMMA CommandContext ==
  ASSUME LoaderIInv, NEW c, Current(c)
  PROVE  /\ taskPc = "command" /\ commands # <<>> /\ Head(commands) = c
         /\ QueueInv /\ StageInv /\ WindowsInv /\ CommandTypes /\ StoreIInv
         /\ c \in RuntimeCommands => Single("eForte")
         /\ c = "Fboot" => Single("eFboot")
<1>1. /\ taskPc = "command" /\ commands # <<>> /\ Head(commands) = c
      /\ QueueInv /\ StageInv /\ WindowsInv /\ CommandTypes /\ StoreIInv
  BY DEF Current, LoaderIInv, TypeOK, CommandTypes
<1>2. c \in RuntimeCommands => Single("eForte")
  BY <1>1 DEF QueueInv
<1>3. c = "Fboot" => Single("eFboot")
  <2>1. c = "Fboot" => commands = <<"Fboot">>
    BY <1>1 DEF QueueInv, CommandQueues
  <2>2. Len(<<"Fboot">>) = 1 /\ <<"Fboot">>[1] = "Fboot"
    OBVIOUS
  <2>3. commands # <<>> /\ commands[Len(commands)] = "Fboot" => Single("eFboot")
    BY <1>1 DEF QueueInv
  <2>4. QED
    BY <1>1, <2>1, <2>2, <2>3
<1>4. QED
  BY <1>1, <1>2, <1>3

(* A process that is started runs what is installed, or does not run. *)
LEMMA StartEffect ==
  ASSUME CommandTypes, Start, UNCHANGED <<platform, installed>>
  PROVE  /\ CommandTypes'
         /\ WindowsInv'
         /\ process' \in {"none", "running"} /\ startQueued' = FALSE
         /\ process' = "running" => image' = installed[ForteExecutableName]
<1>1. installed[ForteExecutableName] \in Contents \cup {Absent}
  BY DEF CommandTypes, Directory
<1>2. /\ process' \in {"none", "running"} /\ startQueued' = FALSE /\ loaded' = Absent
      /\ image' \in Contents \cup {Absent}
      /\ image' = Absent <=> process' = "none"
      /\ process' = "running" => image' = installed[ForteExecutableName]
  BY <1>1 DEF Start, NoProcess
<1>3. QED
  BY <1>2 DEF CommandTypes, WindowsInv

(* A command that failed or threw leaves nothing to be reached. *)
LEMMA EndKeeps ==
  ASSUME LoaderIInv, StoreIInv', taskPc = "command", Fail \/ Throw,
         UNCHANGED <<storeVars, platform>>, CommandTypes', WindowsInv'
  PROVE  LoaderPart'
<1>1. /\ QueueInv' /\ commands' \in Seq(CommandNames)
      /\ taskPc' \in {"false", "threw"} /\ \A c : ~Current(c)'
  BY EndEffect DEF LoaderIInv
<1>2. TypeOK'
  BY <1>1, TypesAfterCommand
<1>3. StageInv'
  BY <1>1 DEF StageInv
<1>4. QED
  BY <1>1, <1>2, <1>3 DEF LoaderPart

(* Stop: afterwards the runtime has ended or is about to. *)
LEMMA StopKeeps ==
  ASSUME LoaderIInv, StoreIInv', StopDbus \/ StopProc
  PROVE  LoaderPart'
<1>1. /\ Current("Stop") /\ UNCHANGED <<storeVars, platform, installed>>
  BY DEF StopDbus, StopProc
<1>2. /\ taskPc = "command" /\ commands # <<>> /\ Head(commands) = "Stop"
      /\ QueueInv /\ WindowsInv /\ CommandTypes
  BY <1>1, CommandContext
<1>3. CommandTypes' /\ WindowsInv'
  <2>1. CASE StopDbus
    <3>1. /\ platform = "linux"
          /\ UNCHANGED <<platform, installed, startQueued, image, loaded>>
          /\ \/ ~startQueued /\ process' = IF process = "running" THEN "stopping" ELSE process
             \/ process' = process
      BY <2>1 DEF StopDbus
    <3>2. QED
      BY <1>2, <3>1 DEF CommandTypes, WindowsInv
  <2>2. CASE StopProc
    <3>1. /\ UNCHANGED <<platform, installed>>
          /\ NoProcess \/ UNCHANGED <<process, startQueued, image, loaded>>
      BY <2>2 DEF StopProc
    <3>2. CASE NoProcess
      BY <1>2, <3>1, <3>2, StartEffect DEF Start
    <3>3. CASE UNCHANGED <<process, startQueued, image, loaded>>
      BY <1>2, <3>1, <3>3 DEF CommandTypes, WindowsInv
    <3>4. QED
      BY <3>1, <3>2, <3>3
  <2>3. QED
    BY <2>1, <2>2
<1>4. CASE Fail \/ Throw
  BY <1>1, <1>2, <1>3, <1>4, EndKeeps
<1>5. CASE Succeed
  <2>1. Stopped'
    BY <1>2, <1>5 DEF StopDbus, StopProc, NoProcess, Stopped, CommandTypes, WindowsInv,
                      Succeed, Proceed, Fail, Throw
  <2>2. QED
    BY <1>1, <1>2, <1>3, <1>5, <2>1, SucceedEffect, TypesAfterCommand
    DEF LoaderPart, StageInv, storeVars
<1>6. QED
  BY <1>4, <1>5 DEF StopDbus, StopProc

(* Remove: afterwards no runtime is installed. *)
LEMMA RemoveKeeps ==
  ASSUME LoaderIInv, StoreIInv', RemoveForteExecutable
  PROVE  LoaderPart'
<1>1. /\ Current("Remove")
      /\ UNCHANGED <<storeVars, platform, process, startQueued, image, loaded>>
  BY DEF RemoveForteExecutable
<1>2. /\ taskPc = "command" /\ commands # <<>> /\ Head(commands) = "Remove"
      /\ QueueInv /\ WindowsInv /\ CommandTypes /\ Stopped
  BY <1>1, CommandContext DEF StageInv
<1>3. CASE installed' = [installed EXCEPT ![ForteExecutableName] = Absent] /\ Succeed
  <2>1. installed' \in Directory /\ installed'[ForteExecutableName] = Absent
    BY <1>2, <1>3 DEF CommandTypes, Directory
  <2>2. CommandTypes' /\ WindowsInv' /\ Stopped'
    BY <1>1, <1>2, <2>1 DEF CommandTypes, WindowsInv, Stopped
  <2>3. QED
    BY <1>1, <1>2, <1>3, <2>1, <2>2, SucceedEffect, TypesAfterCommand
    DEF LoaderPart, StageInv, storeVars
<1>4. CASE Throw /\ UNCHANGED installed
  <2>1. CommandTypes' /\ WindowsInv'
    BY <1>1, <1>2, <1>4 DEF CommandTypes, WindowsInv
  <2>2. QED
    BY <1>1, <1>2, <1>4, <2>1, EndKeeps
<1>5. QED
  BY <1>3, <1>4 DEF RemoveForteExecutable

(* Copy: afterwards the delivered file is installed, if it has the name. *)
LEMMA CopyKeeps ==
  ASSUME LoaderIInv, StoreIInv', CpyForteExec
  PROVE  LoaderPart'
<1>1. /\ Current("Copy")
      /\ UNCHANGED <<storeVars, platform, process, startQueued, image, loaded>>
  BY DEF CpyForteExec
<1>2. /\ taskPc = "command" /\ commands # <<>> /\ Head(commands) = "Copy"
      /\ QueueInv /\ WindowsInv /\ CommandTypes /\ Stopped
      /\ installed[ForteExecutableName] = Absent
      /\ Single("eForte") /\ StoreIInv
  BY <1>1, CommandContext DEF StageInv, RuntimeCommands
<1> DEFINE forteFile == FileOf("eForte")
<1>3. forteFile \in Names /\ filePath \in Directory
  BY <1>2, SingleListed DEF StoreIInv, StoreTypeOK
<1>4. UNCHANGED <<filePath, fileDataModels>>
  BY <1>1 DEF storeVars
<1> HIDE DEF forteFile
<1>5. CASE /\ filePath[forteFile] # Absent
           /\ installed' = [installed EXCEPT ![forteFile] = filePath[forteFile]]
  <2>1. /\ installed' \in Directory
        /\ forteFile = ForteExecutableName =>
              installed'[ForteExecutableName] = filePath[ForteExecutableName]
    BY <1>2, <1>3, <1>5 DEF CommandTypes, Directory
  <2>2. CommandTypes' /\ WindowsInv' /\ Stopped'
    BY <1>1, <1>2, <2>1 DEF CommandTypes, WindowsInv, Stopped
  <2>3. ASSUME Succeed PROVE LoaderPart'
    <3>1. TheRuntimeIsListed' =>
              installed'[ForteExecutableName] = filePath'[ForteExecutableName]
      BY <1>4, <1>5, <2>1, ListUnchanged DEF TheRuntimeIsListed, forteFile
    <3>2. QED
      BY <1>1, <1>2, <1>4, <2>2, <2>3, <3>1, SucceedEffect, TypesAfterCommand
      DEF LoaderPart, StageInv
  <2>4. ASSUME Fail PROVE LoaderPart'
    BY <1>1, <1>2, <2>2, <2>4, EndKeeps
  <2>5. Succeed \/ Fail \/ (Throw /\ UNCHANGED installed)
    BY DEF CpyForteExec
  <2>6. ASSUME Throw PROVE LoaderPart'
    BY <1>1, <1>2, <2>2, <2>6, EndKeeps
  <2>7. QED
    BY <2>3, <2>4, <2>5, <2>6
<1>6. CASE (Fail \/ Throw) /\ UNCHANGED installed
  <2>1. CommandTypes' /\ WindowsInv'
    BY <1>1, <1>2, <1>6 DEF CommandTypes, WindowsInv
  <2>2. QED
    BY <1>1, <1>2, <1>6, <2>1, EndKeeps
<1>7. QED
  BY <1>5, <1>6 DEF CpyForteExec, forteFile

(* Run: afterwards nothing but the installed runtime runs, or is to start. *)
LEMMA RunKeeps ==
  ASSUME LoaderIInv, StoreIInv', RunDbus \/ RunProc
  PROVE  LoaderPart'
<1>1. Current("Run") /\ UNCHANGED <<storeVars, platform, installed>>
  BY DEF RunDbus, RunProc
<1>2. /\ taskPc = "command" /\ commands # <<>> /\ Head(commands) = "Run"
      /\ QueueInv /\ WindowsInv /\ CommandTypes /\ Stopped
      /\ TheRuntimeIsListed =>
            installed[ForteExecutableName] = filePath[ForteExecutableName]
  BY <1>1, CommandContext DEF StageInv
<1>3. UNCHANGED <<filePath, fileDataModels>>
  BY <1>1 DEF storeVars
<1>4. CASE Start
  <2>1. /\ CommandTypes' /\ WindowsInv'
        /\ process' \in {"none", "running"}
        /\ process' = "running" => image' = installed[ForteExecutableName]
    BY <1>1, <1>2, <1>4, StartEffect
  <2>2. Delivered'
    BY <1>1, <1>2, <1>3, <2>1, ListUnchanged DEF Delivered
  <2>3. QED
    BY <1>1, <1>2, <1>3, <2>1, <2>2, EndKeeps, SucceedEffect, TypesAfterCommand
    DEF LoaderPart, StageInv, RunDbus, RunProc
<1>5. CASE /\ process = "stopping" /\ startQueued' = TRUE /\ platform = "linux"
           /\ UNCHANGED <<process, image, loaded>>
  <2>1. CommandTypes' /\ WindowsInv' /\ Delivered'
    BY <1>1, <1>2, <1>3, <1>5, ListUnchanged DEF CommandTypes, WindowsInv, Delivered
  <2>2. QED
    BY <1>1, <1>2, <1>3, <2>1, EndKeeps, SucceedEffect, TypesAfterCommand
    DEF LoaderPart, StageInv, RunDbus, RunProc
<1>6. CASE (Fail \/ Throw) /\ UNCHANGED <<process, startQueued, image, loaded>>
  <2>1. CommandTypes' /\ WindowsInv'
    BY <1>1, <1>2, <1>6 DEF CommandTypes, WindowsInv
  <2>2. QED
    BY <1>1, <1>2, <1>6, <2>1, EndKeeps
<1>7. process # "running" /\ process \in {"none", "running", "stopping"}
  BY <1>2 DEF Stopped, CommandTypes
<1>8. QED
  <2>1. CASE RunDbus
    BY <1>4, <1>5, <1>6, <1>7, <2>1 DEF RunDbus
  <2>2. CASE RunProc
    BY <1>4, <1>6, <2>2 DEF RunProc
  <2>3. QED
    BY <2>1, <2>2

(* Fboot: the runtime is the one before. *)
LEMMA FbootKeeps ==
  ASSUME LoaderIInv, StoreIInv', DeployFboot
  PROVE  LoaderPart'
<1>1. /\ Current("Fboot")
      /\ UNCHANGED <<storeVars, platform, installed, process, startQueued, image>>
      /\ loaded' \in {loaded, Mixed, filePath[FileOf("eFboot")]}
  BY DEF DeployFboot
<1>2. /\ taskPc = "command" /\ commands # <<>> /\ Head(commands) = "Fboot"
      /\ QueueInv /\ WindowsInv /\ CommandTypes /\ Delivered
      /\ Single("eFboot") /\ StoreIInv
  BY <1>1, CommandContext DEF StageInv
<1>3. UNCHANGED <<filePath, fileDataModels>>
  BY <1>1 DEF storeVars
<1>4. filePath[FileOf("eFboot")] \in Contents \cup {Absent}
  BY <1>2, SingleListed DEF StoreIInv, StoreTypeOK, Directory
<1>5. CommandTypes' /\ WindowsInv' /\ Delivered'
  BY <1>1, <1>2, <1>3, <1>4, ListUnchanged DEF CommandTypes, WindowsInv, Delivered
<1>6. CASE Succeed
  BY <1>1, <1>2, <1>3, <1>5, <1>6, SucceedEffect, TypesAfterCommand
  DEF LoaderPart, StageInv
<1>7. CASE Fail \/ Throw
  BY <1>1, <1>2, <1>5, <1>7, EndKeeps
<1>8. QED
  BY <1>6, <1>7 DEF DeployFboot

(* The unit may take its next step, and the runtime end, before any command. *)
LEMMA UnitKeeps ==
  ASSUME LoaderIInv, StoreIInv', UnitStopped \/ RuntimeEnds
  PROVE  LoaderPart'
<1>1. UNCHANGED <<storeVars, platform, installed, commands, taskPc>>
  BY DEF UnitStopped, RuntimeEnds
<1>2. QueueInv /\ StageInv /\ CommandTypes /\ TypeOK
  BY DEF LoaderIInv, TypeOK, CommandTypes
<1>3. UNCHANGED <<filePath, fileDataModels, storePc>>
  BY <1>1 DEF storeVars
<1>4. /\ CommandTypes' /\ WindowsInv'
      /\ process' \in {"none", "running"} /\ startQueued' = FALSE
      /\ process' = "running" => image' = installed[ForteExecutableName] /\ startQueued
  <2>1. Start /\ (process' = "running" => startQueued)
    BY DEF UnitStopped, RuntimeEnds, Start, NoProcess
  <2>2. QED
    BY <1>1, <1>2, <2>1, StartEffect
<1>5. /\ QueueInv'
      /\ Current("Remove")' = Current("Remove") /\ Current("Copy")' = Current("Copy")
      /\ Current("Run")' = Current("Run") /\ Current("Fboot")' = Current("Fboot")
  BY <1>1, <1>2, <1>3, ListUnchanged DEF QueueInv, Current
<1>6. Stopped => Stopped'
  BY <1>4 DEF Stopped
<1>7. Delivered => Delivered'
  BY <1>1, <1>3, <1>4, ListUnchanged DEF Delivered
<1>8. StageInv'
  BY <1>1, <1>2, <1>3, <1>5, <1>6, <1>7, ListUnchanged DEF StageInv
<1>9. QED
  BY <1>1, <1>2, <1>3, <1>4, <1>5, <1>8
  DEF LoaderPart, TypeOK, CommandTypes, StoreIInv

(* A step that changes nothing. *)
LEMMA LoaderStutter ==
  ASSUME LoaderIInv, UNCHANGED vars
  PROVE  LoaderPart'
<1>1. UNCHANGED <<storeVars, device, commands, taskPc>> /\ UNCHANGED fileDataModels
  BY DEF vars, storeVars, device
<1>2. TypeOK'
  BY <1>1 DEF storeVars, device, LoaderIInv, TypeOK, StoreTypeOK
<1>3. QueueInv'
  BY <1>1, ListUnchanged DEF LoaderIInv, QueueInv
<1>4. StageInv' /\ WindowsInv'
  BY <1>1, ListUnchanged DEF storeVars, device, LoaderIInv, StageInv, WindowsInv, Current,
     Stopped, Delivered
<1>5. QED
  BY <1>2, <1>3, <1>4 DEF LoaderPart

(* The invariant is inductive. *)
LEMMA LoaderIInvStep == LoaderIInv /\ [Next]_vars => LoaderIInv'
<1> SUFFICES ASSUME LoaderIInv, [Next]_vars PROVE LoaderIInv'
  OBVIOUS
<1>1. StoreIInv'
  BY LoaderIsStore, StoreStepKeeps DEF LoaderIInv
<1>2. LoaderPart'
  BY <1>1, TaskKeeps, BeginExecuteKeeps, StopKeeps, RemoveKeeps, CopyKeeps, RunKeeps,
     FbootKeeps, UnitKeeps, LoaderStutter DEF Next, Command
<1>3. QED
  BY <1>1, <1>2 DEF LoaderIInv, LoaderPart

LEMMA SpecLoaderIInv == Spec => []LoaderIInv
  BY InitLoaderIInv, LoaderIInvStep, PTL DEF Spec

(* What the store promises it keeps under the commands, the failures and    *)
(* the restarts of the loader: every behaviour of the loader is one of it.  *)
THEOREM LoaderImplementsStore == Spec => StoreSpec
<1>1. Init => StoreInit
  BY DEF Init
<1>2. QED
  BY <1>1, LoaderIsStore, PTL DEF Spec, StoreSpec

(* The variables of the store, the task and the device keep their types. *)
THEOREM LoaderTypeCorrect == Spec => []TypeOK
<1>1. LoaderIInv => TypeOK
  BY DEF LoaderIInv
<1>2. QED
  BY SpecLoaderIInv, <1>1, PTL

(* For any artifacts, contents, interrupted commands and restarts: a       *)
(* deployment whose commands succeed has installed the runtime it          *)
(* delivered, no other one runs, and one that is stopping is followed by a *)
(* start - also when starts fail and runtimes end by themselves.           *)
THEOREM SuccessReplacesRuntimeAlways == Spec => []SuccessReplacesRuntime
<1>1. LoaderIInv => SuccessReplacesRuntime
  BY DEF LoaderIInv, StageInv, Delivered, TheRuntimeIsListed, SuccessReplacesRuntime,
         Deployed
<1>2. QED
  BY SpecLoaderIInv, <1>1, PTL

(* A rollback whose commands succeed reinstalls the last committed runtime. *)
THEOREM RollBackReinstallsAlways == Spec => []RollBackReinstalls
<1>1. LoaderIInv => RollBackReinstalls
  BY DEF LoaderIInv, StoreIInv, RestoredInv, CommittedKept, StageInv, Delivered,
         TheRuntimeIsListed, RollBackReinstalls, Deployed
<1>2. QED
  BY SpecLoaderIInv, <1>1, PTL

(* The executable of a live runtime is never written. *)
THEOREM NeverWrittenLiveAlways == Spec => NeverWrittenLive
<1> DEFINE Safe == installed'[ForteExecutableName] # installed[ForteExecutableName] =>
                     \/ process = "none"
                     \/ /\ platform = "linux"
                        /\ Absent \in {installed[ForteExecutableName],
                                       installed'[ForteExecutableName]}
<1>1. LoaderIInv /\ [Next]_vars => [Safe]_vars
  <2> SUFFICES ASSUME LoaderIInv, Next PROVE Safe
    OBVIOUS
  <2>1. platform = "windows" => process \in {"none", "running"}
    BY DEF LoaderIInv, WindowsInv
  <2>2. platform \in {"linux", "windows"} /\ installed \in Directory
    BY DEF LoaderIInv, TypeOK
  <2>3. CASE RemoveForteExecutable
    <3>1. Stopped
      BY <2>3 DEF LoaderIInv, StageInv, RemoveForteExecutable
    <3>2. QED
      BY <2>1, <2>2, <2>3, <3>1 DEF RemoveForteExecutable, Stopped, Directory
  <2>4. CASE CpyForteExec
    <3>1. Stopped /\ installed[ForteExecutableName] = Absent
      BY <2>4 DEF LoaderIInv, StageInv, CpyForteExec
    <3>2. QED
      BY <2>1, <2>2, <3>1 DEF Stopped
  <2>5. CASE ~RemoveForteExecutable /\ ~CpyForteExec
    <3>1. UNCHANGED installed
      BY <2>5 DEF Next, Collect, LoaderUnchanged, device, BeginExecute, Command, StopDbus,
         StopProc, RunDbus, RunProc, DeployFboot, UnitStopped, RuntimeEnds, Decide, Restart
    <3>2. QED
      BY <3>1
  <2>6. QED
    BY <2>3, <2>4, <2>5
<1>2. QED
  BY SpecLoaderIInv, <1>1, PTL DEF Spec, NeverWrittenLive

(* On Windows a configuration goes only into the runtime that is installed. *)
THEOREM LoadedIntoInstalledOnWindowsAlways == Spec => LoadedIntoInstalledOnWindows
<1> DEFINE Safe == platform = "windows" /\ loaded' \notin {loaded, Absent} =>
                     image = installed[ForteExecutableName]
<1>1. LoaderIInv /\ [Next]_vars => [Safe]_vars
  <2> SUFFICES ASSUME LoaderIInv, Next PROVE Safe
    OBVIOUS
  <2>0. process \in {"none", "running", "stopping"}
    BY DEF LoaderIInv, TypeOK
  <2>1. CASE DeployFboot
    <3>1. process # "none" \/ UNCHANGED loaded
      BY <2>1 DEF DeployFboot
    <3>2. QED
      BY <3>1 DEF LoaderIInv, WindowsInv
  <2>2. CASE ~DeployFboot
    <3>1. loaded' \in {loaded, Absent}
      BY <2>2, <2>0 DEF Next, Collect, LoaderUnchanged, device, BeginExecute, Command, StopDbus,
         StopProc, RunDbus, RunProc, RemoveForteExecutable, CpyForteExec, UnitStopped,
         RuntimeEnds, Decide, Restart, Start, NoProcess
    <3>2. QED
      BY <3>1
  <2>3. QED
    BY <2>1, <2>2
<1>2. QED
  BY SpecLoaderIInv, <1>1, PTL DEF Spec, LoadedIntoInstalledOnWindows
=============================================================================
