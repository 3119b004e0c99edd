---------------------------- MODULE ForteLoader ----------------------------
(***************************************************************************)
(* The commands of the .NET loader (CmdExecutionLayer) on top of           *)
(* FilesDataStore, and the device they work on.  For one transaction       *)
(* LinuxCmdSet or WindowsCmdSet queues                                     *)
(*                                                                         *)
(*    Stop, Remove, Copy, Run   if exactly one runtime executable is       *)
(*                              listed, and then                           *)
(*    Fboot                     if exactly one fboot file is listed,       *)
(*                                                                         *)
(* and executes them in that order until one returns false or throws.      *)
(* DataConsumer then commits, rolls back and executes once more, or only   *)
(* answers.                                                                *)
(*                                                                         *)
(* The device: the files at ForteExecutablePath, the runtime process (on   *)
(* Linux a systemd unit, which is stopped and started by jobs), and the    *)
(* function blocks it was sent.  Fboot is one step with all its outcomes   *)
(* here; FbootPublisher is its exchange with the runtime.                  *)
(***************************************************************************)
EXTENDS FilesDataStore

CONSTANTS Platforms,            \* the systems the loader is started on
          ForteExecutableName,  \* the configured name of the runtime
          Mixed                 \* a configuration that is only partly loaded

ASSUME PlatformAssumption == Platforms \subseteq {"linux", "windows"}
ASSUME ExecutableAssumption == ForteExecutableName \in Names \ Fboot
ASSUME MixedAssumption == Mixed \notin Contents \cup {Absent}

VARIABLES platform,     \* which command set is registered
          installed,    \* the directory ForteExecutablePath
          process,      \* the runtime: "none", "running" or "stopping"
          startQueued,  \* systemd starts the unit when it has stopped
          image,        \* what the live runtime executes
          loaded,       \* the configuration the live runtime was sent
          commands,     \* CommandsSet of the Execute() under way
          taskPc        \* where the consumer task is

device == <<platform, installed, process, startQueued, image, loaded>>
vars == <<filePath, successfullyCfg, fileDataModels, storePc, pending,
          committing, lastGood, torn, platform, installed, process,
          startQueued, image, loaded, commands, taskPc>>

CommandNames == {"Stop", "Remove", "Copy", "Run", "Fboot"}
TaskPcs == {"collect", "command", "true", "false", "threw"}

(* The device is delivered with a runtime that has no configuration yet. *)
Init ==
    /\ StoreInit
    /\ platform \in Platforms
    /\ \E c \in Contents :
          /\ installed = [Empty EXCEPT ![ForteExecutableName] = c]
          /\ image = c
    /\ process = "running"
    /\ startQueued = FALSE
    /\ loaded = Absent
    /\ commands = <<>>
    /\ taskPc = "collect"

(***************************************************************************)
(* What Execute() does with the result of a command.                       *)
(***************************************************************************)
Proceed(queue) ==
    /\ commands' = queue
    /\ taskPc' = IF queue = <<>> THEN "true" ELSE "command"
Succeed == Proceed(Tail(commands))
Fail == commands' = <<>> /\ taskPc' = "false"
Throw == commands' = <<>> /\ taskPc' = "threw"

Current(command) ==
    /\ taskPc = "command"
    /\ commands # <<>>
    /\ Head(commands) = command

NoProcess ==
    /\ process' = "none"
    /\ startQueued' = FALSE
    /\ image' = Absent
    /\ loaded' = Absent

(***************************************************************************)
(* A process that starts executes the installed file and has no blocks.    *)
(* It may not come to run, or end at once: the file may be missing, or not *)
(* be executable, since nobody looks at what chmod returned, or fail.      *)
(***************************************************************************)
Start ==
    \/ /\ installed[ForteExecutableName] # Absent
       /\ process' = "running"
       /\ startQueued' = FALSE
       /\ image' = installed[ForteExecutableName]
       /\ loaded' = Absent
    \/ NoProcess

-----------------------------------------------------------------------------
(***************************************************************************)
(* Plausible errors in the operations below, for the mutation of the runs. *)
(***************************************************************************)
QueueOf(commandSet) ==
    (IF Single("eForte") THEN commandSet ELSE <<>>)
    \o (IF Single("eFboot") THEN <<"Fboot">> ELSE <<>>)

(* A command is missing from the set, or the new runtime is started too soon. *)
QueueNoStop == QueueOf(<<"Remove", "Copy", "Run">>)
QueueNoRemove == QueueOf(<<"Stop", "Copy", "Run">>)
QueueRunFirst == QueueOf(<<"Stop", "Run", "Remove", "Copy">>)

(* A start is queued although nothing has to stop before it. *)
RunDbusAlwaysQueues ==
    /\ platform = "linux"
    /\ Current("Run")
    /\ Succeed
    /\ startQueued' = TRUE
    /\ UNCHANGED <<storeVars, platform, installed, process, image, loaded>>

(* Execute(): the queue is built from what is listed. *)
Queue ==
    (IF Single("eForte")
     THEN <<"Stop", "Remove", "Copy", "Run">> ELSE <<>>)
    \o (IF Single("eFboot") THEN <<"Fboot">> ELSE <<>>)

BeginExecute ==
    /\ storePc \in {"open", "restored"}
    /\ taskPc = "collect"
    /\ Proceed(Queue)
    /\ UNCHANGED <<storeVars, device>>

(* StopUnitAsync(mode "fail"): the job is accepted unless a start is queued, *)
(* and the call returns, or its answer is lost; the unit stops when it has   *)
(* stopped.                                                                  *)
StopDbus ==
    /\ platform = "linux"
    /\ Current("Stop")
    /\ \/ /\ ~startQueued
          /\ Succeed \/ Throw
          /\ process' = IF process = "running" THEN "stopping" ELSE process
       \/ Throw /\ UNCHANGED <<process>>
    /\ UNCHANGED <<storeVars, platform, installed, startQueued, image, loaded>>

(* systemd: the unit has stopped; a queued start takes effect now. *)
UnitStopped ==
    /\ process = "stopping"
    /\ IF startQueued THEN Start ELSE NoProcess
    /\ UNCHANGED <<storeVars, platform, installed, commands, taskPc>>

(* The runtime ends by itself. *)
RuntimeEnds ==
    /\ process = "running"
    /\ NoProcess
    /\ UNCHANGED <<storeVars, platform, installed, commands, taskPc>>

(* Process.Kill and WaitForExit; an exception, which makes it false, comes  *)
(* before or after the process was killed.                                  *)
StopProc ==
    /\ platform = "windows"
    /\ Current("Stop")
    /\ \/ NoProcess /\ (Succeed \/ Fail)
       \/ Fail /\ UNCHANGED <<process, startQueued, image, loaded>>
    /\ UNCHANGED <<storeVars, platform, installed>>

RemoveForteExecutable ==
    /\ Current("Remove")
    /\ \/ /\ installed' = [installed EXCEPT ![ForteExecutableName] = Absent]
          /\ Succeed
       \/ installed[ForteExecutableName] # Absent /\ Throw /\ UNCHANGED <<installed>>
    /\ UNCHANGED <<storeVars, platform, process, startQueued, image, loaded>>

(* The file keeps its own name; on Linux chmod may time out afterwards, and  *)
(* if it fails the command succeeds with a file that does not start.         *)
CpyForteExec ==
    /\ Current("Copy")
    /\ LET forteFile == FileOf("eForte")
       IN IF filePath[forteFile] = Absent
          THEN Fail /\ UNCHANGED <<installed>>
          ELSE \/ /\ installed' = [installed EXCEPT ![forteFile] = filePath[forteFile]]
                  /\ Succeed \/ (platform = "linux" /\ Fail)
               \/ Throw /\ UNCHANGED <<installed>>
    /\ UNCHANGED <<storeVars, platform, process, startQueued, image, loaded>>

(* StartUnitAsync: the job is accepted, whether or not the unit comes to run; *)
(* the call returns after five seconds, or its answer is lost.                *)
RunDbus ==
    /\ platform = "linux"
    /\ Current("Run")
    /\ \/ /\ Succeed \/ Throw
          /\ CASE process = "none" -> Start
               [] process = "running" -> UNCHANGED <<process, startQueued, image, loaded>>
               [] process = "stopping" -> startQueued' = TRUE /\ UNCHANGED <<process, image, loaded>>
       \/ Throw /\ UNCHANGED <<process, startQueued, image, loaded>>
    /\ UNCHANGED <<storeVars, platform, installed>>

(* Process.Start throws without a file; five seconds later Execute returns *)
(* true, whatever has become of the process.                               *)
RunProc ==
    /\ platform = "windows"
    /\ Current("Run")
    /\ \/ installed[ForteExecutableName] # Absent /\ Start /\ Succeed
       \/ Fail /\ UNCHANGED <<process, startQueued, image, loaded>>
    /\ UNCHANGED <<storeVars, platform, installed>>

(***************************************************************************)
(* DeployFbootConfigurationCommand: FbootPublisher in one step.  A runtime *)
(* that runs, or still runs, accepts the connection; whatever Execute      *)
(* returns, the file's commands may all have been executed, a part of      *)
(* them, or none.  Without a runtime the connection is refused.            *)
(***************************************************************************)
DeployFboot ==
    /\ Current("Fboot")
    /\ \/ /\ process # "none"
          /\ loaded' \in {loaded, Mixed, filePath[FileOf("eFboot")]}
          /\ Succeed \/ Fail \/ Throw
       \/ Throw /\ UNCHANGED <<loaded>>
    /\ UNCHANGED <<storeVars, platform, installed, process, startQueued, image>>

-----------------------------------------------------------------------------
(***************************************************************************)
(* The consumer task around Execute().                                     *)
(***************************************************************************)
LoaderUnchanged == UNCHANGED <<device, commands, taskPc>>

(* Between two executions the task collects artifacts, commits or rolls back. *)
Collect ==
    /\ taskPc = "collect"
    /\ \/ \E n \in Names, c \in Contents : Download(n, c)
       \/ StartTransaction
       \/ \E n \in Names : FromDeploymentData(n)
       \/ CommitStep
       \/ RollBackStep
       \/ IOException
    /\ LoaderUnchanged

(* The result decides; that of the execution after a rollback does not. *)
Decide ==
    /\ \/ storePc = "open" /\ taskPc = "true" /\ CommitTransaction
       \/ storePc = "open" /\ taskPc = "false" /\ RollBackTransaction
       \/ storePc = "restored" /\ taskPc \in {"true", "false"} /\ Close
       \/ taskPc = "threw" /\ Close
    /\ taskPc' = "collect"
    /\ UNCHANGED <<device, commands>>

(* The loader stops and starts again; the device goes on. *)
Restart ==
    /\ RestartStore
    /\ commands' = <<>>
    /\ taskPc' = "collect"
    /\ UNCHANGED <<device>>

Command ==
    \/ StopDbus \/ StopProc \/ RemoveForteExecutable \/ CpyForteExec
    \/ RunDbus \/ RunProc \/ DeployFboot

Next ==
    \/ Collect
    \/ BeginExecute
    \/ Command
    \/ UnitStopped
    \/ RuntimeEnds
    \/ Decide
    \/ Restart

Spec == Init /\ [][Next]_vars

-----------------------------------------------------------------------------
TypeOK ==
    /\ StoreTypeOK
    /\ platform \in Platforms
    /\ installed \in Directory
    /\ process \in {"none", "running", "stopping"}
    /\ startQueued \in BOOLEAN
    /\ startQueued => process = "stopping"
    /\ image \in Contents \cup {Absent}
    /\ image = Absent <=> process = "none"
    /\ loaded \in Contents \cup {Absent, Mixed}
    /\ commands \in Seq(CommandNames)
    /\ taskPc \in TaskPcs
    /\ taskPc # "collect" => storePc \in {"open", "restored"}

(* Execute() returned true and the list holds one executable of that name. *)
Deployed ==
    taskPc = "true" /\ Single("eForte") /\ FileOf("eForte") = ForteExecutableName

(***************************************************************************)
(* When the commands of a deployment, or of a rollback, succeed, the       *)
(* runtime they delivered is installed, no other one runs, and on Linux    *)
(* one that is still stopping is followed by a start of the new one -      *)
(* whatever earlier transactions, failed commands and restarts of the      *)
(* loader left behind.  Whether it has come to run the commands do not     *)
(* look: it may have failed to start, or ended.                            *)
(***************************************************************************)
SuccessReplacesRuntime ==
    Deployed =>
        /\ installed[ForteExecutableName] = filePath[ForteExecutableName]
        /\ process = "running" => image = filePath[ForteExecutableName]
        /\ process = "stopping" => startQueued

(***************************************************************************)
(* A rollback whose commands succeed reinstalls the runtime of the last    *)
(* complete commit, unless a commit was cut short since.                   *)
(***************************************************************************)
RollBackReinstalls ==
    Deployed /\ storePc = "restored" /\ ~torn =>
        installed[ForteExecutableName] = lastGood[ForteExecutableName]

(***************************************************************************)
(* The executable of a live runtime is never written: on Windows the       *)
(* process has ended before, on Linux the old file was removed before and  *)
(* the new one is another file.                                            *)
(***************************************************************************)
NeverWrittenLive ==
    [][installed'[ForteExecutableName] # installed[ForteExecutableName] =>
        \/ process = "none"
        \/ /\ platform = "linux"
           /\ Absent \in {installed[ForteExecutableName],
                          installed'[ForteExecutableName]}]_vars

(***************************************************************************)
(* A configuration is loaded only into the runtime that is installed:      *)
(* README.md:10-11 says the old service is stopped, the runtime is replaced *)
(* and started, and the configuration is loaded after that.                *)
(***************************************************************************)
LoadedIntoInstalled ==
    [][loaded' \notin {loaded, Absent} =>
          image = installed[ForteExecutableName]]_vars

(* On Windows, where the process has ended when Stop returns, it holds. *)
LoadedIntoInstalledOnWindows ==
    [][platform = "windows" /\ loaded' \notin {loaded, Absent} =>
          image = installed[ForteExecutableName]]_vars

(***************************************************************************)
(* A package of fboot files whose commands succeeded was loaded:           *)
(* README.md:2-7 says the administrator forms a package of fboot files,    *)
(* and that it is turned into commands and loaded into the runtime.        *)
(***************************************************************************)
PackageLoaded ==
    taskPc = "true" /\ Cardinality(QueryFiles("eFboot")) >= 2 => loaded # Absent
=============================================================================
