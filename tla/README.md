# Verification of the hawkBit device updater

This directory holds TLA+ models of the device updater in this repository, the
TLC configurations that check them, and proofs that the TLA+ proof system
checks.  A hawkBit server offers *deployments* to a device; the updater fetches
their artifacts (a 4diac FORTE runtime executable and fboot configuration
files), installs and loads them, and reports the outcome.

## 1. The system

```
 hawkBit server
      |  HTTP: poll, deploymentBase, download, feedback
 HawkbitCommunicationClient        hawkbit-cpp/hawkbit          C++, client thread
      |  onDeploymentAction
 Handler / HawkbitClient           hawkbit-cpp/interop          C++, client thread
      |  m_messageBuffer  ^ m_responseBuffer      (two ThreadSafeBuffers, P/Invoke)
      v                   |
 DataConsumer                      InteropLayer/HostedService   C#, consumer task
      |  ICmdSet
 LinuxCmdSet / WindowsCmdSet --- FilesDataStore (download dir, SuccessfullyCfg)
      |  DeploymentCommands
      +-- systemd over D-Bus | Process.Start/Kill      the runtime's life
      +-- FBootParser, ForteClient, FBDK ASN.1 codec   its configuration, over TCP
```

Two threads of one process matter: the client thread in `StartClient()` and the
task of `DataConsumer.StartAsync`.  They share the two buffers and, without any
lock, the download directory.  The command objects are created per execution;
the TCP client, the parser and the codec come from `ServiceLocator` and live as
long as the process.

### Inventory

| Component | State | Operations | What makes it correct | Module |
|---|---|---|---|---|
| `ThreadSafeBuffer<T>` (`main.cpp:38-70`) | deque, mutex, condition variable | `put`, `get` | FIFO, each item to one consumer, no pop of an empty deque, no lost wake-up | `ThreadSafeBuffer`, `Channel` |
| Handler, exports, `DataConsumer` (`main.cpp:76-299`, `DataConsumer.cs`) | two buffers, position of both threads, the answer | `onDeploymentAction`, `onCancelAction`, the consumer's loop | packets keep their form, answers belong to their deployment, exactly the offered artifacts are applied, the directory is never used by both, no deadlock, the verdict is the true one | `DeploymentBridge`, `DeploymentHandshake`, `Updater` |
| `FilesDataStore`, `FileUtils` | download directory, `SuccessfullyCfg`, list | `StartTransaction`, `FromDeploymentData`, `QueryFiles`, `CommitTransaction`, `RollBackTransaction` | the committed configuration survives failures, no file is lost, a rollback restores it, what is listed exists | `FilesDataStore` |
| Deployment commands | queue of commands; on the device the installed file, the process, its blocks | Stop, Remove, Copy, Run, Fboot | a success leaves no runtime but the delivered one, with the new configuration; a live executable is not overwritten | `ForteLoader`, `FbootPublisher` |
| `FBootParser` | `IsValid`, `_content` | `Parse`, `GetExecTasks` | a file is judged by itself, an earlier one is not sent for it | `FbootPublisher` |
| `ForteClient` | connection, receive handlers | `Connect`, `SendData`, `Close` | closed after use, an answer belongs to its command, a read ends | `FbootPublisher` |
| FBDK ASN.1 codec, runtime commands | received content | `Serialize`, `Deserialize` | decode after encode, lengths in 16 bits, a partial answer is noticed | `FBDKASN1Com` |
| `HawkbitCommunicationClient` | sleep time, `ignoreSleep` | `run`, `doPoll`, `follow…`, `downloadTo`, `retryHandler` | verdicts are true, a closed deployment is not repeated, pauses are kept, what is offered is reported | `HawkbitCommunicationClient` |
| `PollingData_`, `DeploymentBase_`, `CancelAction_` | – | `fromString` | priority of the links, arithmetic of the sleep time | `HawkbitCommunicationClient` (priority, default) |
| Client builders | authorisation variant, headers | `set…`, `build` | one kind of authorisation | initial states of `HawkbitCommunicationClient` |
| `ProvisioningClient` | certificate, URI | `updateCredentials`, `retryHandler` | one retry, with the renewed data | `HawkbitCommunicationClient` (one retry) |
| Python client | sleep time, `_ignore_sleep` | `run`, `do_poll`, `follow_…` | as the C++ loop | `HawkbitRestClient` |
| Host start-up, options | singletons | `ConfigureServices` | – | command set, life of the singletons, restart |
| Up2date, httplib, rapidjson, D-Bus proxies, examples, scripts | – | – | – | not modelled: unfinished port, third-party, generated, tooling |

`PROJECT.json` lists every component with its sources, and under `hazards` the
lines of this code that are hard to test.  The behaviours that make the system
hard are: the two threads and the unlocked directory between them; exceptions
out of any download, command or file operation, which end the client thread but
not the consumer's; a restart of the process at any point, after which the
directories, the device and systemd go on as they are; systemd's stop job, which
completes after the command that asked for it has returned; and singletons that
carry state from one deployment into the next.

## 2. The modules

### `Channel`, `ThreadSafeBuffer`

`Channel` is what the buffer promises: `Put` appends, `Get` hands the oldest item
to one consumer, both atomically.  `ThreadSafeBuffer` is the code: one action per
step another thread can see – lock, `push_back`, `notify_all`, the test of
`wait`'s predicate, falling asleep (which releases the mutex in the same step),
wake-ups by notification or spuriously, locking again, `pop_front`, unlock.
`pc[t]` is the position of thread `t`, `m_notEmpty` the set of threads asleep on
the condition variable, `m_isBusy` the owner of the mutex.  The mutex and the
condition variable are external and have the semantics of the C++ standard.

### `DeploymentHandshake`, `DeploymentBridge`

`DeploymentHandshake` is what the client may rely on: one deployment at a time is
offered, applied with exactly its artifacts, decided and reported, or given up.
`DeploymentBridge` is the code: `OnDeploymentAction`, `PutStart`, `PutBegin`,
`DownloadTo`, `PutContent`, `PutEnd`, `GetResponse`, `SendFeedback` are the lines
of `Handler::onDeploymentAction` in order, `GetStart` … `PutResponse` those of
`DataConsumer.StartAsync`.  A buffer is a sequence with atomic operations, which
`ThreadSafeBuffer` implements.  `ClientThrows` is any exception that leaves
`run()`; the .NET task of the client then ends while the consumer keeps waiting
with whatever part of a packet it has.  `Restart` is a new process.  The commands
and the files are abstract: `Execute`, `CommitTransaction` and
`RollBackTransaction` succeed, fail or throw, except that an execution without
artifacts attaches no command and succeeds.  `executed` is a history variable.

### `FilesDataStore`

A directory maps each name to a content or to `Absent`.  Commit and rollback are
unfolded to one deletion, move or copy per step, with the snapshot of
`GetFiles()` in `pending`; `IOException` and `RestartStore` may come between any
two.  `committing`, `lastGood` and `torn` are history variables: what the running
commit set out to keep, the last commit that completed, and whether one has been
cut short since.  The downloads are the client's `downloadTo`; that none happens
during a commit or rollback is `NoDownloadWhileExecuting` of `DeploymentBridge`.

### `ForteLoader`

Extends `FilesDataStore` with the commands and the device.  `Queue` is what
`Execute()` attaches; each command is an action enabled when it is at the head of
`commands`, with its failures (`Fail`: returns false, `Throw`: an exception that
reaches `DataConsumer`).  `Collect` is the store at work between two executions,
`Decide` the consumer's reaction to the result.  `platform` says which command
set is registered.  The device keeps `installed` (the directory
`ForteExecutablePath`), `process`, `startQueued`, `image` (what the live process
executes) and `loaded` (the configuration in it).  `UnitStopped` is systemd
completing a stop; only then does a queued start take effect.  A start that was
accepted need not give a running process (`Start`), the runtime may end by itself
(`RuntimeEnds`), and `RunDbus` and `RunProc` return true all the same.  `DeployFboot` is
the next module in one step: the configuration is loaded, partly loaded
(`Mixed`), or not, whatever the command returns.

### `FBDKASN1Com`, `FbootPublisher`

`FBDKASN1Com` is the codec: `EncodeString` and `SerializeAsString` build the bytes
with tag and two length bytes, `Deserialize` is the loop over received bytes,
written as a recursive function, with its accesses beyond the end.  An assumption
of `MCFbootPublisher` lets TLC read back commands of 0, 1, 255, 256 and 65535
characters, and shows that one of 65536 does not come back; `CommandReadBack`
proves the first for every length below the limit.

`FbootPublisher` is `DeployFbootConfigurationCommand.Execute` request by request.
`Connect`, `Write`, `Read` (any part of what was sent, at most a chunk) and
`Timeout` (at any point of an answer, whose rest then arrives later) are `ForteClient`; `OnQueryResponse`, `OnPublish` and `OnCommandResponse`
the command with the handlers it registers; `Parse` and `GetExecTasks` the parser,
with each reason to drop a group or the file; `Leave` the `finally` block, on every
way out.  `isValid` and `content` belong to the parser and outlive a deployment.
The runtime is external: it executes the `requests` of a connection in order,
keeps a state for each block (`Accepts`, `After`), answers into `socket`, and may
restart.  Bytes are numbers; an XML element is the symbol `Element` followed by an
id and the names it lists, which keeps apart what the code tells apart: no answer,
one element, several, a part of one.  `disturbed` is a history variable: an answer
was late or the runtime restarted.

### `HawkbitCommunicationClient`

One iteration of `run()`: `DoPoll` is the answered poll (and the reset of
`ignoreSleep` before it), `Followed` the preference of `PollingData_::fromString`
among the links, `FollowConfigData…`, `FetchCancelAction`, `FetchDeployment`,
`OnCancelAction`, `OnDeploymentAction` and `SendFeedback` the lines of the
`follow…` functions between two requests, `Sleep` the end of the iteration.  Every
request is a step of its own: the server, an environment with a `status` for each
action, may offer, cancel or end an action, ask for the configuration or void the
credentials in between.  One exception is caught, the unexpected status of a feedback:
`FeedbackRefused` if the server answered it, `UpdateCredentialsRefused` if the
provisioning endpoint did, whose request runs inside the same `try`.
`FeedbackUnanswered` is a feedback that the server took while its answer got lost,
`RunThrows` every other exception, which leaves `run()`, and the end of the
process.  `provisioning` says which of the two clients runs; only a
`ProvisioningClientImpl` has `UpdateCredentials`, once per request (`renewed`).
The handler is any user's: its responses are constants; this
device's is in `Updater`.  `ran` (how the last execution of an
action ended) and `owed` (the pause due before the next poll) are history
variables.

### `Updater`

The composition: `HawkbitCommunicationClient` extended, `DeploymentBridge` as the
instance `B`, and the server of the former.  The two share the client thread.  What
is one step of the loop, the call of `onDeploymentAction`, is here `BeginDeployment`,
the handler's steps of the bridge, and `ReturnResponse` with the response that the
consumer's answer gives; `DeliverFeedback`, `RefuseFeedback`, `Throws`,
`LoseFeedbackAnswer`, `Crash` and `StartAgain` are steps of both.
`DeploymentResponse` and `CancelResponse` are what the Handler of `main.cpp` builds.
`outcome` (what the consumer last answered for an action) and `confirmed` (the
actions whose cancellation the server heard) are history variables.

### `HawkbitRestClient`

The Python client extends `HawkbitCommunicationClient`, whose server, handlers and
requirements it shares, and replaces what differs: `Refused` is an answer with
another status code, which `requests` does not raise; `FeedbackAnswered` and
`FeedbackFailed` are the two ends of the `try` block, the second one also for a
feedback the server took; `RestSleep` computes the pause in its own way.

The runs instantiate the `MC…` modules, which add only values of constants,
symmetry sets and the codec's assumption.  Each module also contains, marked
"Plausible errors", mutated forms of its operations; for every property of every
passing run `PROJECT.json` names one that violates it.

### How the modules fit

| From | To | Link |
|---|---|---|
| `ThreadSafeBuffer` | `Channel` | refinement, checked and proved |
| `DeploymentBridge` | `DeploymentHandshake` | refinement, checked and proved; its buffers are channels |
| `Updater` | `HawkbitCommunicationClient`, `DeploymentBridge` | refinement, proved |
| `ForteLoader` | `FilesDataStore` | refinement, proved |
| `ForteLoader.DeployFboot` | `FbootPublisher` | by reading: one step with all the outcomes the other one has |
| `DeploymentBridge.Execute` … | `ForteLoader`, `FilesDataStore` | by reading: success, failure or exception; `NoDownloadWhileExecuting` is why the store's `Download` is confined to `storePc` "closed" and "open" |

## 3. The runs

| Run | Instance | Checks |
|---|---|---|
| `client` | 2 actions, both clients, 3 sleep times (absent, 0, given), 3 deployment and 2 cancel responses, `FairSpec` | `TypeOK`, `NoRerunAfterReport`, `VerdictIsTheLastRun`, `PausesAsTold`, `OfferedIsReported` |
| `buffer` | 2 producers, 2 consumers, 2 values, ≤ 3 items pending, `FairSpec` | `TypeOK`, `NeverPopsEmpty`, `NoLostWakeup`, `ImplementsChannel`, `ImplementsLiveChannel` |
| `bridge` | deployments of 2, 1 and 0 artifacts, one shared, `FairSpec` | `TypeOK`, `PacketWellFormed`, `NoDownloadWhileExecuting`, `NoStaleResponse`, `ImplementsHandshake`, `DeploymentAnswered` |
| `bridge_rollback` | the same | **violated**: `RollbackIsRejected` |
| `updater` | 2 actions, with one artifact and with none, `FairUpdaterSpec` | `UpdaterTypeOK`, `VerdictOfDevice`, `NoWorkAfterCancel`, `OfferedIsDecided` |
| `loader` | both platforms, 1 executable, 1 fboot file, 2 contents, ≤ 2 listed | `TypeOK`, `CommittedKept`, `CommitLosesNothing`, `ListedFilesExist`, `RollBackRestores`, `SuccessReplacesRuntime`, `RollBackReinstalls`, `NeverWrittenLive`, `LoadedIntoInstalledOnWindows` |
| `loader_oldruntime` | Linux | **violated**: `LoadedIntoInstalled` |
| `loader_package` | Linux, two fboot files | **violated**: `PackageLoaded` |
| `publisher` | 2 blocks; 4 files: good, one block twice, a garbled group before one that starts its block before it creates it, a group with an error; chunks of 6 bytes, `FairSpec` | `TypeOK`, `ConnectionClosed`, `PublishKnowsBlocks`, `NoCutAnswerAccepted`, `CreateAccepted`, `LoadedWhenPrompt`, `OnlyNamedBlocks`, `ExecuteEnds` |
| `publisher_poisoned` | the same | **violated**: `RejectedForItself` |
| `python` | 2 actions, 3 sleep times, with and without a default | `RestTypeOK`, `NoRerunAfterReport`, `VerdictIsTheLastRun` |
| `python_pauses` | the same | **violated**: `PausesAsTold` |

*Bounds.*  Two producers and consumers let two sleepers be woken for one item
and two puts race; the bound `MaxLength` guards only the call of `put`, since the
deque itself is unbounded.  In the bridge nothing is bounded: the client waits
for each answer, so a packet is the most the buffer holds, and three deployments
with differing lists tell every mixture of packets apart.  The updater has a
deployment with an artifact and one without, so that a packet can be abandoned
with and without content and an answer can belong to the other action.  Two
contents of each of two files make every combination of old and new in both
directories and on the device possible, and one file of each kind makes `Queue`
take all four values; `MaxFiles` bounds the list, so that a file may be announced
twice, which is what the commands' test for exactly one notices.  The chunk of
`FbootPublisher` is 6 bytes instead of 1024, as the answers are 5, 6 and 7 bytes
long instead of some hundred: shorter than a chunk, exactly one, and more than one.
Two blocks let one exist and the other not; nothing bounds the number of
deployments or restarts.  Of the client's two actions one may be closed, cancelled
or half-way when the other is offered, as the server keeps one open at a time; the
responses differ in verdict, listener and pause, the three things the loop reads.
All passing runs explore their whole state space (from 1 708 states for the bridge
to 793 093 for the loader).  The runs that check for a deadlock are all of them:
every module has a step (a poll, a restart, a transaction) in every reachable state.

*Fairness.*  `ThreadSafeBuffer`: a thread inside `put`, and the consumers, keep
running, and taking the mutex is strongly fair, i.e. a thread is not refused for
ever a mutex that becomes free again and again.  `std::mutex` does not promise
an order, but both callers release it after a few instructions and the operating
system schedules both.  Nobody has to call `put` or to wake up spuriously.
`DeploymentBridge`: each thread takes its next step when it can, which covers the
HTTP requests (the library has time-outs) and the commands.  `ClientThrows` and
`Restart` are never required.  `HawkbitCommunicationClient`: a request
ends, the handler returns and the loop goes on (weak fairness of `LoopStep`, which
a failing request satisfies by ending the loop), the server does not refuse the
feedback for ever (strong fairness of `SendFeedback`), and the provisioning endpoint
does not refuse a feedback's renewal for ever (strong fairness of
`RenewForFeedback`).  The loop need not live: `OfferedIsReported` and
`OfferedIsDecided` have it as an antecedent that in the end no failure ends the loop
(`LoopLivesOn`), since nothing starts it again.  The second
antecedent is that the server stops asking anew for the configuration.  For the
Handler of this device nothing more is needed (`ConfigAskedFinitely` of `Updater`):
that its answer removes the configData link is part of what is checked.  For any
handler, one that never gives data must be excepted (`ConfigSettles`), because the
code then leaves every deployment hidden.  The server's own steps are never required.  `Updater`: the
same for each of the two threads; an exception may end a step that cannot succeed,
and feedback is not refused for ever.  `FbootPublisher`: `Execute()` goes on, a read
ends with data or with the time-out that `Connect` sets; the runtime need not do
anything.  `ForteLoader`, `FilesDataStore` and `HawkbitRestClient` claim no
liveness: commands may fail for ever, and the Python requests have no time-out.

### What the violated runs show

* `bridge_rollback`: `DataConsumer.cs:82` marks the answer as a commit after a
  rollback too, so the server closes a failed deployment as successful; the trace
  is a deployment of one artifact.
* `loader_oldruntime`: `StopUnitAsync` is not the end of the unit.  A later
  fboot file can be sent to the old runtime, which is about to stop.
  `LoadedIntoInstalledOnWindows` of the run `loader` shows that this cannot happen
  where the process is waited for.
* `loader_package`: two fboot files are one too many for `Count == 1`; nothing is
  loaded, and the package is committed.
* `publisher_poisoned`: a malformed file marks the parser, `IsValid` is never set
  back, and every later file is rejected until the loader restarts.
* `python_pauses`: the pause is taken modulo sixty seconds, so the five minutes
  hawkBit usually asks for are none; `_ignore_sleep` is never set back either.

### What the properties do not claim

Three things that the code does are in the models without a property against them,
since they are its plain behaviour:

* A success of the commands is not a running runtime.  `RunDbus` returns true when
  systemd has accepted the job, `RunProc` five seconds after `Process.Start`, and
  chmod's exit code is not read.  `SuccessReplacesRuntime` says what a success does
  mean: the delivered runtime is installed, none but it runs, and one that is still
  stopping is followed by its start.  It holds over failing starts too.
* A malformed fboot file may be a success, with the groups that `GetExecTasks`
  dropped, or all of them, missing.  `LoadedWhenPrompt` is about well-formed files.
* An error of any request outside a feedback ends the poll loop for the life of the
  process.  The liveness properties are about a loop that lives on in the end.

## 4. The proofs

TLC checks small instances; the following hold for every value of the constants.
Each proof module states an inductive invariant as a conjunction of named parts,
shows that the initial states satisfy it and every action preserves it, and
derives the properties.

| Module | Theorems | Inductive invariant |
|---|---|---|
| `ThreadSafeBuffer_proofs` | `TypeCorrect`, `NeverPopsEmptyAlways`, `NoLostWakeupAlways`, `BufferImplementsChannel` | The two properties alone are not inductive: that nobody else pops between the test and the pop needs `LockDiscipline` (a thread is inside a critical section exactly when it owns the mutex), and that `notify_all` reaches every sleeper needs `SleepersWait`. |
| `DeploymentBridge_proofs` | `TypeCorrect`, `PacketWellFormedAlways`, `NoDownloadWhileExecutingAlways`, `NoStaleResponseAlways`, `BridgeImplementsHandshake` | `Packet(d, i)` is the i-th message of a packet; `Sent` is what was received plus what is queued.  `SendingInv`, `WaitingInv`, `IdleInv` and `DeadInv` tie the positions of the two threads together by that count, `QueuedInv` says that the queue is the part of the packet in between, `CollectedInv` that the list is a prefix of the artifacts. |
| `FilesDataStore_proofs` | `StoreTypeCorrect`, `CommittedKeptAlways`, `CommitLosesNothingAlways`, `ListedFilesExistAlways`, `RollBackRestoresAlways` | One part per loop, saying how the names outside `pending` already are and those inside still are: `ClearInv`, `MoveInv`, `RbClearInv`, `RbCopyInv`, `RestoredInv`. |
| `HawkbitCommunicationClient_proofs` | `TypeCorrect`, `NoRerunAfterReportAlways`, `VerdictIsTheLastRunAlways`, `PausesAsToldAlways` | `AnswerInv`: a feedback under way is the verdict of the execution before it, without which the report could be an earlier one's; `PauseInv`: from the poll to the sleep the pause of this poll is owed and `ignoreSleep` is false until the handler has answered. |
| `HawkbitRestClient_proofs` | `RestTypeCorrect`, `RestNoRerunAfterReport`, `RestVerdictIsTheLastRun` | `AnswerInv` again, and in `RestTypeOK` that no link and no response survives a follow function, which is what makes a swallowed error harmless. |
| `ForteLoader_proofs` | `LoaderImplementsStore`, `LoaderTypeCorrect`, `SuccessReplacesRuntimeAlways`, `RollBackReinstallsAlways`, `NeverWrittenLiveAlways`, `LoadedIntoInstalledOnWindowsAlways` | The store's invariant carries over, since a step of the loader is a step of the store or none (`LoaderIsStore`).  `QueueInv`: what is left of the queue is a rest of one that the list justifies.  `StageInv`: what the commands executed so far have reached, e.g. before Copy nothing runs, nothing is about to start, and the file is gone; it has to hold while systemd, failing starts, restarts and exceptions act in between.  `WindowsInv`: no process is stopping. |
| `Updater_proofs` | `UpdaterImplementsLoop`, `UpdaterImplementsBridge`, `UpdaterTypeCorrect`, `VerdictOfDeviceAlways`, `NoWorkAfterCancelAlways` | The two implementations bring in the invariants of both parts.  `ThreadsAgree`: the two views of the client thread are one; `CarriedInv`: the answer on its way from the consumer through the buffer, the handler and the feedback is the `outcome` of the action it is for; `CancelInv`: a cancellation is only confirmed when the consumer holds nothing of that action. |
| `FbootPublisher_proofs` | `CommandReadBack`, `TypeCorrect`, `ConnectionClosedAlways`, `NoCutAnswerAcceptedAlways`, `OnlyNamedBlocksAlways`, `PublishKnowsBlocksAlways`, `CreateAcceptedAlways`, `LoadedWhenPromptAlways` | See below. |

*The publisher.*  The argument of `FbootPublisher_proofs` has two halves.

The operators.  `Deserialize` and `FlattenSeq` are functions defined by recursion,
and the theorems on induction that come with the prover take a predicate, which its
backends cannot instantiate.  `SetInduction` says the same of a set of naturals and
follows from the well-foundedness of `<`.  With it `DeserializeTurns` shows that the
loop of `Deserialize` is well defined and what each turn does with the turns behind
it; `CommandReadBack` that what `SerializeAsString` writes is read back whole, up to
the length two bytes hold; `ReceivedOfStream` that of any beginning of a stream of
answers `Deserialize` returns something that is no element, throws, or has one whole
answer (`Streams` is the smallest set closed under putting an answer in front).
`FlattenShape` and `PublishShape` say where each command of each group stands in the
list that `OnPublish` sends (`off[k]`, what goes before group `k`).

The invariant, each part using the ones before:

| Part | Says | Why it is needed |
|---|---|---|
| `TypeInv` | `TypeOK`, and `OwnState`: the connection is closed exactly at an end, nothing is unread then, a broken connection has no requests, and the file published is the one in the parser | `Leave` is the only way out; a new connection starts with an empty stream |
| `StreamInv` | what was read and what is unread are whole answers, one after the other | the cut of a read may be anywhere, so the property needs what the rest of the stream is |
| `OriginInv` | a request the runtime has, and a command to be sent, names a block of its file, and on a live connection this is the file being deployed | requests of an earlier deployment may still be executed after their connection |
| `PromptInv`, `Undisturbed` | while answers are not late, and always until the query is answered, there is one request or one whole answer under way, and that of the query names the blocks there are | the answer is read later than it was sent; nothing may change the blocks in between |
| `SafeInv` | of the requests to come (`Pending`: what the runtime has, then what is unsent), before a creation of a block that exists there is a deletion, before this a kill if the block runs, and nothing else for that block | a late answer lets the client run ahead by any number of requests |
| `LoadInv` | each block of the file is loaded and nothing more comes for it, or is created and will be started, or will be created and then started | `TRUE` is returned after the last answer, whatever the answers say |

`LoadedWhenPrompt` is about files that `CreatesOnce` and `StartsBlocks` describe:
no block in two groups, each group a creation and a start.  With a block in two
groups the second creation meets a block that was not there when the runtime was
asked, and is refused; the file `twice` of the run is one, and `CreateAccepted`
excepts such files.

Assumptions: threads are disjoint and none of the "no value" constants is a
value; `Names` and `Files` are finite; a block's name is a symbol other than the
start of an element, and an answer with all the names fits into a length of two
bytes (`NamesAssumption`; the runtime, which writes that length, is external); the
base of the length bytes is more than one; artifact lists are sequences of files,
sleep times are integers, a handler answers with responses, and the responses of
this device are among those the loop is checked with.  TLC evaluates each of
them on the instances.

Only model-checked:

* the liveness properties (`ImplementsLiveChannel`, `DeploymentAnswered`,
  `OfferedIsReported`, `OfferedIsDecided`, `ExecuteEnds`): the prover has no rules
  for fairness and ENABLED;
* that a command of 65536 characters is not read back: TLC evaluates it, in an
  assumption of `MCFbootPublisher`, together with the lengths around the boundary.

Every other property of a passing run is a theorem.

## 5. Not modelled

Of the 87 515 lines counted as implementation in this repository, about 82 000 are
copies of third-party code (cpp-httplib, rapidjson with its googletest) or generated
(`systemd1.DBus.cs`); a model of them would say nothing about the updater.  The
updater's own code is some five thousand lines, of which the map names those with
behaviour: state, decisions and their order.  Of that code, the following is left out.

* The texts: JSON, XML, fboot syntax, names and hashes.  A file is a name with an
  opaque content, a group of an fboot file a name with a defect or none.  Hashes are
  transported and never compared by the code.
* The client builders beyond the state that `build()` leaves, and the order of calls
  on them: a single thread fills the object before anything runs, and no code here
  makes the calls that would leave two kinds of authorisation.
* The endpoint that a renewal of the credentials may move (the retry keeps the old
  one), since the model has one server; the int arithmetic of the sleep time.
* In the Python client the downloads and the reading of a deployment.
* A copy that is cut off in the middle of a file; files are copied whole or not
  at all, in the store and on the device.
* A unit's own restart policy (`Restart=`): the unit file is not in this repository,
  and a runtime that has ended stays ended until the next start.
* Time.  A time-out is a failure that may happen, a sleep is no step.
* Option validation, library loading, logging.
* `Up2date`, an unfinished port: polling and the builders throw
  `NotImplementedException`.  Examples and scripts.

What could be added to this: a second server for the renewed endpoint, the
chunks of a deployment in the Python client, and `DeployFboot` as a refinement of
`FbootPublisher` instead of by reading.
