--------------------------- MODULE FilesDataStore ---------------------------
(***************************************************************************)
(* FilesDataStore (DataAccessLayer/FilesDataStore.cs): the download        *)
(* directory, the directory SuccessfullyCfg with the last configuration    *)
(* that was committed, and the list of the artifacts of the running        *)
(* transaction.  Commit and rollback delete, move and copy file by file;   *)
(* between any two files the process can stop, and any of the calls can    *)
(* throw.  The directories survive both, the list survives neither.        *)
(*                                                                         *)
(* The caller is DataConsumer.StartAsync; the files appear in the download *)
(* directory by the native client's downloadTo.                            *)
(***************************************************************************)
EXTENDS Naturals, Sequences, FiniteSets

CONSTANTS Names,       \* file names
          Fboot,       \* the names whose extension is ".fboot"
          Contents,    \* what a file can contain
          Absent,      \* "no such file": not a content
          MaxFiles     \* bound: artifacts in one transaction

ASSUME NamesAssumption == IsFiniteSet(Names)
ASSUME FbootAssumption == Fboot \subseteq Names
ASSUME AbsentAssumption == Absent \notin Contents
ASSUME MaxFilesAssumption == MaxFiles \in Nat

(* A directory says what each name contains. *)
Directory == [Names -> Contents \cup {Absent}]
Empty == [n \in Names |-> Absent]
Present(dir) == {n \in Names : dir[n] # Absent}

FileType(n) == IF n \in Fboot THEN "eFboot" ELSE "eForte"

VARIABLES filePath,         \* the download directory
          successfullyCfg,  \* the directory SuccessfullyCfg
          fileDataModels,   \* the names in the transaction's list
          storePc,          \* where the store's caller is
          pending,          \* GetFiles() of the loop under way
          committing,       \* history: what a commit set out to keep
          lastGood,         \* history: the last complete commit
          torn              \* history: a commit was cut short

storeVars == <<filePath, successfullyCfg, fileDataModels, storePc,
               pending, committing, lastGood, torn>>

StorePcs == {"closed", "open", "clear", "move", "rbclear", "rbcopy", "restored"}

StoreInit ==
    /\ filePath = Empty
    /\ successfullyCfg = Empty
    /\ fileDataModels = <<>>
    /\ storePc = "closed"
    /\ pending = {}
    /\ committing = Empty
    /\ lastGood = Empty
    /\ torn = FALSE

(***************************************************************************)
(* Plausible errors in the operations below, for the mutation of the runs. *)
(***************************************************************************)
(* The list is filled before the old entries are dropped. *)
StartTransactionKeepsList ==
    /\ storePc = "closed"
    /\ storePc' = "open"
    /\ UNCHANGED <<filePath, successfullyCfg, fileDataModels,
                   pending, committing, lastGood, torn>>

(* The download directory is cleared, then moved. *)
CommitTransactionClearsDownloads ==
    /\ storePc = "open"
    /\ storePc' = "clear"
    /\ committing' = filePath
    /\ filePath' = Empty
    /\ pending' = Present(successfullyCfg)
    /\ UNCHANGED <<successfullyCfg, fileDataModels, lastGood, torn>>

(* The old configuration is not cleared: old and new files are mixed. *)
CommitTransactionNoClear ==
    /\ storePc = "open"
    /\ storePc' = "clear"
    /\ committing' = filePath
    /\ pending' = {}
    /\ UNCHANGED <<filePath, successfullyCfg, fileDataModels,
                   lastGood, torn>>

(* The rollback copies over the failed files without clearing them. *)
RollBackNoClear ==
    /\ storePc = "open"
    /\ storePc' = "rbclear"
    /\ pending' = {}
    /\ UNCHANGED <<filePath, successfullyCfg, fileDataModels,
                   committing, lastGood, torn>>

(***************************************************************************)
(* A download that completes writes the file, over an older one of that    *)
(* name.  DeploymentBridge: the client downloads between two transactions  *)
(* and while the consumer collects, never later (NoDownloadWhileExecuting). *)
(***************************************************************************)
Download(n, c) ==
    /\ storePc \in {"closed", "open"}
    /\ filePath' = [filePath EXCEPT ![n] = c]
    /\ UNCHANGED <<successfullyCfg, fileDataModels, storePc, pending,
                   committing, lastGood, torn>>

StartTransaction ==
    /\ storePc = "closed"
    /\ storePc' = "open"
    /\ fileDataModels' = <<>>
    /\ UNCHANGED <<filePath, successfullyCfg, pending, committing,
                   lastGood, torn>>

(* An artifact is announced after its download: the file is there. *)
FromDeploymentData(n) ==
    /\ storePc = "open"
    /\ n \in Present(filePath)
    /\ Len(fileDataModels) < MaxFiles
    /\ fileDataModels' = Append(fileDataModels, n)
    /\ UNCHANGED <<filePath, successfullyCfg, storePc, pending,
                   committing, lastGood, torn>>

(* QueryFiles(type): the announced files of that type, as their places in  *)
(* the list; and the file, when there is exactly one.                      *)
QueryFiles(type) ==
    {i \in 1 .. Len(fileDataModels) : FileType(fileDataModels[i]) = type}

Single(type) == \E i \in QueryFiles(type) : QueryFiles(type) = {i}
FileOf(type) == fileDataModels[CHOOSE i \in QueryFiles(type) : TRUE]

(***************************************************************************)
(* CommitTransaction: ClearFilesInDirectory(SuccessfullyCfg), then         *)
(* MoveFilesFromDirectory of every file in the download directory, then    *)
(* the list is cleared.                                                    *)
(***************************************************************************)
CommitTransaction ==
    /\ storePc = "open"
    /\ storePc' = "clear"
    /\ committing' = filePath
    /\ pending' = Present(successfullyCfg)
    /\ UNCHANGED <<filePath, successfullyCfg, fileDataModels,
                   lastGood, torn>>

DeleteCommitted(n) ==
    /\ storePc = "clear"
    /\ n \in pending
    /\ successfullyCfg' = [successfullyCfg EXCEPT ![n] = Absent]
    /\ pending' = pending \ {n}
    /\ UNCHANGED <<filePath, fileDataModels, storePc, committing, lastGood, torn>>

ClearedCommitted ==
    /\ storePc = "clear"
    /\ pending = {}
    /\ storePc' = "move"
    /\ pending' = Present(filePath)
    /\ UNCHANGED <<filePath, successfullyCfg, fileDataModels,
                   committing, lastGood, torn>>

MoveFile(n) ==
    /\ storePc = "move"
    /\ n \in pending
    /\ successfullyCfg' =
          [successfullyCfg EXCEPT ![n] = filePath[n]]
    /\ filePath' = [filePath EXCEPT ![n] = Absent]
    /\ pending' = pending \ {n}
    /\ UNCHANGED <<fileDataModels, storePc, committing, lastGood, torn>>

Committed ==
    /\ storePc = "move"
    /\ pending = {}
    /\ storePc' = "closed"
    /\ fileDataModels' = <<>>
    /\ lastGood' = committing
    /\ committing' = Empty
    /\ torn' = FALSE
    /\ UNCHANGED <<filePath, successfullyCfg, pending>>

(***************************************************************************)
(* RollBackTransaction: ClearFilesInDirectory(download directory), then    *)
(* CopyFilesFromDirectory of SuccessfullyCfg, then the list is rebuilt     *)
(* from Directory.GetFiles, in whatever order it returns the names.        *)
(***************************************************************************)
RollBackTransaction ==
    /\ storePc = "open"
    /\ storePc' = "rbclear"
    /\ pending' = Present(filePath)
    /\ UNCHANGED <<filePath, successfullyCfg, fileDataModels,
                   committing, lastGood, torn>>

DeleteDownloaded(n) ==
    /\ storePc = "rbclear"
    /\ n \in pending
    /\ filePath' = [filePath EXCEPT ![n] = Absent]
    /\ pending' = pending \ {n}
    /\ UNCHANGED <<successfullyCfg, fileDataModels, storePc,
                   committing, lastGood, torn>>

ClearedDownloaded ==
    /\ storePc = "rbclear"
    /\ pending = {}
    /\ storePc' = "rbcopy"
    /\ pending' = Present(successfullyCfg)
    /\ UNCHANGED <<filePath, successfullyCfg, fileDataModels,
                   committing, lastGood, torn>>

CopyFile(n) ==
    /\ storePc = "rbcopy"
    /\ n \in pending
    /\ filePath' = [filePath EXCEPT ![n] = successfullyCfg[n]]
    /\ pending' = pending \ {n}
    /\ UNCHANGED <<successfullyCfg, fileDataModels, storePc,
                   committing, lastGood, torn>>

(* All orders in which the members of S can be listed. *)
Listings(S) ==
    {s \in [1 .. Cardinality(S) -> S] :
        \A n \in S : \E i \in 1 .. Cardinality(S) : s[i] = n}

Restored ==
    /\ storePc = "rbcopy"
    /\ pending = {}
    /\ storePc' = "restored"
    /\ fileDataModels' \in Listings(Present(filePath))
    /\ UNCHANGED <<filePath, successfullyCfg, pending, committing,
                   lastGood, torn>>

(***************************************************************************)
(* The caller's next step after the commands were executed on the restored *)
(* files, and after any exception: the answer is put, nothing is undone.   *)
(***************************************************************************)
Close ==
    /\ storePc \in {"open", "restored"}
    /\ storePc' = "closed"
    /\ UNCHANGED <<filePath, successfullyCfg, fileDataModels,
                   pending, committing, lastGood, torn>>

(* Delete, MoveTo, CopyTo or GetFiles throws: DataConsumer's catch block. *)
IOException ==
    /\ storePc \in {"clear", "move", "rbclear", "rbcopy"}
    /\ storePc' = "closed"
    /\ pending' = {}
    /\ torn' = (torn \/ storePc \in {"clear", "move"})
    /\ committing' = Empty
    /\ UNCHANGED <<filePath, successfullyCfg, fileDataModels, lastGood>>

(* The process stops and starts again; the constructor keeps both directories. *)
RestartStore ==
    /\ storePc' = "closed"
    /\ fileDataModels' = <<>>
    /\ pending' = {}
    /\ torn' = (torn \/ storePc \in {"clear", "move"})
    /\ committing' = Empty
    /\ UNCHANGED <<filePath, successfullyCfg, lastGood>>

CommitStep ==
    \/ \E n \in Names : DeleteCommitted(n) \/ MoveFile(n)
    \/ ClearedCommitted
    \/ Committed

RollBackStep ==
    \/ \E n \in Names : DeleteDownloaded(n) \/ CopyFile(n)
    \/ ClearedDownloaded
    \/ Restored

StoreNext ==
    \/ \E n \in Names, c \in Contents : Download(n, c)
    \/ StartTransaction
    \/ \E n \in Names : FromDeploymentData(n)
    \/ CommitTransaction
    \/ CommitStep
    \/ RollBackTransaction
    \/ RollBackStep
    \/ Close
    \/ IOException
    \/ RestartStore

StoreSpec == StoreInit /\ [][StoreNext]_storeVars

-----------------------------------------------------------------------------
StoreTypeOK ==
    /\ filePath \in Directory
    /\ successfullyCfg \in Directory
    /\ fileDataModels \in Seq(Names)
    /\ storePc \in StorePcs
    /\ pending \in SUBSET Names
    /\ committing \in Directory
    /\ lastGood \in Directory
    /\ torn \in BOOLEAN

(***************************************************************************)
(* SuccessfullyCfg is the last configuration that was committed, file for  *)
(* file, at any time outside a commit - after any number of aborted        *)
(* transactions, rollbacks and restarts - unless a commit was cut short    *)
(* and none has completed since.  This is what a rollback relies on.       *)
(***************************************************************************)
CommittedKept ==
    ~torn /\ storePc \notin {"clear", "move"} =>
        successfullyCfg = lastGood

(***************************************************************************)
(* A commit loses none of the files it is about to keep: wherever it is,   *)
(* and so wherever it is interrupted, each of them is in one of the two    *)
(* directories with the content it was downloaded with.                    *)
(***************************************************************************)
CommitLosesNothing ==
    storePc \in {"clear", "move"} =>
        \A n \in Present(committing) :
            committing[n] \in {filePath[n], successfullyCfg[n]}

(***************************************************************************)
(* Every artifact in the list is on the disk when the commands run on it,  *)
(* during the deployment and again after a rollback.                       *)
(***************************************************************************)
ListedFilesExist ==
    storePc \in {"open", "restored"} =>
        \A i \in 1 .. Len(fileDataModels) :
            fileDataModels[i] \in Present(filePath)

(***************************************************************************)
(* A rollback that completes leaves in the download directory the files of *)
(* SuccessfullyCfg and nothing of the failed deployment, and lists each of *)
(* them once.                                                              *)
(***************************************************************************)
RollBackRestores ==
    storePc = "restored" =>
        /\ filePath = successfullyCfg
        /\ Len(fileDataModels) = Cardinality(Present(filePath))
        /\ \A n \in Present(filePath) :
              \E i \in 1 .. Len(fileDataModels) : fileDataModels[i] = n
=============================================================================
