------------------------ MODULE FilesDataStore_proofs ------------------------
(***************************************************************************)
(* Theorems about FilesDataStore for any finite set of names, any contents *)
(* and any number of artifacts, and their proofs.  The inductive invariant *)
(* says what each loop over a directory has done so far: the names it has  *)
(* still to treat are in pending, the others are as the loop leaves them.  *)
(***************************************************************************)
EXTENDS FilesDataStore, FiniteSetTheorems, TLAPS

(* ClearFilesInDirectory(SuccessfullyCfg), half-way. *)
ClearInv ==
    storePc = "clear" =>
        /\ filePath = committing
        /\ \A n \in Names \ pending : successfullyCfg[n] = Absent

(* MoveFilesFromDirectory, half-way. *)
MoveInv ==
    storePc = "move" =>
        \A n \in Names :
            IF n \in pending
            THEN filePath[n] = committing[n] /\ successfullyCfg[n] = Absent
            ELSE filePath[n] = Absent /\ successfullyCfg[n] = committing[n]

(* ClearFilesInDirectory(download directory), half-way. *)
RbClearInv ==
    storePc = "rbclear" => \A n \in Names \ pending : filePath[n] = Absent

(* CopyFilesFromDirectory, half-way. *)
RbCopyInv ==
    storePc = "rbcopy" =>
        \A n \in Names : filePath[n] = IF n \in pending THEN Absent
                                       ELSE successfullyCfg[n]

RestoredInv == storePc = "restored" => filePath = successfullyCfg

StoreIInv ==
    /\ StoreTypeOK
    /\ ClearInv
    /\ MoveInv
    /\ RbClearInv
    /\ RbCopyInv
    /\ RestoredInv
    /\ CommittedKept
    /\ ListedFilesExist
    /\ RollBackRestores

USE FbootAssumption, AbsentAssumption, MaxFilesAssumption

(* The empty directory is one. *)
LEMMA EmptyType == Empty \in Directory
  BY DEF Empty, Directory

(* A listing of a set of names is a sequence of its members. *)
LEMMA ListingType ==
  ASSUME NEW S \in SUBSET Names, NEW s \in Listings(S)
  PROVE  /\ s \in Seq(Names)
         /\ \A i \in 1 .. Len(s) : s[i] \in S
         /\ Len(s) = Cardinality(S)
         /\ \A n \in S : \E i \in 1 .. Len(s) : s[i] = n
<1>1. Cardinality(S) \in Nat
  BY NamesAssumption, FS_Subset, FS_CardinalityType
<1>2. s \in [1 .. Cardinality(S) -> S]
  BY DEF Listings
<1>3. s \in Seq(S) /\ Len(s) = Cardinality(S)
  BY <1>1, <1>2
<1>4. \A n \in S : \E i \in 1 .. Len(s) : s[i] = n
  BY <1>3 DEF Listings
<1>5. QED
  BY <1>3, <1>4

(* The initial states satisfy the inductive invariant. *)
LEMMA InitStoreIInv == StoreInit => StoreIInv
<1> SUFFICES ASSUME StoreInit PROVE StoreIInv
  OBVIOUS
<1>1. StoreTypeOK
  <2>1. fileDataModels \in Seq(Names)
    BY DEF StoreInit
  <2>2. QED
    BY <2>1, EmptyType DEF StoreInit, StoreTypeOK, StorePcs
<1>2. ListedFilesExist
  BY DEF StoreInit, ListedFilesExist
<1>3. QED
  BY <1>1, <1>2
  DEF StoreInit, StoreIInv, ClearInv, MoveInv, RbClearInv, RbCopyInv,
      RestoredInv, CommittedKept, RollBackRestores

(***************************************************************************)
(* Every step preserves the types.                                         *)
(***************************************************************************)
LEMMA StoreTypeStep == StoreIInv /\ [StoreNext]_storeVars => StoreTypeOK'
<1> SUFFICES ASSUME StoreIInv, [StoreNext]_storeVars PROVE StoreTypeOK'
  OBVIOUS
<1> USE DEF StoreIInv, StoreTypeOK, StorePcs, Directory, Present
<1>1. ASSUME NEW n \in Names, NEW c \in Contents, Download(n, c)
      PROVE  StoreTypeOK'
  BY <1>1 DEF Download
<1>2. ASSUME NEW n \in Names, FromDeploymentData(n) PROVE StoreTypeOK'
  BY <1>2 DEF FromDeploymentData
<1>3. ASSUME NEW n \in Names, DeleteCommitted(n) PROVE StoreTypeOK'
  BY <1>3 DEF DeleteCommitted
<1>4. ASSUME NEW n \in Names, MoveFile(n) PROVE StoreTypeOK'
  BY <1>4 DEF MoveFile
<1>5. ASSUME NEW n \in Names, DeleteDownloaded(n) PROVE StoreTypeOK'
  BY <1>5 DEF DeleteDownloaded
<1>6. ASSUME NEW n \in Names, CopyFile(n) PROVE StoreTypeOK'
  BY <1>6 DEF CopyFile
<1>7. CASE StartTransaction
  BY <1>7 DEF StartTransaction
<1>8. CASE CommitTransaction
  BY <1>8 DEF CommitTransaction
<1>9. CASE ClearedCommitted
  BY <1>9 DEF ClearedCommitted
<1>10. CASE Committed
  <2>1. fileDataModels' \in Seq(Names)
    BY <1>10 DEF Committed
  <2>2. QED
    BY <1>10, <2>1, EmptyType DEF Committed
<1>11. CASE RollBackTransaction
  BY <1>11 DEF RollBackTransaction
<1>12. CASE ClearedDownloaded
  BY <1>12 DEF ClearedDownloaded
<1>13. CASE Restored
  <2>1. fileDataModels' \in Seq(Names)
    BY <1>13, ListingType DEF Restored
  <2>2. QED
    BY <1>13, <2>1 DEF Restored
<1>14. CASE Close
  BY <1>14 DEF Close
<1>15. CASE IOException
  BY <1>15, EmptyType DEF IOException
<1>16. CASE RestartStore
  BY <1>16, EmptyType DEF RestartStore
<1>17. CASE UNCHANGED storeVars
  BY <1>17 DEF storeVars
<1>18. QED
  BY <1>1, <1>2, <1>3, <1>4, <1>5, <1>6, <1>7, <1>8, <1>9, <1>10, <1>11, <1>12, <1>13, <1>14, <1>15, <1>16, <1>17
  DEF StoreNext, CommitStep, RollBackStep

(***************************************************************************)
(* Every step preserves what the loops have done so far, and what holds    *)
(* between two transactions.                                               *)
(***************************************************************************)
Loops == ClearInv /\ MoveInv /\ RbClearInv /\ RbCopyInv /\ RestoredInv

LEMMA LoopStep == StoreIInv /\ [StoreNext]_storeVars => Loops'
<1> SUFFICES ASSUME StoreIInv, [StoreNext]_storeVars PROVE Loops'
  OBVIOUS
<1> USE DEF Loops, StoreIInv, StoreTypeOK, StorePcs, Directory, Present,
        ClearInv, MoveInv, RbClearInv, RbCopyInv, RestoredInv
<1>1. ASSUME NEW n \in Names, NEW c \in Contents, Download(n, c)
      PROVE  Loops'
  BY <1>1 DEF Download
<1>2. ASSUME NEW n \in Names, FromDeploymentData(n) PROVE Loops'
  BY <1>2 DEF FromDeploymentData
<1>3. ASSUME NEW n \in Names, DeleteCommitted(n) PROVE Loops'
  BY <1>3 DEF DeleteCommitted
<1>4. ASSUME NEW n \in Names, MoveFile(n) PROVE Loops'
  BY <1>4 DEF MoveFile
<1>5. ASSUME NEW n \in Names, DeleteDownloaded(n) PROVE Loops'
  BY <1>5 DEF DeleteDownloaded
<1>6. ASSUME NEW n \in Names, CopyFile(n) PROVE Loops'
  BY <1>6 DEF CopyFile
<1>7. CASE StartTransaction
  BY <1>7 DEF StartTransaction
<1>8. CASE CommitTransaction
  BY <1>8 DEF CommitTransaction
<1>9. CASE ClearedCommitted
  BY <1>9 DEF ClearedCommitted
<1>10. CASE Committed
  BY <1>10 DEF Committed
<1>11. CASE RollBackTransaction
  BY <1>11 DEF RollBackTransaction
<1>12. CASE ClearedDownloaded
  BY <1>12 DEF ClearedDownloaded
<1>13. CASE Restored
  BY <1>13 DEF Restored
<1>14. CASE Close
  BY <1>14 DEF Close
<1>15. CASE IOException
  BY <1>15 DEF IOException
<1>16. CASE RestartStore
  BY <1>16 DEF RestartStore
<1>17. CASE UNCHANGED storeVars
  BY <1>17 DEF storeVars
<1>18. QED
  BY <1>1, <1>2, <1>3, <1>4, <1>5, <1>6, <1>7, <1>8, <1>9, <1>10, <1>11, <1>12, <1>13, <1>14, <1>15, <1>16, <1>17
  DEF StoreNext, CommitStep, RollBackStep

(* No step but a completed commit changes what SuccessfullyCfg is held to be. *)
LEMMA KeptStep == StoreIInv /\ [StoreNext]_storeVars => CommittedKept'
<1> SUFFICES ASSUME StoreIInv, [StoreNext]_storeVars PROVE CommittedKept'
  OBVIOUS
<1> USE DEF StoreIInv, StoreTypeOK, StorePcs, Directory, CommittedKept,
        MoveInv
<1>1. ASSUME NEW n \in Names, NEW c \in Contents, Download(n, c)
      PROVE  CommittedKept'
  BY <1>1 DEF Download
<1>2. ASSUME NEW n \in Names, FromDeploymentData(n) PROVE CommittedKept'
  BY <1>2 DEF FromDeploymentData
<1>3. ASSUME NEW n \in Names, DeleteCommitted(n) PROVE CommittedKept'
  BY <1>3 DEF DeleteCommitted
<1>4. ASSUME NEW n \in Names, MoveFile(n) PROVE CommittedKept'
  BY <1>4 DEF MoveFile
<1>5. ASSUME NEW n \in Names, DeleteDownloaded(n) PROVE CommittedKept'
  BY <1>5 DEF DeleteDownloaded
<1>6. ASSUME NEW n \in Names, CopyFile(n) PROVE CommittedKept'
  BY <1>6 DEF CopyFile
<1>7. CASE StartTransaction
  BY <1>7 DEF StartTransaction
<1>8. CASE CommitTransaction
  BY <1>8 DEF CommitTransaction
<1>9. CASE ClearedCommitted
  BY <1>9 DEF ClearedCommitted
<1>10. CASE Committed
  BY <1>10 DEF Committed
<1>11. CASE RollBackTransaction
  BY <1>11 DEF RollBackTransaction
<1>12. CASE ClearedDownloaded
  BY <1>12 DEF ClearedDownloaded
<1>13. CASE Restored
  BY <1>13 DEF Restored
<1>14. CASE Close
  BY <1>14 DEF Close
<1>15. CASE IOException
  BY <1>15 DEF IOException
<1>16. CASE RestartStore
  BY <1>16 DEF RestartStore
<1>17. CASE UNCHANGED storeVars
  BY <1>17 DEF storeVars
<1>18. QED
  BY <1>1, <1>2, <1>3, <1>4, <1>5, <1>6, <1>7, <1>8, <1>9, <1>10, <1>11, <1>12, <1>13, <1>14, <1>15, <1>16, <1>17
  DEF StoreNext, CommitStep, RollBackStep

(* Every step keeps the listed files on the disk. *)
LEMMA ListedStep == StoreIInv /\ [StoreNext]_storeVars => ListedFilesExist'
<1> SUFFICES ASSUME StoreIInv, [StoreNext]_storeVars PROVE ListedFilesExist'
  OBVIOUS
<1> USE DEF StoreIInv, StoreTypeOK, StorePcs, Directory, Present,
        ListedFilesExist
<1>1. ASSUME NEW n \in Names, NEW c \in Contents, Download(n, c)
      PROVE  ListedFilesExist'
  BY <1>1 DEF Download
<1>2. ASSUME NEW n \in Names, FromDeploymentData(n) PROVE ListedFilesExist'
  BY <1>2 DEF FromDeploymentData
<1>3. ASSUME NEW n \in Names, DeleteCommitted(n) PROVE ListedFilesExist'
  BY <1>3 DEF DeleteCommitted
<1>4. ASSUME NEW n \in Names, MoveFile(n) PROVE ListedFilesExist'
  BY <1>4 DEF MoveFile
<1>5. ASSUME NEW n \in Names, DeleteDownloaded(n) PROVE ListedFilesExist'
  BY <1>5 DEF DeleteDownloaded
<1>6. ASSUME NEW n \in Names, CopyFile(n) PROVE ListedFilesExist'
  BY <1>6 DEF CopyFile
<1>7. CASE StartTransaction
  BY <1>7 DEF StartTransaction
<1>8. CASE CommitTransaction
  BY <1>8 DEF CommitTransaction
<1>9. CASE ClearedCommitted
  BY <1>9 DEF ClearedCommitted
<1>10. CASE Committed
  BY <1>10 DEF Committed
<1>11. CASE RollBackTransaction
  BY <1>11 DEF RollBackTransaction
<1>12. CASE ClearedDownloaded
  BY <1>12 DEF ClearedDownloaded
<1>13. CASE Restored
  <2>1. \A i \in 1 .. Len(fileDataModels') : fileDataModels'[i] \in Present(filePath)
    BY <1>13, ListingType DEF Restored
  <2>2. QED
    BY <1>13, <2>1 DEF Restored
<1>14. CASE Close
  BY <1>14 DEF Close
<1>15. CASE IOException
  BY <1>15 DEF IOException
<1>16. CASE RestartStore
  BY <1>16 DEF RestartStore
<1>17. CASE UNCHANGED storeVars
  BY <1>17 DEF storeVars
<1>18. QED
  BY <1>1, <1>2, <1>3, <1>4, <1>5, <1>6, <1>7, <1>8, <1>9, <1>10, <1>11, <1>12, <1>13, <1>14, <1>15, <1>16, <1>17
  DEF StoreNext, CommitStep, RollBackStep

(* Only the end of a rollback enters the state that RollBackRestores is about. *)
LEMMA RestoresStep == StoreIInv /\ [StoreNext]_storeVars => RollBackRestores'
<1> SUFFICES ASSUME StoreIInv, [StoreNext]_storeVars PROVE RollBackRestores'
  OBVIOUS
<1>1. CASE Restored
  <2>1. fileDataModels' \in Listings(Present(filePath)) /\ storePc = "rbcopy" /\ pending = {}
    BY <1>1 DEF Restored
  <2>2. UNCHANGED <<filePath, successfullyCfg>>
    BY <1>1 DEF Restored
  <2>3. filePath = successfullyCfg
    BY <2>1 DEF StoreIInv, StoreTypeOK, Directory, RbCopyInv
  <2>4. Present(filePath) \in SUBSET Names /\ Present(filePath)' = Present(filePath)
    BY <2>2 DEF Present
  <2>5. QED
    BY <2>1, <2>2, <2>3, <2>4, ListingType DEF RollBackRestores
<1>2. CASE UNCHANGED storeVars
  BY <1>2 DEF storeVars, StoreIInv, RollBackRestores, Present
<1>3. CASE StoreNext /\ ~Restored
  <2>1. storePc' # "restored"
    BY <1>3 DEF StoreNext, CommitStep, RollBackStep, Download, StartTransaction,
        FromDeploymentData, CommitTransaction, DeleteCommitted, ClearedCommitted,
        MoveFile, Committed, RollBackTransaction, DeleteDownloaded,
        ClearedDownloaded, CopyFile, Close, IOException, RestartStore
  <2>2. QED
    BY <2>1 DEF RollBackRestores
<1>4. QED
  BY <1>1, <1>2, <1>3

(* The invariant is inductive. *)
LEMMA StoreStepKeeps == StoreIInv /\ [StoreNext]_storeVars => StoreIInv'
  BY StoreTypeStep, LoopStep, KeptStep, ListedStep, RestoresStep DEF StoreIInv, Loops

(* It holds in every reachable state. *)
LEMMA SpecStoreIInv == StoreSpec => []StoreIInv
  BY InitStoreIInv, StoreStepKeeps, PTL DEF StoreSpec

(* The variables keep their types. *)
THEOREM StoreTypeCorrect == StoreSpec => []StoreTypeOK
<1>1. StoreIInv => StoreTypeOK
  BY DEF StoreIInv
<1>2. QED
  BY SpecStoreIInv, <1>1, PTL

(* Outside a commit SuccessfullyCfg is the last committed configuration. *)
THEOREM CommittedKeptAlways == StoreSpec => []CommittedKept
<1>1. StoreIInv => CommittedKept
  BY DEF StoreIInv
<1>2. QED
  BY SpecStoreIInv, <1>1, PTL

(* An interrupted commit loses no file of the new configuration. *)
THEOREM CommitLosesNothingAlways == StoreSpec => []CommitLosesNothing
<1>1. StoreIInv => CommitLosesNothing
  BY DEF StoreIInv, ClearInv, MoveInv, CommitLosesNothing, Present
<1>2. QED
  BY SpecStoreIInv, <1>1, PTL

(* The commands find every listed file. *)
THEOREM ListedFilesExistAlways == StoreSpec => []ListedFilesExist
<1>1. StoreIInv => ListedFilesExist
  BY DEF StoreIInv
<1>2. QED
  BY SpecStoreIInv, <1>1, PTL

(* A completed rollback leaves, and lists, exactly the committed files. *)
THEOREM RollBackRestoresAlways == StoreSpec => []RollBackRestores
<1>1. StoreIInv => RollBackRestores
  BY DEF StoreIInv
<1>2. QED
  BY SpecStoreIInv, <1>1, PTL
=============================================================================
