SPECIFICATION Spec
CONSTANTS
    Names = {"forte", "a.fboot"}
    Fboot = {"a.fboot"}
    Contents = {v1, v2}
    Absent = Absent
    Mixed = Mixed
    MaxFiles = 2
    Platforms = {"linux", "windows"}
    ForteExecutableName = "forte"
SYMMETRY ContentSymmetry
INVARIANTS
    TypeOK
    CommittedKept
    CommitLosesNothing
    ListedFilesExist
    RollBackRestores
    SuccessReplacesRuntime
    RollBackReinstalls
PROPERTIES
    NeverWrittenLive
    LoadedIntoInstalledOnWindows
