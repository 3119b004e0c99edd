SPECIFICATION FairUpdaterSpec
CONSTANTS
    a1 = a1
    a2 = a2
    f1 = f1
    NoAction = NoAction
    NoResponse = NoResponse
    NoFile = NoFile
    Actions <- MCActions
    Files = {f1}
    Artifacts <- MCArtifacts
    SleepTimes = {2}
    DefaultSleepTime = 2
    DeploymentResponses <- MCDeploymentResponses
    CancelResponses <- MCCancelResponses
INVARIANTS
    UpdaterTypeOK
    VerdictOfDevice
    NoWorkAfterCancel
PROPERTIES
    OfferedIsDecided
