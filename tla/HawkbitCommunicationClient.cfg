SPECIFICATION FairSpec
CONSTANTS
    a1 = a1
    a2 = a2
    NoAction = NoAction
    NoResponse = NoResponse
    Actions <- MCActions
    SleepTimes <- MCSleepTimes
    DefaultSleepTime = 3
    DeploymentResponses <- MCDeploymentResponses
    CancelResponses <- MCCancelResponses
INVARIANTS
    TypeOK
    NoRerunAfterReport
    VerdictIsTheLastRun
    PausesAsTold
PROPERTY
    OfferedIsReported
