SPECIFICATION RestSpec
CONSTANTS
    a1 = a1
    a2 = a2
    NoAction = NoAction
    NoResponse = NoResponse
    None = None
    Actions <- MCActions
    SleepTimes <- MCSleepTimes
    PollingTimeouts <- MCPollingTimeouts
    DefaultSleepTime = 0
    DeploymentResponses <- MCDeploymentResponses
    CancelResponses <- MCCancelResponses
INVARIANT
    PausesAsTold
