SPECIFICATION FairSpec
CONSTANTS
    d1 = d1
    d2 = d2
    d3 = d3
    f1 = f1
    f2 = f2
    Deployments <- MCDeployments
    Files <- MCFiles
    Artifacts <- MCArtifacts
    NoDeployment = NoDeployment
    NoFile = NoFile
INVARIANTS
    TypeOK
    PacketWellFormed
    NoDownloadWhileExecuting
    NoStaleResponse
PROPERTIES
    ImplementsHandshake
    DeploymentAnswered
