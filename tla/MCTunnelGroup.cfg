SPECIFICATION FairSpec
CONSTANT K = 2
INVARIANTS TypeOK ReturnIsAccurate ReadyMeansAllConnected
PROPERTIES FailureHiddenOnlyByLateConnected FailureEndsGroup CancelEndsGroup
