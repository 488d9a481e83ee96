SPECIFICATION FairSpec
CONSTANTS
    Video = {"v"}
    Audio = {"a"}
    AtFirst = {"v"}
    Wanted = {"v"}
    AutoSubscribe = FALSE
    MediaFlows = TRUE
    MaxEvents = 2
    MaxTries = 1
INVARIANT CleanMeansTold
PROPERTIES SettingsFirst IntentsReachServer DemandRestored
CHECK_DEADLOCK FALSE
