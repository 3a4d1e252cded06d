CONSTANTS
    MinThreads <- MCMinThreads
    MaxThreads = 6
    WindowSize <- MCWindowSize
    Criterion = "MINIMIZE_ACCUMULATED"
    Samples <- MCStaticSamples
    PreSetups <- MCStaticPreSetups
    IsCoordinator = TRUE

SPECIFICATION Spec

PROPERTY SearchSettles
