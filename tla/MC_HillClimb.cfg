CONSTANTS
    MinThreads <- MCMinThreads
    MaxThreads <- MCMaxThreads
    WindowSize <- MCWindowSize
    Criterion = "MAXIMIZE_THROUGHPUT"
    Samples <- MCSamples
    PreSetups <- MCPreSetups
    IsCoordinator = TRUE

SPECIFICATION Spec

INVARIANT TypeOK
INVARIANT CapInBounds

PROPERTY CommitPicksBest
PROPERTY RoundMeasuresStencil
