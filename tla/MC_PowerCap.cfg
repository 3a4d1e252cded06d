CONSTANTS
    MinThreads <- MCMinThreads
    MaxThreads <- MCMaxThreads
    MinWatts <- MCMinWatts
    MaxWatts <- MCMaxWatts
    WindowSize <- MCWindowSize
    Powers <- MCPowers

SPECIFICATION Spec

INVARIANT TypeOK
INVARIANT CapInBounds

PROPERTY ImplementsCapControl
PROPERTY SustainedHighReachesMin
PROPERTY SustainedLowReachesMax
