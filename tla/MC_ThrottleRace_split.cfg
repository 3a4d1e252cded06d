CONSTANTS
    MinThreads <- MCMinThreads
    MaxThreads <- MCMaxThreads
    MinWatts <- MCMinWatts
    MaxWatts <- MCMaxWatts
    WindowSize <- MCWindowSize
    Powers <- MCPowers
    SplitStores = TRUE

SPECIFICATION Spec

INVARIANT ObservedCapInBounds
