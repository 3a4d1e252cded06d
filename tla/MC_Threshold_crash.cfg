CONSTANTS
    MinThreads <- MCMinThreads
    MaxThreads <- MCMaxThreads
    WindowSize <- MCWindowSize
    Criterion = "MAXIMIZE_THROUGHPUT"
    Durations <- MCDurations
    MaxCalls <- MCMaxCalls

SPECIFICATION Spec



INVARIANT NoCrash

