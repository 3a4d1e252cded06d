CONSTANTS
    MinThreads <- MCMinThreads
    MaxThreads <- MCMaxThreads
    WindowSize <- MCWindowSize
    Criterion = "MAXIMIZE_THROUGHPUT"
    Durations <- MCDurations
    MaxCalls <- MCMaxCalls

SPECIFICATION Spec

INVARIANT TypeOK
INVARIANT CapInBounds

PROPERTY DecisionsStaggered

\* The process stops for good when a decision tick dereferences a NULL
\* profile (TickNoProfile).
CHECK_DEADLOCK FALSE
