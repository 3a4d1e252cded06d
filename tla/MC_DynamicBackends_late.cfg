CONSTANTS
    Backends <- MCBackends
    Enabled <- MCBackends
    Build = "release"

SPECIFICATION Spec

INVARIANT ContractOrder
