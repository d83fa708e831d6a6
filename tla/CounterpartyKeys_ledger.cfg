\* A ledger write whose directory fsync fails, a retry, an erasure, a power loss.
SPECIFICATION CkSpec
CONSTANTS
    MaxKeys = 1
INVARIANTS
    LedgerIsDurable
