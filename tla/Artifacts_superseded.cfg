\* A version the owner accepted with a dangling reference is superseded by one
\* that needs nothing; nobody touches a file and the base never changes.
SPECIFICATION AlSpec
CONSTANTS
    Learned <- WorkflowAndAgent
    Placed = {}
    Touched = {}
    Refs <- FirstNeedsAgent
    Bases <- WithoutAgent
    BaseVersion = 1
    MaxReconfirmations = 1
INVARIANTS
    RestartsOnSameBase
CHECK_DEADLOCK FALSE
