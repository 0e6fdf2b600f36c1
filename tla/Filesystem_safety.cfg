SPECIFICATION Spec
CONSTANTS
    Names = {"test", "d", "x"}
    RequestPaths <- MCPaths
    Texts = {"y"}
    Formats = {"gzip"}
    TestFile <- MCTest
    SandboxName = "iri_sandbox"
    MaxDepth = 4
    MaxSteps = 3
INVARIANTS
    TypeOK
    
    RetryIsHarmless
    RetryFinishesTheJob
    ErrorsAreContained
    AliasesAgree
    MoveIsReversible
    
CHECK_DEADLOCK FALSE
