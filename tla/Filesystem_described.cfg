SPECIFICATION Spec
CONSTANTS
    Names = {"test", "d", "x"}
    RequestPaths <- MCPaths
    Texts = {"y"}
    Formats = {"gzip"}
    TestFile <- MCTest
    SandboxName = "iri_sandbox"
    MaxDepth = 4
    MaxSteps = 3
INVARIANT SymlinkIsDescribedAsLink
CHECK_DEADLOCK FALSE
