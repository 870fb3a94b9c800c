CONSTANTS
    Anon = "@"
    Keep = {"led"}
    SecretOption = {"key"}
    App = {"old", "new"}
    Intent = {"one", "two"}
    LowLevel = {"file"}
    Compile <- MCCompile
    Stock <- MCStock
    Packaged <- MCPackaged
    HandSection <- MCHandSection
    HandOption = {"x"}
    HandValue = {"2"}
    Bounds <- MCBounds

SPECIFICATION Spec

INVARIANTS
    RunsWhatWasReviewed

CHECK_DEADLOCK FALSE
