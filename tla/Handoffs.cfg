SPECIFICATION Spec
CONSTANTS
    Prds <- MCPrds
    Backlogs <- MCBacklogs
    Wbss <- MCWbss
    Plans <- MCPlans
    Archs <- MCArchs
    Uxs <- MCUxs
    Uis <- MCUis
    Criteria = {"a", "b"}
    ChangedCriteria <- MCChanged
    Flaws <- MCFlaws
    QaFlaws = {"testSecret"}
    Blocking = {"secret", "testSecret"}
    BuiltIn = {"secret", "testSecret"}
    CliScanners <- MCTools
    EnableDesign = TRUE
    Earlier <- MCEarlier
    MaxChanges = 1
INVARIANTS CurrentCriteriaTested ScopeIsTicketed SlicesFit DismissedInWriting
CHECK_DEADLOCK FALSE
