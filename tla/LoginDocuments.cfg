SPECIFICATION FormsSpec
CONSTANTS
    LogTypes = {"secure"}
    PersistRows = FALSE
INVARIANT LoginDocumentsAreHeard
