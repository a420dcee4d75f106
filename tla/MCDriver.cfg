SPECIFICATION FairSpec
CONSTANTS
    AllowSilent = TRUE
    ToolsMayFail = TRUE
    MaxErrors = 2
    OldTarget = "old"
INVARIANTS TypeOK CountedErrorsAreFatal RunsItsOwnOutput
PROPERTIES NoOutputAfterErrors Terminates
