\* Two calls of anything, on a read-write and on a read-only connection.
SPECIFICATION FairPoolSpec
CONSTANTS
    Calls = {c1, c2}
    c1 = c1
    c2 = c2
    Offered <- SomeCommands
    Scripts <- EditorTexts
    Flags = {TRUE, FALSE}
    MaxSessions = 2
INVARIANTS
    FailedCommandsLeaveNothing
    ReportedIsCommitted
    ReadOnlyChangesNothing
PROPERTIES
    CommandsAreAnswered
