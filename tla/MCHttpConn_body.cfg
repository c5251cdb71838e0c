\* The body of a form may arrive in pieces.  Registering a new name ends the program.
CONSTANTS
    Requests <- MCRequests
    Users <- MCUsers
    Files = {"file", "empty", "unreadable", "directory", "none"}
    BufferSize = 20
    TRIGModes = {0, 1}
    HeaderLength = 4
    ErrorLength = 2
    FileLength = 3
SPECIFICATION Spec
INVARIANT CompleteIsRecognised
CHECK_DEADLOCK FALSE
