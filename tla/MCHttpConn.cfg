\* Eleven requests and one that does not fit the buffer, cut anywhere, every kind
\* of file, and one registered user.  Registering another ends the program,
\* and a form without a body can.
CONSTANTS
    Requests <- MCRequests
    Users <- MCUsers
    Files = {"file", "empty", "unreadable", "directory", "none"}
    BufferSize = 20
    TRIGModes = {0, 1}
    HeaderLength = 4
    ErrorLength = 2
    FileLength = 3
SPECIFICATION Spec
INVARIANTS TypeOK ParsedAsMeant RecognisedUnlessBodyCut AnswerIsWhole PageIsMeant
PROPERTY RequestsEnd
CHECK_DEADLOCK FALSE
