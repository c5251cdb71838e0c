\* Two callers, a queue of two lines, one midnight, a new file after two lines,
\* with and without the writer thread.  The callers stop after MaxLines.
CONSTANTS
    t1 = t1  t2 = t2
    Threads = {t1, t2}
    MaxLines = 2
    MaxDay = 1
    MaxQueue = 2
    Split = 2
    Modes = {TRUE, FALSE}
    None = None
SPECIFICATION Spec
INVARIANTS TypeOK DirectLinesAreOnDisk OwnOrder NotInYesterdaysFile
PROPERTY ImplementsLineLog
CHECK_DEADLOCK FALSE
