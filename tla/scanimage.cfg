\* scanimage with chunks of up to three of the four bytes of a picture, pages up
\* to the third, every call but sane_read's end able to fail, and a backend whose
\* sane_cancel and sane_read may not return.
SPECIFICATION FairSpec
CONSTANTS
    Jobs <- SomeJobs
    Bytes = 4
    Chunk = 3
    Last = 3
    Faults = {"start", "read", "fopen", "write", "fclose", "rename", "cancel", "spin"}
INVARIANTS WholePages ExitTells
PROPERTY SignalEnds
\* the program ends, or is blocked
CHECK_DEADLOCK FALSE
