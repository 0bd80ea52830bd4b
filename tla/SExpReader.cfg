\* Blocks of five bytes; one allocation fails.
SPECIFICATION Spec
CHECK_DEADLOCK FALSE
CONSTANTS
    None = None
    LongMax = 19
    Scale = 100
    INBUF_SIZE = 6
    Inputs <- MCInputs
    MaxFailures = 1
    MaxStray = 1
INVARIANTS
    PlaceInFile
    ReadsWhatIsWritten
    NothingLeaked
PROPERTIES
    ReaderEnds
