CONSTANTS
    Base = 2
    Size = 8
    Writers = {t1, t2}
    COLUMNS = 2
    ROW_BUF_SIZE = 11
    LabelWidth = 4
    MaxAddress = 6
    Kilo = 3
    FtPerUs = 2
    Word = 16
    Since1601 = 6
    MaxMs = 4
    MaxNow = 27
SPECIFICATION UtilSpec
INVARIANTS ReadBack LittleEndian LogTypeOK NeverMuted DumpComplete
INVARIANTS ClockTypeOK SleptLongEnough WholeMilliseconds
CHECK_DEADLOCK FALSE
