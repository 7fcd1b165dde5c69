SPECIFICATION SeqSpec
CONSTANTS
    Names = {".", "log_default", ".log", "logs", "app"}
    ParseWidth = 4
    Stale = "stale"
    Size = 32
    TextLength = 6
    MaxLines = 5
    Reads = {1, 8, 9, 17, 34}
CHECK_DEADLOCK FALSE
INVARIANTS
    DateShown
    LineRight
    SettingsCommute
    InputKept
    AnswersHonest
