\* A crash between the two renames of a save.
CONSTANTS
    Option = {o1, o2}
    Value = {0, 1, 2}
    DefaultVal = 0
    Worker = {w1}
    Crashes = TRUE
    FopenFails = FALSE
    None = None
SPECIFICATION Spec
PROPERTY BackupUsed
