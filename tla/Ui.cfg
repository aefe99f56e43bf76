\* Saves, failures to open a file, crashes and restarts; the settings of the other parts are in
\* MCUi.
CONSTANTS
    Option = {x1, x2}
    Value = {0, 1, 2}
    DefaultVal = 0
    Worker = {x3, x4}
    Crashes = TRUE
    FopenFails = TRUE
    None = None
    Node = {x1, x2, x3, x4}
    MaxDescriptor = 3
    BodyToken = {"x", "=", "&"}
    MAX_VAR_LENGTH = 1
    MAX_CONTENT_NAME = 1
    MAX_USER_VARS = 2
    MaxBody = 4
\* The http server waits for a descriptor, the calls of the log are bounded.
CHECK_DEADLOCK FALSE
SPECIFICATION MCSpec
SYMMETRY Symmetry
INVARIANTS
    WorkerSeesWhole
    
PROPERTIES
    ImplementsAtomicFile
    
    Refines
