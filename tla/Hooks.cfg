SPECIFICATION Spec
CONSTANTS
    Other = "Bash"
    Wide = {"claude"}
    MaxBackups = 2
    AsRoot = FALSE
    Disturbances = 3
PROPERTIES
    EditsAreSafe
    ConvergesInTheEnd
CHECK_DEADLOCK FALSE
