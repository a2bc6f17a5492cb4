SPECIFICATION Spec
CONSTANTS
    Services = {s1}
    OutCap = 1
    StreamCap = 1
    Faults = {}
    QuietStart = TRUE
PROPERTY OptOutIsTornDown
