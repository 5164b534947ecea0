SPECIFICATION Spec
CONSTANTS
    None = None
PROPERTIES CallsEnd NetworkEnds CompilesEnd StartupSound WaitSound
CHECK_DEADLOCK FALSE
