SPECIFICATION Spec
CONSTANTS
    None = None
    Torn = Torn
PROPERTIES  BundlesPolled
CHECK_DEADLOCK FALSE
