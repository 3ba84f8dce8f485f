SPECIFICATION Spec
CONSTANTS
    Modes = {half10, full10, full100}
    LateLink = FALSE
PROPERTIES Initialises LinkSeen
