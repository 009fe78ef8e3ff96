SPECIFICATION Spec
CONSTANTS
    MaxForms = 2
    MAX_VARIANTS = 2
    MaxEdits = 2
    MaxVariants = 3
    None = None
PROPERTIES
    UnlinkingKeepsTheSets
CHECK_DEADLOCK FALSE
