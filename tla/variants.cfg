SPECIFICATION Spec
CONSTANTS
    MaxForms = 2
    MAX_VARIANTS = 2
    MaxEdits = 2
    MaxVariants = 3
    None = None
INVARIANTS
    VariantsTypeOK
    ReopeningKeepsVariants
    ShareLinksShowTheVariants
    OldClientsKeepTheLink
PROPERTIES
    IndependentVariantsKeepTheirOwn
    LinkedVariantsShareOneSet
    GuideScopeFollowsItsVariant
CHECK_DEADLOCK FALSE
