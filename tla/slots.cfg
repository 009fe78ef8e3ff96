SPECIFICATION Spec
CONSTANTS
    Empty = Empty
    Slots <- FrameSlots
    SlotKind <- FrameKind
    Layout <- FrameLayout
    Innate <- NoInnate
    BaseCapacity = 6
    LockedStance = FALSE
    Mods <- MCMods
    ModKind <- MCModKind
    ModPolarity <- MCPolarity
    ModDrain <- MCDrain
    ModMaxRank <- MCMaxRank
    Rivens = {"riven", "riven2"}
    Conflicts = {}
    Polarities = {"madurai", "naramon", "any", "universal"}
    MaxNewFormas = 2
    Others = {"alt"}
    Sharing = {"alt"}
    SavedBuilds <- FrameBuilds
    MaxEdits = 2
INVARIANTS
    SlotsTypeOK
    ModsFitTheirSlots
    NoModTwice
PROPERTIES
    OnlySwapsMisplaceAlternates
    PlansKeepTheirPromise
CHECK_DEADLOCK FALSE
