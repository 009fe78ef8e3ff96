SPECIFICATION Spec
CONSTANTS
    Empty = Empty
    Slots <- WeaponSlots
    SlotKind <- WeaponKind
    Layout <- WeaponLayout
    Innate <- NoInnate
    BaseCapacity = 6
    LockedStance = FALSE
    Mods <- MCMods
    ModKind <- MCModKind
    ModPolarity <- MCPolarity
    ModDrain <- MCDrain
    ModMaxRank <- MCMaxRank
    Rivens = {"riven", "riven2"}
    Conflicts = {}
    Polarities = {"madurai", "naramon", "any", "universal"}
    MaxNewFormas = 2
    Others = {"alt"}
    Sharing = {"alt"}
    SavedBuilds <- WeaponBuilds
    MaxEdits = 2
INVARIANTS
    FilledSlotsAreVisible
CHECK_DEADLOCK FALSE
