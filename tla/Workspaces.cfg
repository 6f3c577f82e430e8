CONSTANT
    Uses <- AllUses
SPECIFICATION Spec
CHECK_DEADLOCK FALSE
INVARIANTS
    Consistent
    IdsLead
PROPERTIES
    Undisturbed
    OverlayRestored
