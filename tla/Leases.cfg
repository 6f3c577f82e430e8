CONSTANTS
    c1 = c1
    c2 = c2
    plain = plain
    physical = physical
    Sources = {c1, c2}
    LeaseKeys <- HeldKeys
    Physical = {physical}
    Panes = {p1, p2}
    Popups = {pop}
    None = None
    MaxRepeat = 2
SPECIFICATION Spec
CHECK_DEADLOCK FALSE
INVARIANTS
    Consistent
PROPERTIES
    RepeatsFollow
    NoLeak
