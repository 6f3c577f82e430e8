SPECIFICATION FairSpec
CONSTANTS
    Titles = {t1, t2}
    Plain = {p1, p2}
    Sessions = {s1, s2}
    None = None
    MaxChanges = 3
    MaxFaults = 1
INVARIANTS
    Consistent
PROPERTIES
    ManualRenameWinsUnlessEqual
    LabelFollows
