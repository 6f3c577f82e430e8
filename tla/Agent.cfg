CONSTANTS
    AllSources = {"herdr:pi", "herdr:mastracode", "herdr:opencode", "herdr:claude", "herdr:hermes", "user:x", "user:y"}
    Agents = {"pi", "claude", "mastracode", "opencode", "hermes"}
    Label <- Labels
    Full = {"herdr:pi", "herdr:mastracode", "herdr:opencode"}
    Official = {"herdr:pi", "herdr:mastracode", "herdr:opencode", "herdr:claude", "herdr:hermes"}
    IdentityOnly = {"herdr:hermes"}
    Adopting = {"herdr:mastracode"}
    Starts = {"startup", "new", "clear"}
    Replacing <- Replacements
    AllSessions = {"p1", "p2", "m1", "m2", "o1", "o2", "c1", "h1", "h2", "x1"}
    IdSessions = {"m1", "m2", "o1", "o2", "c1", "h1", "h2"}
    States = {"Idle", "Working", "Blocked"}
    None = None
    Setups <- AllSetups
SPECIFICATION Spec
INVARIANTS
    Consistent
    StaleStaysOut
    ExitIsFinal
    SavedUnlessDirty
PROPERTIES
    OwnerConfirmed
