CONSTANTS
    claude = claude
    codex = codex
    Agents = {claude, codex}
    None = None
    Misses = 2
    Confirmations = 2
    Capacity = 1
    Setups <- PickerSetup
SPECIFICATION Spec
PROPERTIES
    GoneIsTold
