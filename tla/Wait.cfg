CONSTANTS
    claude = claude
    codex = codex
    Agents = {claude, codex}
    Statuses <- AllStatuses
    None = None
    Setups <- AllWaits
SPECIFICATION FairSpec
CHECK_DEADLOCK FALSE
INVARIANTS
    AnswersTrue
    PromptObserved

    
