CONSTANTS
    Agents = {claude}
    Statuses <- AllStatuses
    None = None
    Setups <- AllSubscriptions
SPECIFICATION FairSubSpec
CHECK_DEADLOCK FALSE
PROPERTIES
    NeverBackwards
    CaughtUp
