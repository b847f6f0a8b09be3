CONSTANTS
    Words <- MCWords
    Heads <- MCHeads
    Tails <- MCTails
    Handlers <- MCHandlers
    None = None
SPECIFICATION Spec
INVARIANTS
    RoutedAsDeclared
    
    QueryFindsItems
    PatchSurvivesWire
    PatchAppliedAsStandard
    LeastLoadedChosen
CHECK_DEADLOCK FALSE
