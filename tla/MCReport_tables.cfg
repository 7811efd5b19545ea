CONSTANTS
    FrameworkList <- MCFrameworkList
    Results <- MCResults
    Scale = 2
SPECIFICATION Spec
INVARIANTS
    
    SummaryFaithful
CHECK_DEADLOCK FALSE
