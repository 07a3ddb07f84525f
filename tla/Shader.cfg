SPECIFICATION Spec
CONSTANTS
    WcMod = 16
    NRegs = 2
    RegMod = 4
    First <- AllInstructions
    Later <- LaterInstructions
    Strings <- SomeStrings
    WordLists <- SomeLists
    TypeOperands <- SomeOperands
    DebugAssertions = TRUE
    MaxHeaders = 1
    MaxBuilt = 1
    MaxCalls = 4
CHECK_DEADLOCK FALSE
INVARIANTS
    TypeOK
    RegistersApart
    HeaderDecidesValidate
    FinalizedBelowBound
    ReadsBack
    IdsDefinedOnce
    DefinedBeforeUse
    ComputesGuest
    NoneSkipped
PROPERTIES
    WordsStay
