SPECIFICATION MachinesSpec
CONSTANTS
    Addr = {0, 6}
    Step = {0, 6}
    Value = {0, 1}
    DegreeRange <- MCDegreeRange
    PageSize = 2
    diff_columns_base = 4
    Modulus = 17
    None = None
    Row = {0, 1}
    Column = {"value"}
    Word = {0, 1}
    ExternalValues <- MCExternalValues
INVARIANTS TableSatisfiesConstraints EveryOperationHasItsRow AnswersAreInTheTable
PROPERTIES ImplementsMemory
CHECK_DEADLOCK FALSE
