SPECIFICATION Spec
CONSTANTS
    Chains <- MCChains
    Absent = 9
    Transactions <- MCTransactions
    Statements <- MCStatements
    PageSize = 2
    MaxChanges = 2
INVARIANTS
    TypeOK
    ProvenWasSo
    UndisturbedIsProven
    RootIsTheChains
CHECK_DEADLOCK FALSE
