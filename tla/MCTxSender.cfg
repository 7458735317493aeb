SPECIFICATION Spec
CONSTANTS
    MaxLegs = 3
    MaxRetries = 1
    Amounts = {1, 2}
    Allowances = {0, 1, 2}
INVARIANTS
    TypeOK
    OneTradeExposed
    CleanLegsAreApproved
    SwapsInOrder
PROPERTIES
    OrdersSpec
CHECK_DEADLOCK FALSE
