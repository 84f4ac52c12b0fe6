SPECIFICATION GenSpec
CONSTANTS
    nothing = nothing
    key = key
    base = base
    n1 = n1
    n2 = n2
    n3 = n3
    Policies <- MCPolicies
    Names <- MCNames
    Variables <- MCVariables
    Commands <- MCCommands
    Nothing <- MCNothing
    Key <- MCKey
    Base <- MCBase
INVARIANTS ChangeNeedsApproval
CHECK_DEADLOCK FALSE
